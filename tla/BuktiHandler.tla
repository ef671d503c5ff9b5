---------------------------- MODULE BuktiHandler ----------------------------
(***************************************************************************)
(* The payment proof of a customer: upload_bukti of login/index.php moves  *)
(* the file first and then writes its name into the row.                   *)
(***************************************************************************)
EXTENDS Permintaan

\* The list of pantau_pemakaian: the unpaid rows of the session's own user,
\* whatever role that user has by now.
BukaBukti(s) ==
    /\ BukaHalaman(s, "upload_bukti")
    /\ \E n \in {m \in BarisUser(Aktor(s)) : pemakaian[m].status # "LUNAS"} :
          Pasang(s, [FormDasar(s, "upload_bukti") EXCEPT !.no = n])

TerimaBukti(s) ==
    /\ Diterima(s, "upload_bukti")
    /\ MulaiDengan(s, RekBaru(s), "pindah_berkas")

\* Mutant: a refused file does not end the request.
TolakBerkas_Lanjut(s) ==
    /\ pc[s] = "pindah_berkas"
    /\ rek' = [rek EXCEPT ![s].bukti = <<form[s].no, jam>>]
    /\ Pindah(s, "ubah_bukti")
    /\ TetapSesi
    /\ UNCHANGED <<basis, jejak>>

\* No file, a wrong extension, more than 2 MB, or a failed move.
TolakBerkas(s) ==
    /\ pc[s] = "pindah_berkas"
    /\ Selesai(s)
    /\ TetapSesi
    /\ UNCHANGED <<basis, jejak>>

\* move_uploaded_file to bukti_<no>_<time>: a name in use is overwritten.
PindahBerkas(s) ==
    /\ pc[s] = "pindah_berkas"
    /\ LET nama == <<form[s].no, jam>> IN
       /\ berkas' = berkas \cup {nama}
       /\ rek' = [rek EXCEPT ![s].bukti = nama]
    /\ Pindah(s, "ubah_bukti")
    /\ TetapSesi
    /\ UNCHANGED <<login, tabelTarif, pemakaian, no_akhir, audit_log, jejak>>

\* UPDATE pemakaian SET bukti_bayar=? WHERE no=? AND username=?; the number
\* of changed rows is not looked at before catat_log.
UbahBukti(s) ==
    /\ pc[s] = "ubah_bukti"
    /\ LET n == form[s].no
           kena == n \in BarisUser(Aktor(s))
       IN  /\ pemakaian' = IF kena
                           THEN [pemakaian EXCEPT ![n].bukti = rek[s].bukti]
                           ELSE pemakaian
           /\ TulisBila(s, "pemakaian", kena)
    /\ Lanjut(s, "log")
    /\ TetapSesi
    /\ UNCHANGED <<login, tabelTarif, no_akhir, berkas, audit_log>>

JalanBukti(s) == TolakBerkas(s) \/ PindahBerkas(s) \/ UbahBukti(s)
=============================================================================
