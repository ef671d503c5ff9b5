-------------------------------- MODULE SiAir --------------------------------
(***************************************************************************)
(* The handlers of login/index.php and register_warga of index.php, run by *)
(* several sessions against one database.                                  *)
(***************************************************************************)
EXTENDS MeterHandler, UserHandler, TarifHandler, BuktiHandler

Halaman(s) ==
    HalamanMeter(s) \/ HalamanUser(s) \/ HalamanTarif(s) \/ BukaBukti(s) \/ Pental(s)

Ajukan(s) ==
    AjukanMeter(s) \/ AjukanUser(s) \/ AjukanTarif(s) \/ TerimaBukti(s) \/ Tolak(s)

Jalan(s) ==
    JalanMeter(s) \/ JalanUser(s) \/ JalanTarif(s) \/ JalanBukti(s) \/ CatatLog(s)

\* Nobody has a request running: the system may rest here.
Tenang == (\A s \in Sesi : ~Berjalan(s)) /\ UNCHANGED vars

Init == InitPermintaan

Next ==
    \/ Detak
    \/ Tenang
    \/ \E s \in Sesi : Halaman(s) \/ Ajukan(s) \/ Jalan(s) \/ Gagal(s)

Spec == Init /\ [][Next]_vars

\* The web server runs a script it has started to its end.
SpecAdil == Spec /\ \A s \in Sesi : WF_vars(Jalan(s))

-----------------------------------------------------------------------------
(* Types *)

TipeBasis ==
    /\ login \in [DOMAIN login -> Pengguna] /\ DOMAIN login \subseteq Username
    /\ tarif \in [DOMAIN tarif -> Tarif] /\ DOMAIN tarif \subseteq IdTarif
    /\ hargaPernah \subseteq IdTarif \X Nat
    /\ pemakaian \in [DOMAIN pemakaian -> Baris]
    /\ no_akhir \in Nat /\ DOMAIN pemakaian \subseteq 1..no_akhir
    /\ berkas \subseteq NamaBukti
    /\ audit_log \subseteq EntriLog

TipeSesi ==
    /\ jam \in Waktu
    /\ pc \in [Sesi -> Keadaan]
    /\ form \in [Sesi -> Form]
    /\ rek \in [Sesi -> Rek]
    /\ nReq \in Nat
    /\ jejak \subseteq JejakTulis
    /\ gagal \subseteq Nat

TypeOK == TipeBasis /\ TipeSesi

-----------------------------------------------------------------------------
(* Control *)

\* The buttons whose handler has the step l.
Penangan(l) ==
    CASE l \in {"cek_bulan", "sisip_meter"}   -> {"meter_add"}
      [] l \in {"tipe", "kd", "harga"}        -> {"meter_add", "meter_edit"}
      [] l = "cek_umur"                       -> {"meter_edit", "meter_hapus"}
      [] l \in {"no_user", "ubah_meter"}      -> {"meter_edit"}
      [] l = "hapus_meter"                    -> {"meter_hapus"}
      [] l \in {"cek_user", "sisip_user"}     -> {"user_add"}
      [] l = "ubah_user"                      -> {"user_edit"}
      [] l \in {"hapus_anak", "hapus_user"}   -> {"user_hapus"}
      [] l = "ubah_profil"                    -> {"profil_edit"}
      [] l \in {"cek_daftar", "sisip_daftar"} -> {"register_warga"}
      [] l \in {"cek_tarif", "sisip_tarif"}   -> {"tarif_add"}
      [] l = "ubah_tarif"                     -> {"tarif_edit"}
      [] l = "hapus_tarif"                    -> {"tarif_hapus"}
      [] l \in {"pindah_berkas", "ubah_bukti"} -> {"upload_bukti"}
      [] OTHER                                -> Tombol \ {"register_warga"}

BerUsername == {"meter_add", "user_add", "user_edit", "user_hapus", "register_warga"}
BerTarif    == {"tarif_add", "tarif_edit", "tarif_hapus"}
BerIsi      == {"user_add", "user_edit", "profil_edit", "register_warga"}

\* What a form and a running script hold, by their button.
FormSah(s) ==
    /\ pc[s] = "form" => T(s) \in Tombol
    /\ T(s) \in BerUsername => form[s].username \in Username
    /\ T(s) \in BerTarif => form[s].id \in IdTarif

RekSah(s) ==
    Berjalan(s) =>
        /\ T(s) \in Penangan(pc[s])
        /\ T(s) # "register_warga" => s \in Masuk /\ rek[s].level \in Level
        /\ T(s) \in BerIsi => rek[s].isi \in Pengguna
        /\ T(s) \in BerTarif \ {"tarif_hapus"} => rek[s].tarif \in Tarif
        /\ pc[s] = "sisip_meter" => Pakai(s) >= 0

Kendali == \A s \in Sesi : FormSah(s) /\ RekSah(s)

-----------------------------------------------------------------------------
(* The ledger *)

Bulan(n) == BulanDari[pemakaian[n].tgl]

\* "Warga ini sudah dicatat meternya pada bulan ini" (login/index.php:478):
\* a customer has one row per month.
SatuPerBulan ==
    \A m, n \in DOMAIN pemakaian :
        pemakaian[m].username = pemakaian[n].username /\ Bulan(m) = Bulan(n)
        => m = n

\* What the SELECT before the INSERT of meter_add does give: two rows of one
\* customer and one month were never recorded by the same session, whatever it
\* posts, however often it posts it again and whatever happens at midnight.
\* It needs ZonaSama: PHP and MySQL read the same calendar.
ZonaSama == TglPHP = TglDB

GandaBedaSesi ==
    \A m, n \in DOMAIN pemakaian :
        /\ pemakaian[m].username = pemakaian[n].username
        /\ Bulan(m) = Bulan(n)
        /\ pemakaian[m].oleh = pemakaian[n].oleh
        /\ pemakaian[m].oleh # Tiada
        => m = n

\* Why: no row is dated in the future, and between the reading of the clock and
\* the INSERT of meter_add the session has no row of that customer in that month
\* or a later one.
TglLewat == \A n \in DOMAIN pemakaian : pemakaian[n].tgl <= TglDB[jam]

JagaSesi(s) ==
    pc[s] \in {"cek_bulan", "sisip_meter"} =>
        /\ rek[s].bulan <= BulanDari[TglPHP[jam]]
        /\ \A n \in DOMAIN pemakaian :
              pemakaian[n].username = form[s].username /\ pemakaian[n].oleh = s =>
                 /\ Bulan(n) <= rek[s].bulan
                 /\ pc[s] = "sisip_meter" => Bulan(n) # rek[s].bulan

JagaBulan == \A s \in Sesi : JagaSesi(s)

IndInv == TypeOK /\ Kendali /\ TglLewat /\ JagaBulan

\* Every row, however it was last written, has the usage its readings say and
\* is paid when the usage is nil (login/index.php:467-470 and 525-530).
BarisKonsisten ==
    \A n \in DOMAIN pemakaian :
        LET r == pemakaian[n] IN
        /\ r.akhir = r.awal + r.pakai
        /\ r.pakai = 0 => r.status = "LUNAS" /\ r.tagihan = 0

\* Every bill is its usage times a price that some tariff had while it was
\* active, or nil: the three SELECTs behind $tarif (user_to_idtarif and
\* id_tarif_to_tarif) interleave with the edits of the tariff table, and none
\* may pick up a price that was never in force.
TagihanBerdasar ==
    \A n \in DOMAIN pemakaian :
        LET r == pemakaian[n] IN
        \/ r.tagihan = 0
        \/ \E h \in hargaPernah : r.tagihan = h[2] * r.pakai

BarisBerubah(n) ==
    n \in DOMAIN pemakaian /\ (n \notin DOMAIN pemakaian' \/ pemakaian'[n] # pemakaian[n])

\* s takes this step.
Melangkah(s) == Berjalan(s) /\ pc'[s] # pc[s]

\* "Data ini sudah lebih dari 30 hari dan terkunci untuk petugas" (514, 617):
\* a request of petugas changes or deletes no row that was locked when the
\* request was admitted, though the check reads the row in another statement
\* than the one that writes it.  upload_bukti has no such check: petugas may add
\* the proof of a payment to a row of their own account, one they had as a customer.
HanyaBukti(s, n) ==
    /\ T(s) = "upload_bukti"
    /\ n \in BarisUser(Aktor(s)) \cap DOMAIN pemakaian'
    /\ pemakaian'[n] = [pemakaian[n] EXCEPT !.bukti = pemakaian'[n].bukti]

KunciUmur ==
    [][\A s \in Sesi, n \in DOMAIN pemakaian :
          Melangkah(s) /\ rek[s].level = "petugas" /\ BarisBerubah(n)
          => \/ TglPHP[rek[s].mulai] - pemakaian[n].tgl <= BatasUmur
             \/ HanyaBukti(s, n)]_vars

\* Every row belongs to an account: user_hapus deletes the rows of an account
\* before the account ("ANTI-HANTU", login/index.php:367).
TanpaHantu ==
    \A n \in DOMAIN pemakaian : pemakaian[n].username \in DOMAIN login

\* meter_akhir is read-only for bendahara (login/index.php:1312, 1395): an edit
\* by bendahara leaves the readings of the row alone.
BendaharaHanyaStatus ==
    [][\A s \in Sesi, n \in DOMAIN pemakaian \cap DOMAIN pemakaian' :
          Melangkah(s) /\ form[s].level = "bendahara"
          => pemakaian'[n].akhir = pemakaian[n].akhir]_vars

\* The answer to an edit by petugas says that the readings were changed
\* (login/index.php:1184-1186) and petugas never sees the status: such an edit
\* leaves a payment recorded by bendahara alone.
PetugasHanyaAngka ==
    [][\A s \in Sesi, n \in DOMAIN pemakaian \cap DOMAIN pemakaian' :
          Melangkah(s) /\ form[s].level = "petugas" /\ pemakaian[n].status = "LUNAS"
          /\ pemakaian'[n].pakai = pemakaian[n].pakai
          => pemakaian'[n].status = "LUNAS"]_vars

-----------------------------------------------------------------------------
(* Payment proofs *)

\* The name in bukti_bayar is the name of a file that is there, and it was
\* uploaded for this very row (login/index.php:583-590), also when a request
\* dies between the move and the UPDATE, and after rows were deleted.
BuktiSesuai ==
    \A n \in DOMAIN pemakaian :
        LET b == pemakaian[n].bukti IN
        b # Tiada => b \in berkas /\ b[1] = n

\* The ledger: however the statements of the handlers interleave and wherever a
\* request dies, the rows change by the steps of BukuMeter only: a number is
\* given once and a row dated by the database on that day; a later write
\* touches one row, either its readings with the bill and status that follow
\* from them, whatever was posted for them, or its proof of payment (login/index.php:483-493, 532-544, 587-593).
Ledger == INSTANCE BukuMeter WITH
    baris <- pemakaian, nomor <- no_akhir, arsip <- berkas,
    harga <- {h[2] : h \in hargaPernah}, hari <- TglDB[jam]

LedgerSpec == Ledger!Spec

-----------------------------------------------------------------------------
(* The audit trail *)

Tercatat(w) == \E e \in audit_log : e.req = w.req /\ e.aksi = w.t

Terjawab(q) == \A s \in Sesi : Berjalan(s) => rek[s].req # q

\* "dipanggil dari tiap handler yang INSERT/UPDATE/DELETE data penting"
\* (assets/func.php:104): a write of a handler that does call catat_log and
\* whose request has been answered is logged.  user_hapus logs by the second of
\* its DELETEs (377), so of the requests that delete one account at a time some
\* may take its rows and leave no entry: but then another one took the account,
\* a write to which this property applies.
AkunSudahHilang(w) ==
    /\ w.t = "user_hapus" /\ w.tabel = "pemakaian"
    /\ \E v \in jejak : /\ v.t = "user_hapus" /\ v.tabel = "login"
                         /\ v.siapa = w.siapa /\ v.req # w.req
    /\ ~\E v \in jejak : v.req = w.req /\ v.tabel = "login"

AuditLengkap ==
    \A w \in jejak :
        /\ w.t # "register_warga"
        /\ Terjawab(w.req) /\ w.req \notin gagal
        /\ ~AkunSudahHilang(w)
        => Tercatat(w)

\* The trail does not report what did not happen: an entry stands for a write
\* its request had committed, and no request that died has an entry.
\* upload_bukti logs without a look at the affected rows (592), and so reports a
\* proof that was recorded nowhere; but only of a row that was deleted after its
\* form was shown, and whose number is never that of a later row.
AuditBenar ==
    \A e \in audit_log :
        /\ \/ \E w \in jejak : w.req = e.req /\ w.t = e.aksi
           \/ e.aksi = "upload_bukti" /\ e.no \notin DOMAIN pemakaian
        /\ e.req \notin gagal

-----------------------------------------------------------------------------
(* Accounts *)

\* "TAPI cuma baris dia sendiri" (login/index.php:638-640): an existing account
\* changes in a step of a request admitted for an admin, or in a step of its own
\* session that leaves level and type alone; a new account that no admin
\* created is a warga.
LevelHanyaAdmin ==
    [][\A u \in DOMAIN login', s \in Sesi :
          /\ Melangkah(s)
          /\ rek[s].level # "admin"
          /\ u \notin DOMAIN login \/ login'[u] # login[u]
          => \/ u \notin DOMAIN login /\ login'[u].level = "warga"
             \/ /\ u \in DOMAIN login /\ u = Aktor(s)
                /\ login'[u].level = login[u].level
                /\ login'[u].tipe = login[u].tipe]_vars

-----------------------------------------------------------------------------
(* Forms and answers *)

\* "GUARD CSRF: token wajib cocok sama punya sesi" (login/index.php:256): the
\* guard is there for forms of other sites; a form of the application's own page
\* posted by a role that has the right is accepted.
FormSendiriDiterima ==
    [][\A s \in Sesi :
          pc[s] = "form" /\ pc'[s] = "siap"
          => login[Aktor(s)].level \notin Berhak(T(s))]_vars

\* A request that was admitted is answered, and by then whatever it wrote is in
\* the trail, unless it died, was a registration, or found the account gone.
JejakUtuh(q) ==
    /\ Terjawab(q)
    /\ \A w \in jejak : w.req = q =>
          \/ Tercatat(w)
          \/ q \in gagal
          \/ w.t = "register_warga"
          \/ AkunSudahHilang(w)

DitulisLaluTercatat ==
    \A q \in 1..MaxReq : nReq = q ~> JejakUtuh(q)
=============================================================================
