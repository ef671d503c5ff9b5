---------------------------- MODULE TarifHandler ----------------------------
(***************************************************************************)
(* The tariffs: tarif_add, tarif_edit and tarif_hapus of login/index.php.  *)
(***************************************************************************)
EXTENDS Permintaan

-----------------------------------------------------------------------------
(* Pages *)

BukaTarif(s, t, pilihan) ==
    /\ BukaHalaman(s, t)
    /\ \E k \in pilihan : Pasang(s, [FormDasar(s, t) EXCEPT !.id = k])

\* The identifier of a new tariff is typed.
BukaTarifAdd(s)   == BukaTarif(s, "tarif_add", IdTarif)
BukaTarifEdit(s)  == BukaTarif(s, "tarif_edit", DOMAIN tarif)
BukaTarifHapus(s) == BukaTarif(s, "tarif_hapus", DOMAIN tarif)

-----------------------------------------------------------------------------
(* POST *)

TarifIsian == [tipe : Tipe, harga : HargaUji, aktif : BOOLEAN]

TerimaTarif(s, t, l) ==
    /\ Diterima(s, t)
    /\ \E isi \in TarifIsian : MulaiDengan(s, [RekBaru(s) EXCEPT !.tarif = isi], l)

TerimaTarifAdd(s)   == TerimaTarif(s, "tarif_add", "cek_tarif")
TerimaTarifEdit(s)  == TerimaTarif(s, "tarif_edit", "ubah_tarif")
TerimaTarifHapus(s) ==
    /\ Diterima(s, "tarif_hapus")
    /\ MulaiDengan(s, RekBaru(s), "hapus_tarif")

-----------------------------------------------------------------------------
(* Statements *)

\* The table becomes f.
TabelTarif(f) ==
    /\ tarif' = f
    /\ hargaPernah' = hargaPernah \cup HargaAktif(f)

CekTarif(s) ==
    /\ pc[s] = "cek_tarif"
    /\ IF form[s].id \in DOMAIN tarif THEN Selesai(s) ELSE Lanjut(s, "sisip_tarif")
    /\ TetapSesi
    /\ UNCHANGED <<basis, jejak>>

SisipTarif(s) ==
    /\ pc[s] = "sisip_tarif"
    /\ form[s].id \notin DOMAIN tarif
    /\ TabelTarif(Sisip(tarif, form[s].id, rek[s].tarif))
    /\ Tulis(s, "tarif")
    /\ Lanjut(s, "log")
    /\ TetapSesi
    /\ UNCHANGED <<login, pemakaian, no_akhir, berkas, audit_log>>

\* An identifier taken since the SELECT is a duplicate key: mysqli throws.
IdGanda(s) ==
    /\ pc[s] = "sisip_tarif"
    /\ form[s].id \in DOMAIN tarif
    /\ gagal' = gagal \cup {rek[s].req}
    /\ Selesai(s)
    /\ UNCHANGED <<jam, basis, form, nReq, jejak>>

UbahTarif(s) ==
    /\ pc[s] = "ubah_tarif"
    /\ TabelTarif([k \in DOMAIN tarif |->
                     IF k = form[s].id THEN rek[s].tarif ELSE tarif[k]])
    /\ TulisBila(s, "tarif", tarif' # tarif)
    /\ Catat(s, tarif' # tarif)
    /\ TetapSesi
    /\ UNCHANGED <<login, pemakaian, no_akhir, berkas, audit_log>>

HapusTarif(s) ==
    /\ pc[s] = "hapus_tarif"
    /\ TabelTarif(Buang(tarif, {form[s].id}))
    /\ TulisBila(s, "tarif", form[s].id \in DOMAIN tarif)
    /\ Catat(s, form[s].id \in DOMAIN tarif)
    /\ TetapSesi
    /\ UNCHANGED <<login, pemakaian, no_akhir, berkas, audit_log>>

HalamanTarif(s) == BukaTarifAdd(s) \/ BukaTarifEdit(s) \/ BukaTarifHapus(s)
AjukanTarif(s)  == TerimaTarifAdd(s) \/ TerimaTarifEdit(s) \/ TerimaTarifHapus(s)
JalanTarif(s) ==
    CekTarif(s) \/ SisipTarif(s) \/ IdGanda(s) \/ UbahTarif(s) \/ HapusTarif(s)
=============================================================================
