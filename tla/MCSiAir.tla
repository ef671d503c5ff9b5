------------------------------- MODULE MCSiAir -------------------------------
(* Instances of SiAir for TLC. *)
EXTENDS SiAir, TLC

CONSTANTS s1, s2, s3,              \* sessions
          adm, ben, pet, w1        \* accounts

Akun(lv) == [level |-> lv, tipe |-> "RT", data |-> "d1"]

MCTipe == {"RT"}
MCData == {"d1", "d2"}
MCSatuData == {"d1"}

\* A calendar of one day per tick; days 0 and 1 are in month 1, the rest in 2.
MCHari  == [j \in Waktu |-> j]
MCBulan == [h \in Hari |-> IF h <= 1 THEN 1 ELSE 2]

MCTarif == 1 :> [tipe |-> "RT", harga |-> 2, aktif |-> TRUE]

BarisAwal(u) ==
    [username |-> u, awal |-> 0, akhir |-> 1, pakai |-> 1, tgl |-> 0,
     waktu |-> 0, kd |-> 1, tagihan |-> 2, status |-> "BELUM LUNAS", bukti |-> Tiada,
     oleh |-> Tiada]
MCPemakaian == 1 :> BarisAwal(w1)
MCPemakaianKosong == <<>>

\* Who sits at which session.
PetPet   == s1 :> pet @@ s2 :> pet
PetAdm   == s1 :> pet @@ s2 :> adm
BenPet   == s1 :> ben @@ s2 :> pet
BenAdm   == s1 :> ben @@ s2 :> adm
WarAdm   == s1 :> w1 @@ s2 :> adm
TigaSesi == s1 :> w1 @@ s2 :> adm @@ s3 :> Tiada

MCLogin == [u \in {w1, adm, pet, ben} |->
              Akun(CASE u = w1 -> "warga" [] u = adm -> "admin"
                     [] u = pet -> "petugas" [] u = ben -> "bendahara")]
MCLoginKecil == [u \in {w1, adm} |-> MCLogin[u]]

TombolMeter == {"meter_add", "meter_edit", "meter_hapus"}
TombolBukti == {"upload_bukti", "meter_edit", "meter_hapus"}
TombolAkun  == {"user_add", "user_edit", "user_hapus", "profil_edit",
                "register_warga"}
TombolTarif == {"meter_add", "meter_edit",
                "tarif_add", "tarif_edit", "tarif_hapus"}
TombolHapus == {"user_hapus", "meter_add"}
=============================================================================
