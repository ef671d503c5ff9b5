---------------------------- MODULE MeterHandler ----------------------------
(***************************************************************************)
(* meter_add, meter_edit and meter_hapus of login/index.php, one statement *)
(* per step, and the pages that show their forms.                          *)
(***************************************************************************)
EXTENDS Permintaan

-----------------------------------------------------------------------------
(* Pages *)

\* The user name is picked from the accounts of level warga; meter_awal is
\* filled in, read-only, from the history printed into the page.
BukaMeterAdd(s) ==
    /\ BukaHalaman(s, "meter_add")
    /\ \E u \in {v \in DOMAIN login : login[v].level = "warga"} :
       \E m \in MeterAwalBerikut(u) :
          Pasang(s, [FormDasar(s, "meter_add") EXCEPT
                        !.username = u, !.awal = m])

\* index.php?p=meter_edit&no=...: the list gives petugas no such link for a row
\* older than BatasUmur days, but the page does not look at the age.
BukaMeterEdit(s) ==
    /\ BukaHalaman(s, "meter_edit")
    /\ \E n \in DOMAIN pemakaian :
          Pasang(s, [FormDasar(s, "meter_edit") EXCEPT
                        !.no = n, !.awal = pemakaian[n].awal,
                        !.akhir = pemakaian[n].akhir])

\* The delete dialog is opened by a button of the list.
BarisTerbuka(s) ==
    {n \in DOMAIN pemakaian :
        login[Aktor(s)].level = "petugas" => Umur(n) <= BatasUmur}

BukaMeterHapus(s) ==
    /\ BukaHalaman(s, "meter_hapus")
    /\ \E n \in BarisTerbuka(s) :
          Pasang(s, [FormDasar(s, "meter_hapus") EXCEPT !.no = n])

-----------------------------------------------------------------------------
(* POST *)

\* The fields below are locked on the form only: the handlers take them as
\* posted.  meter_awal is read-only, once the page has filled it in;
AwalIsian(s) == IF IsianBebas THEN MeterUji \cup {form[s].awal} ELSE {form[s].awal}

\* meter_akhir is read-only for bendahara;
AkhirIsian(s) ==
    IF form[s].level = "bendahara" /\ ~IsianBebas THEN {form[s].akhir} ELSE MeterUji

\* status_bayar is a hidden BELUM LUNAS on the form of petugas, a list
\* otherwise; "+ Meter" clears the list, which has no required choice.
StatusIsian(s) ==
    IF IsianBebas THEN StatusBayar
    ELSE IF form[s].level = "petugas" THEN {"BELUM LUNAS"}
    ELSE IF T(s) = "meter_add" THEN StatusBayar
    ELSE {"LUNAS", "BELUM LUNAS"}

TerimaMeter(s, t, l) ==
    /\ Diterima(s, t)
    /\ \E awal \in AwalIsian(s), akhir \in AkhirIsian(s), status \in StatusIsian(s) :
          MulaiDengan(s, [RekBaru(s) EXCEPT !.awal = awal, !.akhir = akhir,
                                            !.status = status], l)

TerimaMeterAdd(s)   == TerimaMeter(s, "meter_add", "tipe")
TerimaMeterEdit(s)  == TerimaMeter(s, "meter_edit", "cek_umur")
TerimaMeterHapus(s) ==
    /\ Diterima(s, "meter_hapus")
    /\ MulaiDengan(s, RekBaru(s), "cek_umur")

-----------------------------------------------------------------------------
(* Statements *)

Baca(s, r, l) ==
    /\ rek' = [rek EXCEPT ![s] = r]
    /\ Pindah(s, l)
    /\ TetapSesi
    /\ UNCHANGED <<basis, jejak>>

\* The customer the bill is for: from the form, or from the row.
Pelanggan(s) ==
    IF T(s) = "meter_add" THEN form[s].username ELSE rek[s].pemilik

\* Mutant: the lock holds for edits only.
CekUmur_HapusLonggar(s) ==
    /\ pc[s] = "cek_umur"
    /\ IF /\ rek[s].level = "petugas"
          /\ T(s) = "meter_edit"
          /\ form[s].no \in DOMAIN pemakaian
          /\ Umur(form[s].no) > BatasUmur
       THEN Selesai(s)
       ELSE Lanjut(s, IF T(s) = "meter_edit" THEN "no_user" ELSE "hapus_meter")
    /\ TetapSesi
    /\ UNCHANGED <<basis, jejak>>

\* SELECT tgl FROM pemakaian WHERE no=?: the 30-day lock of petugas.
CekUmur(s) ==
    /\ pc[s] = "cek_umur"
    /\ IF /\ rek[s].level = "petugas"
          /\ form[s].no \in DOMAIN pemakaian
          /\ Umur(form[s].no) > BatasUmur
       THEN Selesai(s)
       ELSE Lanjut(s, IF T(s) = "meter_edit" THEN "no_user" ELSE "hapus_meter")
    /\ TetapSesi
    /\ UNCHANGED <<basis, jejak>>

\* no_to_user: the result is used without a check for NULL.
BacaNoKeUser(s) ==
    /\ pc[s] = "no_user"
    /\ Baca(s, [rek[s] EXCEPT !.pemilik = NoKeUser(form[s].no)], "tipe")

\* user_to_idtarif, first SELECT: no account, no tariff.
BacaTipe(s) ==
    /\ pc[s] = "tipe"
    /\ LET tp == TipeUser(Pelanggan(s)) IN
       Baca(s, [rek[s] EXCEPT !.tipe = tp],
            IF tp = Tiada THEN "harga" ELSE "kd")

\* tipe_to_kdtarif.
BacaKd(s) ==
    /\ pc[s] = "kd"
    /\ \E k \in TipeKeKdTarif(rek[s].tipe) :
          Baca(s, [rek[s] EXCEPT !.kd = k], "harga")

\* date('m') and date('Y'), which only meter_add reads.
BulanIni(s) == IF T(s) = "meter_add" THEN BulanDari[TglPHP[jam]] ELSE 0

\* id_tarif_to_tarif.
BacaHarga(s) ==
    /\ pc[s] = "harga"
    /\ Baca(s, [rek[s] EXCEPT !.harga = IdTarifKeTarif(rek[s].kd),
                              !.bulan = BulanIni(s)],
            IF T(s) = "meter_add" THEN "cek_bulan" ELSE "ubah_meter")

Pakai(s) == rek[s].akhir - rek[s].awal

\* Mutant: the SELECT looks for a row of today, not of this month.
TercatatBulan_HariIni(u, b) ==
    \E n \in BarisUser(u) : pemakaian[n].tgl = TglPHP[jam]

TercatatBulan(u, b) ==
    \E n \in BarisUser(u) : BulanDari[pemakaian[n].tgl] = b

\* Mutant: only the sign of the usage is tested.
CekBulan_TandaSaja(s) ==
    /\ pc[s] = "cek_bulan"
    /\ IF Pakai(s) < 0 THEN Selesai(s) ELSE Lanjut(s, "sisip_meter")
    /\ TetapSesi
    /\ UNCHANGED <<basis, jejak>>

\* SELECT no ... MONTH(tgl)=? AND YEAR(tgl)=?, then the sign of the usage.
CekBulan(s) ==
    /\ pc[s] = "cek_bulan"
    /\ IF \/ TercatatBulan(form[s].username, rek[s].bulan)
          \/ Pakai(s) < 0
       THEN Selesai(s)
       ELSE Lanjut(s, "sisip_meter")
    /\ TetapSesi
    /\ UNCHANGED <<basis, jejak>>

\* Mutant: a nil usage does not settle the bill.
StatusAkhir_Isian(s) == rek[s].status

StatusAkhir(s) == IF Pakai(s) = 0 THEN "LUNAS" ELSE rek[s].status

BarisBaru(s) ==
    [username |-> form[s].username, awal |-> rek[s].awal,
     akhir |-> rek[s].akhir, pakai |-> Pakai(s),
     tgl |-> TglDB[jam], waktu |-> jam, kd |-> rek[s].kd,
     tagihan |-> rek[s].harga * Pakai(s), status |-> StatusAkhir(s),
     bukti |-> Tiada, oleh |-> s]

\* Mutant: a number that a deletion has freed is given again.
SisipMeter_NomorBebas(s) ==
    /\ pc[s] = "sisip_meter"
    /\ LET n == CHOOSE k \in 1..(no_akhir + 1) : k \notin DOMAIN pemakaian IN
       /\ no_akhir' = IF n > no_akhir THEN n ELSE no_akhir
       /\ pemakaian' = Sisip(pemakaian, n, BarisBaru(s))
    /\ Tulis(s, "pemakaian")
    /\ Lanjut(s, "log")
    /\ TetapSesi
    /\ UNCHANGED <<login, tabelTarif, berkas, audit_log>>

\* INSERT INTO pemakaian ... CURRENT_DATE().
SisipMeter(s) ==
    /\ pc[s] = "sisip_meter"
    /\ no_akhir' = no_akhir + 1
    /\ pemakaian' = Sisip(pemakaian, no_akhir + 1, BarisBaru(s))
    /\ Tulis(s, "pemakaian")
    /\ Lanjut(s, "log")
    /\ TetapSesi
    /\ UNCHANGED <<login, tabelTarif, berkas, audit_log>>

\* Mutant: the UPDATE writes every column of the form, and so no proof.
BarisUbah_TanpaBukti(s, r) ==
    [r EXCEPT !.awal = rek[s].awal, !.akhir = rek[s].akhir, !.bukti = Tiada,
              !.pakai = Pakai(s), !.tagihan = rek[s].harga * Pakai(s),
              !.status = StatusAkhir(s)]

\* The row as UPDATE pemakaian leaves it: kd_tarif and tgl are not set.
BarisUbah(s, r) ==
    [r EXCEPT !.awal = rek[s].awal, !.akhir = rek[s].akhir,
              !.pakai = Pakai(s), !.tagihan = rek[s].harga * Pakai(s),
              !.status = StatusAkhir(s)]

\* Mutant: meter_edit without the test for a negative usage.
UbahMeter_TanpaCek(s) ==
    /\ pc[s] = "ubah_meter"
    /\ LET n == form[s].no
           berubah == n \in DOMAIN pemakaian
       IN  /\ pemakaian' = IF berubah
                           THEN [pemakaian EXCEPT ![n] = BarisUbah(s, @)]
                           ELSE pemakaian
           /\ TulisBila(s, "pemakaian", berubah)
           /\ Catat(s, berubah)
    /\ TetapSesi
    /\ UNCHANGED <<login, tabelTarif, no_akhir, berkas, audit_log>>

\* Mutant: an UPDATE that changes nothing is taken for a conflict and tried again.
UbahMeter_Ulang(s) ==
    /\ pc[s] = "ubah_meter"
    /\ LET n == form[s].no
           berubah == n \in DOMAIN pemakaian /\ BarisUbah(s, pemakaian[n]) # pemakaian[n]
       IN  /\ pemakaian' = IF berubah
                           THEN [pemakaian EXCEPT ![n] = BarisUbah(s, @)]
                           ELSE pemakaian
           /\ TulisBila(s, "pemakaian", berubah)
           /\ Lanjut(s, IF berubah THEN "log" ELSE "no_user")
    /\ TetapSesi
    /\ UNCHANGED <<login, tabelTarif, no_akhir, berkas, audit_log>>

UbahMeter(s) ==
    /\ pc[s] = "ubah_meter"
    /\ LET n == form[s].no
           berubah == /\ Pakai(s) >= 0
                      /\ n \in DOMAIN pemakaian
                      /\ BarisUbah(s, pemakaian[n]) # pemakaian[n]
       IN  /\ pemakaian' = IF berubah
                           THEN [pemakaian EXCEPT ![n] = BarisUbah(s, @)]
                           ELSE pemakaian
           /\ TulisBila(s, "pemakaian", berubah)
           /\ Catat(s, berubah)
    /\ TetapSesi
    /\ UNCHANGED <<login, tabelTarif, no_akhir, berkas, audit_log>>

HapusMeter(s) ==
    /\ pc[s] = "hapus_meter"
    /\ LET n == form[s].no IN
       /\ pemakaian' = Buang(pemakaian, {n})
       /\ TulisBila(s, "pemakaian", n \in DOMAIN pemakaian)
       /\ Catat(s, n \in DOMAIN pemakaian)
    /\ TetapSesi
    /\ UNCHANGED <<login, tabelTarif, no_akhir, berkas, audit_log>>

HalamanMeter(s) == BukaMeterAdd(s) \/ BukaMeterEdit(s) \/ BukaMeterHapus(s)
AjukanMeter(s)  == TerimaMeterAdd(s) \/ TerimaMeterEdit(s) \/ TerimaMeterHapus(s)
JalanMeter(s) ==
    \/ CekUmur(s) \/ BacaNoKeUser(s) \/ BacaTipe(s) \/ BacaKd(s) \/ BacaHarga(s)
    \/ CekBulan(s) \/ SisipMeter(s) \/ UbahMeter(s) \/ HapusMeter(s)
=============================================================================
