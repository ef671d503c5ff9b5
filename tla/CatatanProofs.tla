------------------------------ MODULE CatatanProofs ------------------------------
(* What holds of the rows, the accounts and the audit trail at any time, for    *)
(* any number of sessions: one inductive invariant for the tables (Catatan) and *)
(* one for the history (Penelusuran), over the fates of a step (BukuProofs).    *)
EXTENDS BukuProofs

(* What a step does to the ledger *)

\* A write of the rows leaves the tariffs and the files alone.
TanpaLain == UNCHANGED <<tabelTarif, berkas>>

\* Rows may go, the one that meter_hapus is for or those of the customer that
\* user_hapus is for, and the others stay as they are.
BarisTinggal(s) ==
    /\ no_akhir' = no_akhir
    /\ \/ DOMAIN pemakaian' = DOMAIN pemakaian
       \/ /\ pc[s] = "hapus_meter" /\ TanpaLain
          /\ DOMAIN pemakaian' = DOMAIN pemakaian \ {form[s].no}
       \/ /\ pc[s] = "hapus_anak" /\ TanpaLain
          /\ DOMAIN pemakaian' = DOMAIN pemakaian \ BarisUser(form[s].username)
    /\ \A n \in DOMAIN pemakaian' : pemakaian'[n] = pemakaian[n]

\* The row n gets the value r.
BarisJadi(n, r) ==
    /\ DOMAIN pemakaian' = DOMAIN pemakaian \cup {n}
    /\ pemakaian'[n] = r
    /\ \A m \in DOMAIN pemakaian \ {n} : pemakaian'[m] = pemakaian[m]

BarisDitambah(s) ==
    /\ pc[s] = "sisip_meter" /\ Pakai(s) >= 0 /\ TanpaLain
    /\ no_akhir' = no_akhir + 1
    /\ no_akhir + 1 \notin DOMAIN pemakaian
    /\ BarisJadi(no_akhir + 1, BarisBaru(s))

BarisDiubah(s) ==
    /\ pc[s] = "ubah_meter" /\ Pakai(s) >= 0 /\ TanpaLain
    /\ no_akhir' = no_akhir
    /\ form[s].no \in DOMAIN pemakaian
    /\ BarisJadi(form[s].no, BarisUbah(s, pemakaian[form[s].no]))

BarisDibukti(s) ==
    /\ pc[s] = "ubah_bukti" /\ TanpaLain
    /\ no_akhir' = no_akhir
    /\ form[s].no \in BarisUser(Aktor(s))
    /\ BarisJadi(form[s].no, [pemakaian[form[s].no] EXCEPT !.bukti = rek[s].bukti])

\* A step takes rows away, adds one, rewrites one or notes its proof of payment.
LEMMA BarisLangkah ==
    ASSUME Kerja, NEW s \in Sesi, Langkahi(s)
    PROVE  BarisTinggal(s) \/ BarisDitambah(s) \/ BarisDiubah(s) \/ BarisDibukti(s)
<1>0. /\ pemakaian \in [DOMAIN pemakaian -> Baris] /\ no_akhir \in Nat
      /\ DOMAIN pemakaian \subseteq 1..no_akhir
  BY DEF Kerja, TypeOK, TipeBasis
<1>1. CASE UNCHANGED <<pemakaian, no_akhir>> BY <1>1 DEF BarisTinggal
<1>2. CASE SisipMeter(s)
  <2>1. Pakai(s) >= 0 /\ pc[s] = "sisip_meter"
    BY <1>2 DEF SisipMeter, Kerja, Kendali, RekSah, Berjalan, Langkah
  <2> DEFINE b == BarisBaru(s)
  <2>2. no_akhir' = no_akhir + 1 /\ pemakaian' = Sisip(pemakaian, no_akhir + 1, b)
    BY <1>2 DEF SisipMeter
  <2>3. no_akhir + 1 \notin DOMAIN pemakaian BY <1>0
  <2> HIDE DEF b
  <2>4. BarisJadi(no_akhir + 1, b) BY <2>2, <2>3 DEF Sisip, BarisJadi
  <2> QED BY <1>2, <2>1, <2>2, <2>3, <2>4 DEF BarisDitambah, TanpaLain, SisipMeter, b
<1>3. CASE UbahMeter(s)
  <2>1. CASE pemakaian' = pemakaian
    BY <1>1, <1>3, <2>1 DEF UbahMeter
  <2>2. CASE /\ form[s].no \in DOMAIN pemakaian /\ Pakai(s) >= 0
             /\ pemakaian' = [pemakaian EXCEPT
                                ![form[s].no] = BarisUbah(s, pemakaian[form[s].no])]
    <3> DEFINE b == BarisUbah(s, pemakaian[form[s].no])
    <3>1. pemakaian' = [pemakaian EXCEPT ![form[s].no] = b] BY <2>2
    <3> HIDE DEF b
    <3>2. BarisJadi(form[s].no, b) BY <1>0, <2>2, <3>1 DEF BarisJadi
    <3>3. TanpaLain BY <1>3 DEF UbahMeter, TanpaLain
    <3> QED BY <1>3, <2>2, <3>2, <3>3, UbahMeterRinci DEF BarisDiubah, b
  <2> QED BY <1>3, <2>1, <2>2, UbahMeterRinci
<1>4. CASE HapusMeter(s) BY <1>4 DEF HapusMeter, Buang, BarisTinggal, TanpaLain
<1>5. CASE HapusAnak(s) BY <1>5 DEF HapusAnak, Buang, BarisTinggal, TanpaLain
<1>6. CASE UbahBukti(s)
  <2>1. CASE form[s].no \in BarisUser(Aktor(s))
    <3>1. /\ pemakaian' = [pemakaian EXCEPT ![form[s].no].bukti = rek[s].bukti]
          /\ form[s].no \in DOMAIN pemakaian /\ pc[s] = "ubah_bukti" /\ no_akhir' = no_akhir
          /\ TanpaLain
      BY <1>6, <2>1 DEF UbahBukti, BarisUser, TanpaLain
    <3> DEFINE b == [pemakaian[form[s].no] EXCEPT !.bukti = rek[s].bukti]
    <3>2. pemakaian' = [pemakaian EXCEPT ![form[s].no] = b] BY <3>1
    <3> HIDE DEF b
    <3>3. BarisJadi(form[s].no, b) BY <1>0, <3>1, <3>2 DEF BarisJadi
    <3> QED BY <2>1, <3>1, <3>3 DEF BarisDibukti, b
  <2>2. CASE form[s].no \notin BarisUser(Aktor(s))
    BY <1>1, <1>6, <2>2 DEF UbahBukti
  <2> QED BY <2>1, <2>2
<1>7. ~(\/ SisipMeter(s) \/ UbahMeter(s) \/ HapusMeter(s) \/ HapusAnak(s) \/ UbahBukti(s))
      => UNCHANGED <<pemakaian, no_akhir>>
  <2>1. UNCHANGED basis => UNCHANGED <<pemakaian, no_akhir>> BY DEF basis
  <2>2. CekUmur(s) \/ BacaNoKeUser(s) \/ BacaTipe(s) \/ BacaKd(s) \/ BacaHarga(s)
        \/ CekBulan(s) => UNCHANGED basis
    BY DEF CekUmur, BacaNoKeUser, BacaTipe, BacaKd, BacaHarga, CekBulan, Baca
  <2>3. CekUser(s) \/ SisipUser(s) \/ CekDaftar(s) \/ SisipDaftar(s) \/ KunciGanda(s)
        \/ UbahUser(s) \/ UbahProfil(s) \/ HapusUser(s) => UNCHANGED <<pemakaian, no_akhir>>
    BY <2>1 DEF CekUser, SisipUser, CekDaftar, SisipDaftar, KunciGanda, UbahUser, UbahProfil,
       HapusUser, CekNama, SisipNama, UbahLogin
  <2>4. JalanTarif(s) => UNCHANGED <<pemakaian, no_akhir>>
    BY <2>1 DEF JalanTarif, CekTarif, SisipTarif, IdGanda, UbahTarif, HapusTarif
  <2>5. TolakBerkas(s) \/ PindahBerkas(s) \/ CatatLog(s) => UNCHANGED <<pemakaian, no_akhir>>
    BY <2>1 DEF TolakBerkas, PindahBerkas, CatatLog
  <2> QED BY <2>1, <2>2, <2>3, <2>4, <2>5, TanpaTulis
          DEF Langkahi, Jalan, JalanMeter, JalanUser, JalanBukti
<1> QED BY <1>1, <1>2, <1>3, <1>4, <1>5, <1>6, <1>7

\* The columns a later write leaves alone, and what it sets.
LEMMA BarisUbahIsi ==
    ASSUME NEW s, NEW r \in Baris
    PROVE  LET q == BarisUbah(s, r) IN
           /\ q.username = r.username /\ q.tgl = r.tgl /\ q.kd = r.kd /\ q.bukti = r.bukti
           /\ q.awal = rek[s].awal /\ q.akhir = rek[s].akhir /\ q.pakai = Pakai(s)
           /\ q.tagihan = rek[s].harga * Pakai(s) /\ q.status = StatusAkhir(s)
BY DEF BarisUbah, Baris

\* The UPDATE of upload_bukti writes bukti_bayar only.
LEMMA BuktiIsi ==
    ASSUME NEW r \in Baris, NEW b
    PROVE  LET q == [r EXCEPT !.bukti = b] IN
           /\ q.username = r.username /\ q.tgl = r.tgl /\ q.kd = r.kd
           /\ q.awal = r.awal /\ q.akhir = r.akhir /\ q.pakai = r.pakai
           /\ q.tagihan = r.tagihan /\ q.status = r.status /\ q.bukti = b
BY DEF Baris

\* A row keeps its customer, date and tariff code as long as it is there.
LEMMA BarisTetapan ==
    ASSUME Kerja, NEW s \in Sesi, Langkahi(s),
           NEW n \in DOMAIN pemakaian \cap DOMAIN pemakaian'
    PROVE  /\ pemakaian'[n].username = pemakaian[n].username
           /\ pemakaian'[n].tgl = pemakaian[n].tgl
           /\ pemakaian'[n].kd = pemakaian[n].kd
<1>1. pemakaian[n] \in Baris BY DEF Kerja, TypeOK, TipeBasis
<1>2. CASE BarisTinggal(s) BY <1>2 DEF BarisTinggal
<1>3. CASE BarisDitambah(s) BY <1>3 DEF BarisDitambah, BarisJadi
<1>4. CASE BarisDiubah(s) BY <1>1, <1>4, BarisUbahIsi DEF BarisDiubah, BarisJadi
<1>5. CASE BarisDibukti(s)
  <2>1. CASE n = form[s].no
    <3>. PICK b : b = rek[s].bukti OBVIOUS
    <3>1. pemakaian'[n] = [pemakaian[n] EXCEPT !.bukti = b]
      BY <1>5, <2>1 DEF BarisDibukti, BarisJadi
    <3> QED BY <1>1, <3>1, BuktiIsi
  <2>2. CASE n # form[s].no BY <1>5, <2>2 DEF BarisDibukti, BarisJadi
  <2> QED BY <2>1, <2>2
<1> QED BY <1>2, <1>3, <1>4, <1>5, BarisLangkah

\* Numbers only grow: a row of a later state with an old number was there before.
LEMMA NomorNaik ==
    ASSUME Kerja, NEW s \in Sesi, Langkahi(s)
    PROVE  /\ no_akhir' \in Nat /\ no_akhir' >= no_akhir
           /\ \A n \in DOMAIN pemakaian' : n <= no_akhir => n \in DOMAIN pemakaian
<1>1. no_akhir \in Nat BY DEF Kerja, TypeOK, TipeBasis
<1>2. CASE BarisTinggal(s) BY <1>1, <1>2 DEF BarisTinggal
<1>3. CASE BarisDitambah(s) BY <1>1, <1>3 DEF BarisDitambah, BarisJadi
<1>4. CASE BarisDiubah(s) \/ BarisDibukti(s)
  <2>1. no_akhir' = no_akhir /\ DOMAIN pemakaian' = DOMAIN pemakaian
    BY <1>4 DEF BarisDiubah, BarisDibukti, BarisJadi, BarisUser
  <2> QED BY <1>1, <2>1
<1> QED BY <1>2, <1>3, <1>4, BarisLangkah

-----------------------------------------------------------------------------
(* The invariant of the ledger *)

\* The role a script was admitted with has the right to its action, and a
\* registration brings the row of a warga.
HakSah ==
    \A s \in Sesi : Berjalan(s) =>
        /\ T(s) # "register_warga" => rek[s].level \in Berhak(T(s))
        /\ T(s) = "register_warga" => rek[s].isi.level = "warga"

\* No form is for a number that AUTO_INCREMENT has still to give.
NomorLama == \A s \in Sesi : form[s].no <= no_akhir

\* A form of upload_bukti is for a row of its own account, as long as there is one.
FormBukti ==
    \A s \in Sesi :
        T(s) = "upload_bukti" /\ form[s].no \in DOMAIN pemakaian
        => form[s].no \in BarisUser(Aktor(s))

\* The price a script holds is nil or was in force.
HargaDiketahui ==
    /\ HargaAktif(tarif) \subseteq hargaPernah
    /\ \A s \in Sesi : rek[s].harga = 0 \/ \E h \in hargaPernah : h[2] = rek[s].harga

\* A script about to write the name of a proof has moved that file.
BuktiBerkas ==
    \A s \in Sesi : pc[s] = "ubah_bukti" =>
        rek[s].bukti \in berkas /\ rek[s].bukti[1] = form[s].no

\* A script of petugas past the check of the age is for no row that was locked
\* when it was admitted.
UmurDicek ==
    \A s \in Sesi :
        /\ rek[s].mulai <= jam
        /\ /\ Berjalan(s) /\ pc[s] \notin {"cek_umur", "log"}
           /\ T(s) \in {"meter_edit", "meter_hapus"} /\ rek[s].level = "petugas"
           /\ form[s].no \in DOMAIN pemakaian
           => TglPHP[rek[s].mulai] - pemakaian[form[s].no].tgl <= BatasUmur

-----------------------------------------------------------------------------
\* The role and the posted row are read at the gate and never again.
LEMMA HakTetap ==
    ASSUME Kerja, HakSah, NEW s \in Sesi, Langkahi(s) PROVE HakSah'
<1> SUFFICES ASSUME NEW q \in Sesi, Berjalan(q)'
             PROVE  /\ T(q)' # "register_warga" => rek'[q].level \in Berhak(T(q)')
                    /\ T(q)' = "register_warga" => rek'[q].isi.level = "warga"
  BY DEF HakSah, Berhak
<1>1. CASE SesiUtuh(q) BY <1>1 DEF SesiUtuh, HakSah, Berjalan, T
<1>2. CASE Dimulai(q) BY <1>2 DEF Dimulai, T
<1>3. CASE Diteruskan(q) BY <1>3 DEF Diteruskan, HakSah, T
<1>4. CASE Dibuka(q) \/ Berakhir(q) BY <1>4 DEF Dibuka, Berakhir, Berjalan, Langkah
<1> QED BY <1>1, <1>2, <1>3, <1>4, NasibLangkah DEF NasibSah, Langkahi

\* AUTO_INCREMENT never goes back.
LEMMA NomorTetap ==
    ASSUME Kerja, Kerja', NomorLama, NEW s \in Sesi, Langkahi(s) PROVE NomorLama'
<1> SUFFICES ASSUME NEW q \in Sesi PROVE form'[q].no <= no_akhir'
  BY DEF NomorLama
<1>1. /\ no_akhir \in Nat /\ no_akhir' \in Nat /\ no_akhir' >= no_akhir
      /\ form[q].no \in Nat /\ form'[q].no \in Nat
  BY NomorNaik DEF Kerja, TypeOK, TipeBasis, TipeSesi, Form
<1>2. CASE form'[q] = form[q] BY <1>1, <1>2 DEF NomorLama
<1>3. CASE Dibuka(q)
  BY <1>1, <1>3 DEF Dibuka, Kerja, TypeOK, TipeBasis
<1> QED BY <1>2, <1>3, NasibLangkah
        DEF NasibSah, Langkahi, SesiUtuh, Dimulai, Diteruskan, Berakhir

\* A number is not given twice, and a row keeps its customer.
LEMMA FormBuktiTetap ==
    ASSUME Kerja, NomorLama, FormBukti, NEW s \in Sesi, Langkahi(s) PROVE FormBukti'
<1> SUFFICES ASSUME NEW q \in Sesi, T(q)' = "upload_bukti", form'[q].no \in DOMAIN pemakaian'
             PROVE  pemakaian'[form'[q].no].username = Aktor(q)
  BY DEF FormBukti, BarisUser, Aktor
<1>1. CASE form'[q] = form[q]
  <2> DEFINE n == form[q].no
  <2>1. n \in DOMAIN pemakaian \cap DOMAIN pemakaian'
    BY <1>1, NomorNaik DEF NomorLama
  <2>2. pemakaian[n].username = Aktor(q) BY <1>1, <2>1 DEF FormBukti, BarisUser, T
  <2>3. pemakaian'[n].username = pemakaian[n].username BY <2>1, BarisTetapan
  <2> QED BY <1>1, <2>2, <2>3
<1>2. CASE Dibuka(q) BY <1>2 DEF Dibuka, BarisUser, T
<1> QED BY <1>1, <1>2, NasibLangkah
        DEF NasibSah, Langkahi, SesiUtuh, Dimulai, Diteruskan, Berakhir

\* A price once in force is remembered, and so is every price in force now.
LEMMA HargaLangkah ==
    ASSUME HargaAktif(tarif) \subseteq hargaPernah, NEW s \in Sesi, Langkahi(s)
    PROVE  hargaPernah \subseteq hargaPernah' /\ HargaAktif(tarif') \subseteq hargaPernah'
<1>1. CASE UNCHANGED tabelTarif BY <1>1 DEF tabelTarif
<1>2. CASE \E f : TabelTarif(f)
  BY <1>2 DEF TabelTarif
<1>3. UNCHANGED basis => UNCHANGED tabelTarif BY DEF basis
<1>4. JalanTarif(s) => UNCHANGED tabelTarif \/ \E f : TabelTarif(f)
  BY <1>3 DEF JalanTarif, CekTarif, SisipTarif, IdGanda, UbahTarif, HapusTarif
<1>5. JalanMeter(s) => UNCHANGED tabelTarif
  BY <1>3 DEF JalanMeter, CekUmur, BacaNoKeUser, BacaTipe, BacaKd, BacaHarga, CekBulan, Baca,
     SisipMeter, UbahMeter, HapusMeter
<1>6. JalanUser(s) => UNCHANGED tabelTarif
  BY <1>3 DEF JalanUser, CekUser, SisipUser, CekDaftar, SisipDaftar, KunciGanda, UbahUser,
     UbahProfil, HapusAnak, HapusUser, CekNama, SisipNama, UbahLogin
<1>7. JalanBukti(s) \/ CatatLog(s) \/ Gagal(s) => UNCHANGED tabelTarif
  BY <1>3 DEF JalanBukti, TolakBerkas, PindahBerkas, UbahBukti, CatatLog, Gagal
<1> QED BY <1>1, <1>2, <1>3, <1>4, <1>5, <1>6, <1>7, TanpaTulis DEF Langkahi, Jalan

\* hargaPernah notes every price a tariff has while it is active.
LEMMA HargaTetap ==
    ASSUME Kerja, HargaDiketahui, NEW s \in Sesi, Langkahi(s) PROVE HargaDiketahui'
<1>1. hargaPernah \subseteq hargaPernah' /\ HargaAktif(tarif') \subseteq hargaPernah'
  BY HargaLangkah DEF HargaDiketahui
<1>2. ASSUME NEW q \in Sesi
      PROVE  rek'[q].harga = 0 \/ \E h \in hargaPernah' : h[2] = rek'[q].harga
  <2>1. rek[q].harga = 0 \/ \E h \in hargaPernah : h[2] = rek[q].harga
    BY DEF HargaDiketahui
  <2>2. CASE rek'[q].harga = rek[q].harga BY <1>1, <2>1, <2>2
  <2>3. CASE rek'[q].harga = 0 BY <2>3
  <2>4. CASE rek'[q].harga = IdTarifKeTarif(rek[q].kd)
    <3> DEFINE k == rek[q].kd
    <3>1. CASE k \in DOMAIN tarif /\ tarif[k].aktif
      <4> DEFINE h == <<k, tarif[k].harga>>
      <4>1. h \in hargaPernah /\ h[2] = tarif[k].harga
        BY <3>1 DEF HargaDiketahui, HargaAktif
      <4>2. rek'[q].harga = tarif[k].harga BY <2>4, <3>1 DEF IdTarifKeTarif
      <4> QED BY <1>1, <4>1, <4>2
    <3>2. CASE ~(k \in DOMAIN tarif /\ tarif[k].aktif)
      BY <2>4, <3>2 DEF IdTarifKeTarif
    <3> QED BY <3>1, <3>2
  <2>5. RekKosong.harga = 0 BY DEF RekKosong
  <2> QED BY <2>2, <2>3, <2>4, <2>5, NasibLangkah
          DEF NasibSah, Langkahi, SesiUtuh, Dibuka, Dimulai, Diteruskan, Berakhir
<1>3. HargaAktif(tarif)' = HargaAktif(tarif') BY DEF HargaAktif
<1> QED BY <1>1, <1>2, <1>3 DEF HargaDiketahui

\* No file is removed.
LEMMA BerkasNaik ==
    ASSUME NEW s \in Sesi, Langkahi(s) PROVE berkas \subseteq berkas'
<1>1. UNCHANGED basis => UNCHANGED berkas BY DEF basis
<1>2. JalanMeter(s) => UNCHANGED berkas
  BY <1>1 DEF JalanMeter, CekUmur, BacaNoKeUser, BacaTipe, BacaKd, BacaHarga, CekBulan, Baca,
     SisipMeter, UbahMeter, HapusMeter
<1>3. JalanUser(s) => UNCHANGED berkas
  BY <1>1 DEF JalanUser, CekUser, SisipUser, CekDaftar, SisipDaftar, KunciGanda, UbahUser,
     UbahProfil, HapusAnak, HapusUser, CekNama, SisipNama, UbahLogin
<1>4. JalanTarif(s) => UNCHANGED berkas
  BY <1>1 DEF JalanTarif, CekTarif, SisipTarif, IdGanda, UbahTarif, HapusTarif
<1>5. JalanBukti(s) \/ CatatLog(s) \/ Gagal(s) => berkas \subseteq berkas'
  BY <1>1 DEF JalanBukti, TolakBerkas, PindahBerkas, UbahBukti, CatatLog, Gagal
<1> QED BY <1>1, <1>2, <1>3, <1>4, <1>5, TanpaTulis DEF Langkahi, Jalan

\* Files are moved into place before the UPDATE and none is removed.
LEMMA BuktiTetap ==
    ASSUME Kerja, BuktiBerkas, NEW s \in Sesi, Langkahi(s) PROVE BuktiBerkas'
<1> SUFFICES ASSUME NEW q \in Sesi, pc'[q] = "ubah_bukti"
             PROVE  rek'[q].bukti \in berkas' /\ rek'[q].bukti[1] = form'[q].no
  BY DEF BuktiBerkas
<1>1. CASE SesiUtuh(q) BY <1>1, BerkasNaik DEF SesiUtuh, BuktiBerkas
<1>2. CASE Diteruskan(q)
  <2>1. PindahBerkas(q) /\ form'[q] = form[q] BY <1>2 DEF Diteruskan
  <2> DEFINE g == rek[q]
             b == <<form[q].no, jam>>
  <2>2. g \in Rek BY DEF Kerja, TypeOK, TipeSesi
  <2>3. berkas' = berkas \cup {b} /\ rek' = [rek EXCEPT ![q] = [g EXCEPT !.bukti = b]]
    BY <2>1 DEF PindahBerkas
  <2>4. b[1] = form[q].no OBVIOUS
  <2> HIDE DEF b, g
  <2> DEFINE r == [g EXCEPT !.bukti = b]
  <2>5. r.bukti = b BY <2>2 DEF Rek
  <2>6. rek'[q] = r BY <2>3 DEF Kerja, TypeOK, TipeSesi
  <2> HIDE DEF r
  <2>7. rek'[q].bukti = b BY <2>5, <2>6
  <2> QED BY <2>1, <2>3, <2>4, <2>7
<1>3. CASE Dibuka(q) \/ Dimulai(q) \/ Berakhir(q)
  BY <1>3 DEF Dibuka, Dimulai, Berakhir, Langkah, LangkahAwal
<1> QED BY <1>1, <1>2, <1>3, NasibLangkah DEF NasibSah, Langkahi

\* The instant a script was admitted is past.
LEMMA UmurTetap ==
    ASSUME Kerja, Kerja', NomorLama, UmurDicek, NEW s \in Sesi, Langkahi(s), jam' = jam
    PROVE  UmurDicek'
<1>1. ASSUME NEW q \in Sesi PROVE rek'[q].mulai <= jam'
  <2>1. rek[q].mulai <= jam BY DEF UmurDicek
  <2>2. jam \in Nat BY DEF Kerja, TypeOK, TipeSesi, Waktu
  <2>3. RekKosong.mulai = 0 BY DEF RekKosong
  <2> QED BY <2>1, <2>2, <2>3, NasibLangkah
          DEF NasibSah, Langkahi, SesiUtuh, Dibuka, Dimulai, Diteruskan, Berakhir
<1>2. ASSUME NEW q \in Sesi, Berjalan(q)', pc'[q] \notin {"cek_umur", "log"},
             T(q)' \in {"meter_edit", "meter_hapus"}, rek'[q].level = "petugas",
             form'[q].no \in DOMAIN pemakaian'
      PROVE  TglPHP[rek'[q].mulai] - pemakaian'[form'[q].no].tgl <= BatasUmur
  <2>1. ~(Dibuka(q) \/ Dimulai(q) \/ Berakhir(q))
    BY <1>2 DEF Dibuka, Dimulai, Berakhir, Berjalan, Langkah, T
  <2>2. SesiUtuh(q) \/ Diteruskan(q) BY <2>1, NasibLangkah DEF NasibSah, Langkahi
  <2> DEFINE n == form[q].no
  <2>3. /\ form'[q] = form[q] /\ Berjalan(q)
        /\ rek'[q].mulai = rek[q].mulai /\ rek'[q].level = rek[q].level
        /\ pc[q] # "log"
    BY <1>2, <2>2 DEF SesiUtuh, Diteruskan, Berjalan
  <2>4. n \in DOMAIN pemakaian /\ pemakaian'[n].tgl = pemakaian[n].tgl
    BY <1>2, <2>3, NomorNaik, BarisTetapan DEF NomorLama
  <2>5. CASE pc[q] # "cek_umur"
    BY <1>2, <2>3, <2>4, <2>5 DEF UmurDicek, T
  <2>6. CASE pc[q] = "cek_umur"
    <3>1. CekUmur(q) BY <1>2, <2>2, <2>6 DEF SesiUtuh, Diteruskan
    <3>2. ~Selesai(q)
      BY <1>2 DEF Selesai, Pindah, Kerja, TypeOK, TipeSesi, Berjalan, Langkah
    <3>3. Umur(n) <= BatasUmur
      <4>1. TglPHP[jam] \in Int /\ pemakaian[n].tgl \in Int
        BY <2>4, BulanNat DEF Kerja, Hari
      <4>. Umur(n) \in Int BY <4>1 DEF Umur
      <4> QED BY <1>2, <2>3, <2>4, <3>1, <3>2, <4>1, AsumsiWaktu DEF CekUmur
    <3>4. /\ TglPHP[jam] \in Nat /\ TglPHP[rek[q].mulai] \in Nat /\ pemakaian[n].tgl \in Nat
          /\ BatasUmur \in Nat
      <4>1. rek[q].mulai \in Waktu BY DEF Kerja, TypeOK, TipeSesi, Rek
      <4>2. TglPHP[rek[q].mulai] \in Hari BY <4>1, AsumsiWaktu
      <4> QED BY <2>4, <4>2, BulanNat, AsumsiWaktu DEF Kerja, Hari
    <3>5. TglPHP[jam] - pemakaian[n].tgl <= BatasUmur BY <3>3, <3>4 DEF Umur
    <3>6. TglPHP[rek[q].mulai] <= TglPHP[jam]
      BY AsumsiWaktu DEF UmurDicek, Monoton, Kerja, TypeOK, TipeSesi, Rek
    <3> QED BY <2>3, <2>4, <3>4, <3>5, <3>6
  <2> QED BY <2>5, <2>6
<1> QED BY <1>1, <1>2 DEF UmurDicek

\* A usage of nil costs nil, and nil per unit costs nil.
LEMMA NolKali == ASSUME NEW a \in Int, NEW b \in Int, a = 0 \/ b = 0 PROVE a * b = 0
OBVIOUS

\* INSERT and UPDATE compute usage, status and bill together.
LEMMA KonsistenTetap ==
    ASSUME Kerja, BarisKonsisten, NEW s \in Sesi, Langkahi(s) PROVE BarisKonsisten'
<1> SUFFICES ASSUME NEW n \in DOMAIN pemakaian'
             PROVE  LET r == pemakaian'[n] IN
                    /\ r.akhir = r.awal + r.pakai
                    /\ r.pakai = 0 => r.status = "LUNAS" /\ r.tagihan = 0
  BY DEF BarisKonsisten
<1>1. /\ rek[s].akhir \in Nat /\ rek[s].awal \in Nat /\ rek[s].harga \in Nat
      /\ Pakai(s) \in Int
  BY PakaiInt DEF Kerja, TypeOK, TipeSesi, Rek, Form
<1>2. /\ rek[s].akhir = rek[s].awal + Pakai(s)
      /\ Pakai(s) = 0 => StatusAkhir(s) = "LUNAS" /\ rek[s].harga * Pakai(s) = 0
  BY <1>1, NolKali DEF Pakai, StatusAkhir
<1>3. CASE n \in DOMAIN pemakaian /\ pemakaian'[n] = pemakaian[n]
  BY <1>3 DEF BarisKonsisten
<1>4. CASE pemakaian'[n] = BarisBaru(s) BY <1>2, <1>4 DEF BarisBaru
<1>5. CASE form[s].no \in DOMAIN pemakaian /\ pemakaian'[n] = BarisUbah(s, pemakaian[form[s].no])
  <2>1. pemakaian[form[s].no] \in Baris BY <1>5 DEF Kerja, TypeOK, TipeBasis
  <2> QED BY <1>2, <1>5, <2>1, BarisUbahIsi
<1>6. CASE BarisDibukti(s) /\ n = form[s].no
  <2>. PICK b : b = rek[s].bukti OBVIOUS
  <2>1. /\ n \in DOMAIN pemakaian /\ pemakaian[n] \in Baris
        /\ pemakaian'[n] = [pemakaian[n] EXCEPT !.bukti = b]
    BY <1>6 DEF BarisDibukti, BarisJadi, BarisUser, Kerja, TypeOK, TipeBasis
  <2> QED BY <2>1, BuktiIsi DEF BarisKonsisten
<1> QED BY <1>3, <1>4, <1>5, <1>6, BarisLangkah
        DEF BarisTinggal, BarisDitambah, BarisDiubah, BarisDibukti, BarisJadi, BarisUser

\* The price of a bill is the one its script has read.
LEMMA TagihanTetap ==
    ASSUME Kerja, HargaDiketahui, TagihanBerdasar, NEW s \in Sesi, Langkahi(s)
    PROVE  TagihanBerdasar'
<1> SUFFICES ASSUME NEW n \in DOMAIN pemakaian'
             PROVE  LET r == pemakaian'[n] IN
                    r.tagihan = 0 \/ \E h \in hargaPernah' : r.tagihan = h[2] * r.pakai
  BY DEF TagihanBerdasar
<1>1. hargaPernah \subseteq hargaPernah' BY HargaLangkah DEF HargaDiketahui
<1>2. ASSUME NEW r, r.tagihan = rek[s].harga * Pakai(s), r.pakai = Pakai(s)
      PROVE  r.tagihan = 0 \/ \E h \in hargaPernah : r.tagihan = h[2] * r.pakai
  <2>1. CASE rek[s].harga = 0 BY <1>2, <2>1, PakaiInt, NolKali
  <2>2. CASE \E h \in hargaPernah : h[2] = rek[s].harga BY <1>2, <2>2
  <2> QED BY <2>1, <2>2 DEF HargaDiketahui
<1>3. CASE n \in DOMAIN pemakaian /\ pemakaian'[n] = pemakaian[n]
  BY <1>1, <1>3 DEF TagihanBerdasar
<1>4. CASE pemakaian'[n] = BarisBaru(s) BY <1>1, <1>2, <1>4 DEF BarisBaru
<1>5. CASE form[s].no \in DOMAIN pemakaian /\ pemakaian'[n] = BarisUbah(s, pemakaian[form[s].no])
  <2>1. pemakaian[form[s].no] \in Baris BY <1>5 DEF Kerja, TypeOK, TipeBasis
  <2>2. pemakaian'[n].tagihan = rek[s].harga * Pakai(s) /\ pemakaian'[n].pakai = Pakai(s)
    BY <1>5, <2>1, BarisUbahIsi
  <2> QED BY <1>1, <1>2, <2>2
<1>6. CASE BarisDibukti(s) /\ n = form[s].no
  <2>. PICK b : b = rek[s].bukti OBVIOUS
  <2>1. /\ n \in DOMAIN pemakaian /\ pemakaian[n] \in Baris
        /\ pemakaian'[n] = [pemakaian[n] EXCEPT !.bukti = b]
    BY <1>6 DEF BarisDibukti, BarisJadi, BarisUser, Kerja, TypeOK, TipeBasis
  <2>2. pemakaian'[n].tagihan = pemakaian[n].tagihan /\ pemakaian'[n].pakai = pemakaian[n].pakai
    BY <2>1, BuktiIsi
  <2> QED BY <1>1, <2>1, <2>2 DEF TagihanBerdasar
<1> QED BY <1>3, <1>4, <1>5, <1>6, BarisLangkah
        DEF BarisTinggal, BarisDitambah, BarisDiubah, BarisDibukti, BarisJadi, BarisUser

\* The name written is that of the file just moved.
LEMMA SesuaiTetap ==
    ASSUME Kerja, BuktiBerkas, BuktiSesuai, NEW s \in Sesi, Langkahi(s) PROVE BuktiSesuai'
<1> SUFFICES ASSUME NEW n \in DOMAIN pemakaian', pemakaian'[n].bukti # Tiada
             PROVE  pemakaian'[n].bukti \in berkas' /\ pemakaian'[n].bukti[1] = n
  BY DEF BuktiSesuai
<1>1. berkas \subseteq berkas' BY BerkasNaik
<1>2. CASE n \in DOMAIN pemakaian /\ pemakaian'[n].bukti = pemakaian[n].bukti
  BY <1>1, <1>2 DEF BuktiSesuai
<1>3. CASE pemakaian'[n] = BarisBaru(s) BY <1>3 DEF BarisBaru
<1>4. CASE BarisDiubah(s) /\ n = form[s].no
  <2>1. n \in DOMAIN pemakaian /\ pemakaian[n] \in Baris
    BY <1>4 DEF BarisDiubah, Kerja, TypeOK, TipeBasis
  <2> QED BY <1>2, <1>4, <2>1, BarisUbahIsi DEF BarisDiubah, BarisJadi
<1>5. CASE BarisDibukti(s) /\ n = form[s].no
  <2>. PICK b : b = rek[s].bukti OBVIOUS
  <2>1. /\ n \in DOMAIN pemakaian /\ pemakaian[n] \in Baris /\ pc[s] = "ubah_bukti"
        /\ pemakaian'[n] = [pemakaian[n] EXCEPT !.bukti = b]
    BY <1>5 DEF BarisDibukti, BarisJadi, BarisUser, Kerja, TypeOK, TipeBasis
  <2>2. pemakaian'[n].bukti = rek[s].bukti BY <2>1, BuktiIsi
  <2> QED BY <1>1, <1>5, <2>1, <2>2 DEF BuktiBerkas
<1> QED BY <1>2, <1>3, <1>4, <1>5, BarisLangkah
        DEF BarisTinggal, BarisDitambah, BarisDiubah, BarisDibukti, BarisJadi, BarisUser

\* What is inductive: the types and the control, what a form and a script know
\* of the row they are for, and the properties of the rows.
Catatan ==
    /\ Kerja /\ HakSah /\ NomorLama /\ FormBukti /\ UmurDicek
    /\ HargaDiketahui /\ BuktiBerkas
    /\ BarisKonsisten /\ TagihanBerdasar /\ BuktiSesuai

\* At the start no script runs and the rows are those of AsumsiAwal.
LEMMA InitCatatan == Init => Catatan
<1> SUFFICES ASSUME Init PROVE Catatan
  OBVIOUS
<1> USE DEF Init, InitPermintaan, InitBasis
<1>1. Kerja BY InitTypeOK, InitKendali DEF Kerja
<1>2. /\ \A s \in Sesi : pc[s] = "siap" /\ form[s] = FormKosong /\ rek[s] = RekKosong
      /\ pemakaian = PemakaianAwal
  OBVIOUS
<1>3. HakSah /\ BuktiBerkas BY <1>2 DEF HakSah, Berjalan, Langkah, BuktiBerkas
<1>4. NomorLama /\ FormBukti
  <2>1. FormKosong.no = 0 /\ FormKosong.t = Tiada BY DEF FormKosong
  <2>2. Tiada # "upload_bukti" BY AsumsiTombol DEF Tombol
  <2> QED BY <1>2, <2>1, <2>2, AsumsiAwal DEF NomorLama, FormBukti, T
<1>5. UmurDicek
  <2>1. RekKosong.mulai = 0 BY DEF RekKosong
  <2>2. \A s \in Sesi : ~Berjalan(s) BY <1>2 DEF Berjalan, Langkah
  <2>3. jam = 0 OBVIOUS
  <2>4. \A s \in Sesi : rek[s].mulai = 0 BY <1>2, <2>1
  <2> HIDE DEF Init, InitPermintaan, InitBasis
  <2>5. ASSUME NEW s \in Sesi PROVE rek[s].mulai <= jam
    <3>1. rek[s].mulai = 0 /\ rek[s].mulai \in Nat BY <2>4
    <3> QED BY <2>3, <3>1
  <2> QED BY <2>2, <2>5 DEF UmurDicek
<1>6. HargaDiketahui
  <2>1. RekKosong.harga = 0 BY DEF RekKosong
  <2> QED BY <1>2, <2>1 DEF HargaDiketahui
<1>7. BarisKonsisten /\ BuktiSesuai
  BY <1>2, AsumsiAwal DEF BarisKonsisten, BuktiSesuai
<1>8. TagihanBerdasar
  <2> SUFFICES ASSUME NEW n \in DOMAIN pemakaian, pemakaian[n].tagihan # 0
               PROVE  \E h \in hargaPernah : pemakaian[n].tagihan = h[2] * pemakaian[n].pakai
    BY DEF TagihanBerdasar
  <2>1. PICK k \in DOMAIN TarifAwal :
          /\ TarifAwal[k].aktif
          /\ pemakaian[n].tagihan = TarifAwal[k].harga * pemakaian[n].pakai
    BY <1>2, AsumsiAwal
  <2> DEFINE h == <<k, TarifAwal[k].harga>>
  <2>2. h \in hargaPernah /\ h[2] = TarifAwal[k].harga BY <2>1 DEF HargaAktif
  <2> QED BY <2>1, <2>2
<1> QED BY <1>1, <1>3, <1>4, <1>5, <1>6, <1>7, <1>8 DEF Catatan

\* The clock keeps everything but itself.
LEMMA DetakCatatan ==
    ASSUME Catatan, Kerja', UNCHANGED <<basis, pc, form, rek>>, jam' >= jam PROVE Catatan'
<1>1. UNCHANGED <<login, tarif, hargaPernah, pemakaian, no_akhir, berkas>>
  BY DEF basis, tabelTarif
<1>2. HakSah' BY DEF Catatan, HakSah, Berjalan, T
<1>3. NomorLama' /\ FormBukti'
  BY <1>1 DEF Catatan, NomorLama, FormBukti, BarisUser, Aktor, T
<1>4. UmurDicek'
  <2>1. /\ jam \in Nat /\ jam' \in Nat /\ \A s \in Sesi : rek[s].mulai \in Nat
    BY DEF Catatan, Kerja, TypeOK, TipeSesi, Waktu, Rek
  <2> QED BY <1>1, <2>1 DEF Catatan, UmurDicek, Berjalan, T
<1>5. HargaDiketahui' /\ BuktiBerkas'
  BY <1>1 DEF Catatan, HargaDiketahui, HargaAktif, BuktiBerkas
<1>6. BarisKonsisten' /\ TagihanBerdasar' /\ BuktiSesuai'
  BY <1>1 DEF Catatan, BarisKonsisten, TagihanBerdasar, BuktiSesuai
<1> QED BY <1>2, <1>3, <1>4, <1>5, <1>6 DEF Catatan

\* Every step keeps the invariant of the tables.
LEMMA LangkahCatatan == Catatan /\ [Next]_vars => Catatan'
<1> SUFFICES ASSUME Catatan, [Next]_vars PROVE Catatan'
  OBVIOUS
<1>1. Kerja /\ Kerja' BY LangkahKerja DEF Catatan
<1>2. ASSUME NEW s \in Sesi, Langkahi(s) PROVE Catatan'
  BY <1>1, <1>2, HakTetap, NomorTetap, FormBuktiTetap, UmurTetap, HargaTetap, BuktiTetap, JamTetap,
     KonsistenTetap, TagihanTetap, SesuaiTetap DEF Catatan
<1> QED BY <1>1, <1>2, LangkahSalahSatu, DetakCatatan

-----------------------------------------------------------------------------
(* What holds of the rows *)

\* Whichever of meter_add, meter_edit and upload_bukti wrote a row last, its usage
\* is the difference of its readings, and a nil usage is paid and costs nothing
\* (login/index.php:467-470, 525-530).
THEOREM BarisSelaluKonsisten == Spec => []BarisKonsisten
<1>1. Catatan => BarisKonsisten BY DEF Catatan
<1> QED BY <1>1, InitCatatan, LangkahCatatan, PTL DEF Spec

\* However the tariffs change while a bill is computed (user_to_idtarif,
\* id_tarif_to_tarif), the bill is nil or the usage times a price that was in force.
THEOREM TagihanHargaBerlaku == Spec => []TagihanBerdasar
<1>1. Catatan => TagihanBerdasar BY DEF Catatan
<1> QED BY <1>1, InitCatatan, LangkahCatatan, PTL DEF Spec

\* A row names only a file that is there and was uploaded for that row
\* (login/index.php:583-590), whatever died or was deleted in between.
THEOREM BuktiBerkasSendiri == Spec => []BuktiSesuai
<1>1. Catatan => BuktiSesuai BY DEF Catatan
<1> QED BY <1>1, InitCatatan, LangkahCatatan, PTL DEF Spec

\* A script of petugas that changes or deletes a row has checked its age, or is
\* the upload of a proof.
LEMMA LangkahKunci ==
    ASSUME Catatan, NEW s \in Sesi, Langkahi(s), rek[s].level = "petugas", Berjalan(s),
           NEW n \in DOMAIN pemakaian, BarisBerubah(n)
    PROVE  TglPHP[rek[s].mulai] - pemakaian[n].tgl <= BatasUmur \/ HanyaBukti(s, n)
<1>1. Kerja /\ UmurDicek /\ T(s) \in Penangan(pc[s])
  BY DiPenangan DEF Catatan
<1>2. pemakaian[n] \in Baris BY <1>1 DEF Kerja, TypeOK, TipeBasis
<1>3. CASE BarisTinggal(s)
  <2>1. n \notin DOMAIN pemakaian' BY <1>3 DEF BarisTinggal, BarisBerubah
  <2>2. CASE pc[s] = "hapus_anak"
    <3>1. T(s) = "user_hapus" BY <1>1, <2>2 DEF Penangan
    <3>2. rek[s].level \in Berhak("user_hapus") BY <3>1 DEF Catatan, HakSah
    <3> QED BY <3>2 DEF Berhak
  <2>3. CASE pc[s] = "hapus_meter" /\ n = form[s].no
    <3>1. T(s) = "meter_hapus" BY <1>1, <2>3 DEF Penangan
    <3> QED BY <1>1, <2>3, <3>1 DEF UmurDicek
  <2> QED BY <1>3, <2>1, <2>2, <2>3 DEF BarisTinggal
<1>4. CASE BarisDitambah(s)
  BY <1>4 DEF BarisDitambah, BarisJadi, BarisBerubah
<1>5. CASE BarisDiubah(s)
  <2>1. n = form[s].no BY <1>5 DEF BarisDiubah, BarisJadi, BarisBerubah
  <2>2. T(s) = "meter_edit" BY <1>1, <1>5 DEF BarisDiubah, Penangan
  <2> QED BY <1>1, <1>5, <2>1, <2>2 DEF UmurDicek, BarisDiubah
<1>6. CASE BarisDibukti(s)
  <2>1. n = form[s].no BY <1>6 DEF BarisDibukti, BarisJadi, BarisBerubah, BarisUser
  <2>2. T(s) = "upload_bukti" BY <1>1, <1>6 DEF BarisDibukti, Penangan
  <2>. PICK b : b = rek[s].bukti OBVIOUS
  <2>3. pemakaian'[n] = [pemakaian[n] EXCEPT !.bukti = b] /\ n \in DOMAIN pemakaian'
        /\ n \in BarisUser(Aktor(s))
    BY <1>6, <2>1 DEF BarisDibukti, BarisJadi
  <2>4. pemakaian'[n].bukti = b BY <1>2, <2>3, BuktiIsi
  <2> QED BY <2>2, <2>3, <2>4 DEF HanyaBukti
<1> QED BY <1>1, <1>3, <1>4, <1>5, <1>6, BarisLangkah

\* The 30-day lock of petugas (login/index.php:514, 617) holds for the rows as
\* they were when the request was admitted, over midnight, renumbering and role
\* changes; the one write without it is upload_bukti, and it sets bukti_bayar of a
\* row of the session's own account and nothing else.
THEOREM BarisTerkunci == Spec => KunciUmur
<1>1. Catatan /\ [Next]_vars =>
        [\A s \in Sesi, n \in DOMAIN pemakaian :
            Melangkah(s) /\ rek[s].level = "petugas" /\ BarisBerubah(n)
            => \/ TglPHP[rek[s].mulai] - pemakaian[n].tgl <= BatasUmur
               \/ HanyaBukti(s, n)]_vars
  <2> SUFFICES ASSUME Catatan, [Next]_vars, NEW s \in Sesi, NEW n \in DOMAIN pemakaian,
                      Melangkah(s), rek[s].level = "petugas", BarisBerubah(n)
               PROVE  \/ TglPHP[rek[s].mulai] - pemakaian[n].tgl <= BatasUmur
                      \/ HanyaBukti(s, n)
    OBVIOUS
  <2>1. Berjalan(s) /\ pc'[s] # pc[s] BY DEF Melangkah
  <2>2. ASSUME NEW q \in Sesi, Langkahi(q) PROVE q = s
    BY <2>1, <2>2, NasibLangkah DEF Langkahi, SesiUtuh, Catatan
  <2>3. Langkahi(s) BY <2>1, <2>2, LangkahSalahSatu DEF Catatan
  <2> QED BY <2>1, <2>3, LangkahKunci
<1> QED BY <1>1, InitCatatan, LangkahCatatan, PTL DEF Spec, KunciUmur

-----------------------------------------------------------------------------
(* The ledger *)

\* A row of the invariant is a row of BukuMeter.
LEMMA CocokLedger ==
    ASSUME NEW r \in Baris, r.akhir = r.awal + r.pakai,
           r.pakai = 0 => r.status = "LUNAS",
           r.tagihan = 0 \/ \E h \in hargaPernah : r.tagihan = h[2] * r.pakai
    PROVE  Ledger!Cocok(r)
<1> DEFINE H == {h[2] : h \in hargaPernah}
<1>1. r.pakai \in Nat BY DEF Baris
<1>2. \E h \in H \cup {0} : r.tagihan = h * r.pakai
  <2>1. CASE r.tagihan = 0 BY <1>1, <2>1
  <2>2. CASE \E h \in hargaPernah : r.tagihan = h[2] * r.pakai BY <2>2
  <2> QED BY <2>1, <2>2
<1> QED BY <1>1, <1>2 DEF Ledger!Cocok

LEMMA LedgerAwal == Init => Ledger!Init
<1> SUFFICES ASSUME Init PROVE Ledger!Init
  OBVIOUS
<1>1. Catatan BY InitCatatan
<1>2. /\ no_akhir \in Nat /\ DOMAIN pemakaian \subseteq 1..no_akhir
      /\ \A n \in DOMAIN pemakaian : pemakaian[n] \in Baris
  BY <1>1 DEF Catatan, Kerja, TypeOK, TipeBasis
<1>3. \A n \in DOMAIN pemakaian : Ledger!Cocok(pemakaian[n])
  BY <1>1, <1>2, CocokLedger DEF Catatan, BarisKonsisten, TagihanBerdasar
<1>4. berkas = {} /\ pemakaian = PemakaianAwal /\ jam = 0
  BY DEF Init, InitPermintaan, InitBasis
<1>5. \A n \in DOMAIN pemakaian : pemakaian[n].bukti = Tiada /\ pemakaian[n].tgl <= TglDB[jam]
  BY <1>4, AsumsiAwal
<1> QED BY <1>2, <1>3, <1>4, <1>5 DEF Ledger!Init

\* Where one row is written the other parts of the ledger stay.
LEMMA LedgerHanya ==
    ASSUME NEW n, NEW r, TanpaLain, jam' = jam, BarisJadi(n, r)
    PROVE  Ledger!Hanya(n) /\ pemakaian'[n] = r
BY DEF TanpaLain, tabelTarif, BarisJadi, Ledger!Hanya

\* A row of the next state, judged by the prices of this one.
LEMMA CocokBaru ==
    ASSUME Catatan', TanpaLain, NEW n \in DOMAIN pemakaian'
    PROVE  Ledger!Cocok(pemakaian'[n])
<1>1. pemakaian'[n] \in Baris BY DEF Catatan, Kerja, TypeOK, TipeBasis
<1>2. hargaPernah' = hargaPernah BY DEF TanpaLain, tabelTarif
<1>3. LET r == pemakaian'[n] IN
      /\ r.akhir = r.awal + r.pakai
      /\ r.pakai = 0 => r.status = "LUNAS"
      /\ r.tagihan = 0 \/ \E h \in hargaPernah : r.tagihan = h[2] * r.pakai
  BY <1>2 DEF Catatan, BarisKonsisten, TagihanBerdasar
<1> QED BY <1>1, <1>3, CocokLedger

LEMMA RekamLangkah ==
    ASSUME Catatan', NEW s \in Sesi, BarisDitambah(s), jam' = jam
    PROVE  Ledger!Rekam
<1> DEFINE n == no_akhir + 1
<1>1. /\ no_akhir' = n /\ TanpaLain /\ BarisJadi(n, BarisBaru(s)) BY DEF BarisDitambah
<1>2. Ledger!Hanya(n) /\ pemakaian'[n] = BarisBaru(s) BY <1>1, LedgerHanya
<1>3. n \in DOMAIN pemakaian' BY <1>1 DEF BarisJadi
<1>4. Ledger!Cocok(pemakaian'[n]) BY <1>1, <1>3, CocokBaru
<1>5. pemakaian'[n].tgl = TglDB[jam] /\ pemakaian'[n].bukti = Tiada BY <1>2 DEF BarisBaru
<1> QED BY <1>1, <1>2, <1>4, <1>5 DEF Ledger!Rekam

\* What meter_edit writes, whatever was posted.
LEMMA KoreksiLangkah ==
    ASSUME Catatan, Catatan', NEW s \in Sesi, BarisDiubah(s), jam' = jam
    PROVE  Ledger!Koreksi(form[s].no)
<1> DEFINE n == form[s].no
<1>1. /\ no_akhir' = no_akhir /\ n \in DOMAIN pemakaian /\ TanpaLain
      /\ BarisJadi(n, BarisUbah(s, pemakaian[n]))
  BY DEF BarisDiubah
<1>2. Ledger!Hanya(n) /\ pemakaian'[n] = BarisUbah(s, pemakaian[n]) BY <1>1, LedgerHanya
<1>3. Ledger!Cocok(pemakaian'[n]) BY <1>1, CocokBaru DEF BarisJadi
<1>4. pemakaian[n] \in Baris BY <1>1 DEF Catatan, Kerja, TypeOK, TipeBasis
<1>. PICK r, q : r = pemakaian[n] /\ q = pemakaian'[n] OBVIOUS
<1>5. q = [r EXCEPT !.awal = q.awal, !.akhir = q.akhir, !.pakai = q.pakai,
                    !.tagihan = q.tagihan, !.status = q.status]
  <2>1. r \in Baris /\ q = BarisUbah(s, r) BY <1>2, <1>4
  <2> HIDE DEF n
  <2> QED BY ONLY <2>1 DEF BarisUbah, Baris
<1> QED BY <1>1, <1>2, <1>3, <1>5 DEF Ledger!Koreksi

LEMMA LampirkanLangkah ==
    ASSUME Catatan, NEW s \in Sesi, BarisDibukti(s), jam' = jam
    PROVE  form[s].no \in DOMAIN pemakaian /\ Ledger!Lampirkan(form[s].no)
<1> DEFINE n == form[s].no
<1>. PICK b : b = rek[s].bukti OBVIOUS
<1>1. /\ no_akhir' = no_akhir /\ n \in DOMAIN pemakaian /\ TanpaLain
      /\ BarisJadi(n, [pemakaian[n] EXCEPT !.bukti = b])
  BY DEF BarisDibukti, BarisUser
<1>2. Ledger!Hanya(n) /\ pemakaian'[n] = [pemakaian[n] EXCEPT !.bukti = b]
  BY <1>1, LedgerHanya
<1>3. b \in berkas /\ b[1] = n BY DEF Catatan, BuktiBerkas, BarisDibukti
<1>4. pemakaian[n] \in Baris BY <1>1 DEF Catatan, Kerja, TypeOK, TipeBasis
<1>5. pemakaian'[n].bukti = b BY <1>2, <1>4, BuktiIsi
<1> QED BY <1>1, <1>2, <1>3, <1>5 DEF Ledger!Lampirkan

\* Rows go one by one or with their customer; else no row is touched.
LEMMA TinggalLangkah ==
    ASSUME Catatan, Catatan', NEW s \in Sesi, Langkahi(s), BarisTinggal(s), jam' = jam
    PROVE  [Ledger!Next]_Ledger!vars
<1>1. /\ no_akhir' = no_akhir
      /\ \A n \in DOMAIN pemakaian' : pemakaian'[n] = pemakaian[n]
  BY DEF BarisTinggal
<1>2. CASE DOMAIN pemakaian' = DOMAIN pemakaian
  <2>1. pemakaian' = pemakaian
    BY <1>1, <1>2 DEF Catatan, Kerja, TypeOK, TipeBasis
  <2>2. {h[2] : h \in hargaPernah} \subseteq {h[2] : h \in hargaPernah'}
    BY HargaLangkah DEF Catatan, HargaDiketahui
  <2>3. TglDB[jam'] = TglDB[jam] /\ TglDB[jam] <= TglDB[jam]
    BY AsumsiWaktu DEF Catatan, Kerja, TypeOK, TipeSesi, Hari
  <2> QED BY <1>1, <2>1, <2>2, <2>3, BerkasNaik DEF Ledger!Luar, Ledger!Next
<1>3. CASE DOMAIN pemakaian' # DOMAIN pemakaian
  <2>1. TanpaLain BY <1>3 DEF BarisTinggal
  <2>2. UNCHANGED <<no_akhir, {h[2] : h \in hargaPernah}, berkas, TglDB[jam]>>
    BY <1>1, <2>1 DEF TanpaLain, tabelTarif
  <2>3. CASE DOMAIN pemakaian' = DOMAIN pemakaian \ {form[s].no}
    <3>1. form[s].no \in DOMAIN pemakaian BY <1>3, <2>3
    <3> QED BY <1>1, <2>2, <2>3, <3>1 DEF Ledger!Hapus, Ledger!Next
  <2>4. CASE DOMAIN pemakaian' = DOMAIN pemakaian \ BarisUser(form[s].username)
    <3> DEFINE u == form[s].username
    <3>1. PICK n \in DOMAIN pemakaian : pemakaian[n].username = u
      BY <1>3, <2>4 DEF BarisUser
    <3>2. DOMAIN pemakaian' =
            {m \in DOMAIN pemakaian : pemakaian[m].username # pemakaian[n].username}
      BY <2>4, <3>1 DEF BarisUser
    <3> QED BY <1>1, <2>2, <3>2 DEF Ledger!Hapus, Ledger!Next
  <2> QED BY <1>3, <2>3, <2>4 DEF BarisTinggal
<1> QED BY <1>2, <1>3

\* The clock only goes forward.
LEMMA DetakLedger ==
    ASSUME Catatan, Catatan', UNCHANGED basis, jam' >= jam
    PROVE  [Ledger!Next]_Ledger!vars
<1>1. UNCHANGED <<pemakaian, no_akhir, hargaPernah, berkas>> BY DEF basis, tabelTarif
<1>2. jam \in Waktu /\ jam' \in Waktu BY DEF Catatan, Kerja, TypeOK, TipeSesi
<1>3. TglDB[jam] <= TglDB[jam'] BY <1>2, AsumsiWaktu DEF Monoton
<1>4. {h[2] : h \in hargaPernah} \subseteq {h[2] : h \in hargaPernah'} BY <1>1
<1> QED BY <1>1, <1>3, <1>4 DEF Ledger!Luar, Ledger!Next

\* Each statement of a handler is one step of the ledger, or none.
LEMMA LedgerLangkah == Catatan /\ [Next]_vars => [Ledger!Next]_Ledger!vars
<1> SUFFICES ASSUME Catatan, [Next]_vars PROVE [Ledger!Next]_Ledger!vars
  OBVIOUS
<1>1. Catatan' BY LangkahCatatan
<1>2. ASSUME NEW s \in Sesi, Langkahi(s) PROVE [Ledger!Next]_Ledger!vars
  <2>1. jam' = jam BY <1>2, JamTetap DEF Catatan
  <2>2. CASE BarisTinggal(s) BY <1>1, <1>2, <2>1, <2>2, TinggalLangkah
  <2>3. CASE BarisDitambah(s) BY <1>1, <2>1, <2>3, RekamLangkah DEF Ledger!Next
  <2>4. CASE BarisDiubah(s)
    <3>1. form[s].no \in DOMAIN pemakaian BY <2>4 DEF BarisDiubah
    <3> QED BY <1>1, <2>1, <2>4, <3>1, KoreksiLangkah DEF Ledger!Next
  <2>5. CASE BarisDibukti(s) BY <2>1, <2>5, LampirkanLangkah DEF Ledger!Next
  <2> QED BY <1>2, <2>2, <2>3, <2>4, <2>5, BarisLangkah DEF Catatan
<1> QED BY <1>1, <1>2, LangkahSalahSatu, DetakLedger DEF Catatan

(***************************************************************************)
(* meter_add, meter_edit, meter_hapus, user_hapus and upload_bukti         *)
(* implement the ledger of BukuMeter, for any number of sessions whose     *)
(* statements interleave in any order: a number is given once, a row is    *)
(* dated on its day, and each later write changes one row, its readings    *)
(* with the bill that follows from them or its proof, and nothing else     *)
(* (login/index.php:483-493, 532-544, 587-593, 622-626, 367-370).          *)
(***************************************************************************)
THEOREM BukuMeterTerpenuhi == Spec => LedgerSpec
<1> QED BY InitCatatan, LangkahCatatan, LedgerAwal, LedgerLangkah, PTL
        DEF Spec, LedgerSpec, Ledger!Spec

-----------------------------------------------------------------------------
(* The accounts *)

\* What a step of s does to an account that is there after it.
LEMMA AkunLangkah ==
    ASSUME Catatan, NEW s \in Sesi, Langkahi(s), Berjalan(s), rek[s].level # "admin",
           NEW u \in DOMAIN login', u \notin DOMAIN login \/ login'[u] # login[u]
    PROVE  \/ u \notin DOMAIN login /\ login'[u].level = "warga"
           \/ /\ u \in DOMAIN login /\ u = Aktor(s)
              /\ login'[u].level = login[u].level
              /\ login'[u].tipe = login[u].tipe
<1>1. Kerja /\ T(s) \in Penangan(pc[s])
  BY DiPenangan DEF Catatan
<1>2. T(s) \notin {"user_add", "user_edit", "user_hapus"}
  BY DEF Catatan, HakSah, Berhak
<1>3. login' # login OBVIOUS
<1>4. UNCHANGED basis => login' = login BY DEF basis
<1>5. JalanMeter(s) => login' = login
  BY <1>4 DEF JalanMeter, CekUmur, BacaNoKeUser, BacaTipe, BacaKd, BacaHarga, CekBulan, Baca,
     SisipMeter, UbahMeter, HapusMeter
<1>6. JalanTarif(s) \/ JalanBukti(s) \/ CatatLog(s) => login' = login
  BY <1>4 DEF JalanTarif, CekTarif, SisipTarif, IdGanda, UbahTarif, HapusTarif, JalanBukti,
     TolakBerkas, PindahBerkas, UbahBukti, CatatLog
<1>7. JalanUser(s) BY <1>3, <1>4, <1>5, <1>6, TanpaTulis DEF Langkahi, Jalan
<1>8. SisipDaftar(s) \/ UbahProfil(s)
  <2>1. SisipUser(s) => T(s) = "user_add" BY <1>1 DEF SisipUser, Penangan
  <2>2. UbahUser(s) => T(s) = "user_edit" BY <1>1 DEF UbahUser, Penangan
  <2>3. HapusUser(s) => T(s) = "user_hapus" BY <1>1 DEF HapusUser, Penangan
  <2>4. CekUser(s) \/ CekDaftar(s) \/ KunciGanda(s) \/ HapusAnak(s) => login' = login
    BY <1>4 DEF CekUser, CekDaftar, CekNama, KunciGanda, HapusAnak
  <2> QED BY <1>2, <1>3, <1>7, <2>1, <2>2, <2>3, <2>4 DEF JalanUser
<1>9. CASE SisipDaftar(s)
  <2>1. rek[s].isi.level = "warga"
    BY <1>1, <1>9 DEF SisipDaftar, Penangan, Catatan, HakSah
  <2>2. form[s].username \notin DOMAIN login
        /\ login' = Sisip(login, form[s].username, rek[s].isi)
    BY <1>9 DEF SisipDaftar, SisipNama
  <2>3. CASE u = form[s].username BY <2>1, <2>2, <2>3 DEF Sisip
  <2>4. CASE u # form[s].username BY <2>2, <2>4 DEF Sisip
  <2> QED BY <2>3, <2>4
<1>10. CASE UbahProfil(s)
  <2> DEFINE d == rek[s].isi.data
  <2>1. login' = [v \in DOMAIN login |->
                    IF v = Aktor(s) THEN [login[v] EXCEPT !.data = d] ELSE login[v]]
    BY <1>10 DEF UbahProfil, UbahLogin
  <2> HIDE DEF d
  <2>2. u \in DOMAIN login /\ login[u] \in Pengguna
    BY <1>1, <2>1 DEF Kerja, TypeOK, TipeBasis
  <2>3. u = Aktor(s) /\ login'[u] = [login[u] EXCEPT !.data = d] BY <2>1, <2>2
  <2>4. \A r \in Pengguna : LET q == [r EXCEPT !.data = d] IN
          q.level = r.level /\ q.tipe = r.tipe
    BY DEF Pengguna
  <2> QED BY <2>2, <2>3, <2>4
<1> QED BY <1>8, <1>9, <1>10

\* Only a request admitted for an admin gives an account a level or a type or
\* changes the account of somebody else: profil_edit (login/index.php:638-640)
\* and register_warga do not, whatever becomes of the roles meanwhile.
THEOREM LevelTetap == Spec => LevelHanyaAdmin
<1>1. Catatan /\ [Next]_vars =>
        [\A u \in DOMAIN login', s \in Sesi :
          /\ Melangkah(s)
          /\ rek[s].level # "admin"
          /\ u \notin DOMAIN login \/ login'[u] # login[u]
          => \/ u \notin DOMAIN login /\ login'[u].level = "warga"
             \/ /\ u \in DOMAIN login /\ u = Aktor(s)
                /\ login'[u].level = login[u].level
                /\ login'[u].tipe = login[u].tipe]_vars
  <2> SUFFICES ASSUME Catatan, [Next]_vars, NEW u \in DOMAIN login', NEW s \in Sesi,
                      Melangkah(s), rek[s].level # "admin",
                      u \notin DOMAIN login \/ login'[u] # login[u]
               PROVE  \/ u \notin DOMAIN login /\ login'[u].level = "warga"
                      \/ /\ u \in DOMAIN login /\ u = Aktor(s)
                         /\ login'[u].level = login[u].level
                         /\ login'[u].tipe = login[u].tipe
    OBVIOUS
  <2>1. Berjalan(s) /\ pc'[s] # pc[s] BY DEF Melangkah
  <2>2. ASSUME NEW q \in Sesi, Langkahi(q) PROVE q = s
    BY <2>1, <2>2, NasibLangkah DEF Langkahi, SesiUtuh, Catatan
  <2>3. Langkahi(s) BY <2>1, <2>2, LangkahSalahSatu DEF Catatan
  <2> QED BY <2>1, <2>3, AkunLangkah
<1> QED BY <1>1, InitCatatan, LangkahCatatan, PTL DEF Spec, LevelHanyaAdmin

-----------------------------------------------------------------------------
(* What a step does to the history and the trail *)

\* No write, no entry, no death.
Sunyi(s) ==
    /\ UNCHANGED <<jejak, gagal, audit_log>>
    /\ pc[s] # "log" /\ pc'[s] \notin {"log", "hapus_user"}
    /\ pc[s] = "hapus_user" => pc'[s] = "form" /\ form[s].username \notin DOMAIN login

\* A write, after which catat_log is next.
Tertulis(s) ==
    /\ \E tb \in {"login", "tarif", "pemakaian"} : Tulis(s, tb)
    /\ UNCHANGED <<gagal, audit_log>>
    /\ pc'[s] = "log"

\* user_hapus deletes the rows of the account, if there are any.
AnakTerhapus(s) ==
    /\ Tulis(s, "pemakaian") \/ UNCHANGED jejak
    /\ UNCHANGED <<gagal, audit_log>>
    /\ pc[s] = "hapus_anak" /\ pc'[s] = "hapus_user"

\* register_warga writes and ends.
Terdaftar(s) ==
    /\ Tulis(s, "login")
    /\ UNCHANGED <<gagal, audit_log>>
    /\ T(s) = "register_warga" /\ pc'[s] = "form"

\* upload_bukti goes on to catat_log though no row was hit.
BuktiLuput(s) ==
    /\ UNCHANGED <<jejak, gagal, audit_log, pemakaian>>
    /\ T(s) = "upload_bukti" /\ pc'[s] = "log"
    /\ form[s].no \notin BarisUser(Aktor(s))

\* The request dies.
Mati(s) ==
    /\ Berjalan(s) /\ pc'[s] = "form"
    /\ gagal' = gagal \cup {rek[s].req}
    /\ UNCHANGED <<jejak, audit_log>>

NasibJejak(s) ==
    \/ Sunyi(s) \/ Tertulis(s) \/ AnakTerhapus(s) \/ Terdaftar(s)
    \/ BuktiLuput(s) \/ CatatLog(s) \/ Mati(s)

\* Where the helpers that end a step lead.
LEMMA KeAkhir ==
    ASSUME Kerja, NEW s \in Sesi PROVE Selesai(s) => pc'[s] = "form"
BY DEF Kerja, TypeOK, TipeSesi, Selesai, Pindah

LEMMA KeLangkah ==
    ASSUME Kerja, NEW s \in Sesi, NEW l PROVE Lanjut(s, l) => pc'[s] = l
BY DEF Kerja, TypeOK, TipeSesi, Lanjut, Pindah

\* A write that changes rows goes to catat_log, another ends the request.
LEMMA CatatJejak ==
    ASSUME Kerja, NEW s \in Sesi, NEW b \in BOOLEAN,
           NEW tb \in {"login", "tarif", "pemakaian"},
           TulisBila(s, tb, b), Catat(s, b), UNCHANGED <<gagal, audit_log>>,
           pc[s] # "log",
           pc[s] = "hapus_user" /\ ~b => form[s].username \notin DOMAIN login
    PROVE  Sunyi(s) \/ Tertulis(s)
<1>1. CASE b BY <1>1, KeLangkah DEF TulisBila, Catat, Tertulis
<1>2. CASE ~b BY <1>2, KeAkhir DEF TulisBila, Catat, Sunyi
<1> QED BY <1>1, <1>2

\* Pages and admissions write nothing.
LEMMA JejakHalaman ==
    ASSUME Kerja, NEW s \in Sesi, Halaman(s) \/ Ajukan(s) PROVE Sunyi(s)
<1>1. UNCHANGED <<jejak, gagal>>
  <2>1. Halaman(s) => UNCHANGED <<jejak, gagal>>
    BY DEF Halaman, HalamanMeter, BukaMeterAdd, BukaMeterEdit, BukaMeterHapus, HalamanUser,
       BukaUserAdd, BukaUserEdit, BukaUserHapus, BukaUser, BukaProfil, BukaDaftar,
       HalamanTarif, BukaTarifAdd, BukaTarifEdit, BukaTarifHapus, BukaTarif, BukaBukti,
       Pental, Pasang
  <2>2. Ajukan(s) => UNCHANGED <<jejak, gagal>>
    BY DEF Ajukan, AjukanMeter, TerimaMeterAdd, TerimaMeterEdit, TerimaMeterHapus,
       TerimaMeter, AjukanUser, TerimaUserAdd, TerimaUserEdit, TerimaUserIsian, TerimaProfil,
       TerimaUserHapus, TerimaDaftar, AjukanTarif, TerimaTarifAdd, TerimaTarifEdit,
       TerimaTarif, TerimaTarifHapus, TerimaBukti, Tolak, MulaiDengan
  <2> QED BY <2>1, <2>2
<1>2. audit_log' = audit_log BY TanpaTulis DEF basis
<1>3. Dibuka(s) \/ Dimulai(s) BY HalamanNasib, AjukanNasib
<1> QED BY <1>1, <1>2, <1>3 DEF Sunyi, Dibuka, Dimulai, Berjalan, Langkah, LangkahAwal

\* The scripts of the meter forms.
LEMMA JejakMeter ==
    ASSUME Kerja, NEW s \in Sesi, JalanMeter(s) PROVE NasibJejak(s)
<1>1. CASE \/ CekUmur(s) \/ BacaNoKeUser(s) \/ BacaTipe(s) \/ BacaKd(s)
           \/ BacaHarga(s) \/ CekBulan(s)
  <2>1. UNCHANGED <<jejak, gagal, audit_log>>
    BY <1>1 DEF CekUmur, BacaNoKeUser, BacaTipe, BacaKd, BacaHarga, CekBulan, Baca, TetapSesi,
       basis
  <2>2. /\ pc[s] \notin {"log", "hapus_user"}
        /\ \/ Selesai(s)
           \/ \E l \in {"no_user", "hapus_meter", "tipe", "harga", "kd", "cek_bulan",
                       "ubah_meter", "sisip_meter"} : Pindah(s, l)
    BY <1>1 DEF CekUmur, BacaNoKeUser, BacaTipe, BacaKd, BacaHarga, CekBulan, Baca, Lanjut
  <2>3. pc'[s] \notin {"log", "hapus_user"}
    BY <2>2, KeAkhir DEF Pindah, Kerja, TypeOK, TipeSesi
  <2> QED BY <2>1, <2>2, <2>3 DEF Sunyi, NasibJejak
<1>2. CASE SisipMeter(s)
  BY <1>2, KeLangkah DEF SisipMeter, TetapSesi, Tertulis, NasibJejak
<1>3. CASE UbahMeter(s)
  <2>1. /\ pc[s] = "ubah_meter" /\ UNCHANGED <<gagal, audit_log>>
        /\ \E b \in BOOLEAN : TulisBila(s, "pemakaian", b) /\ Catat(s, b)
    BY <1>3, UbahMeterRinci DEF TetapSesi
  <2> QED BY <2>1, CatatJejak DEF NasibJejak
<1>4. CASE HapusMeter(s)
  <2> DEFINE b == form[s].no \in DOMAIN pemakaian
  <2>1. /\ pc[s] = "hapus_meter" /\ UNCHANGED <<gagal, audit_log>>
        /\ TulisBila(s, "pemakaian", b) /\ Catat(s, b)
    BY <1>4 DEF HapusMeter, TetapSesi
  <2>2. b \in BOOLEAN OBVIOUS
  <2> HIDE DEF b
  <2> QED BY <2>1, <2>2, CatatJejak DEF NasibJejak
<1> QED BY <1>1, <1>2, <1>3, <1>4 DEF JalanMeter

\* The scripts of the account forms.
LEMMA JejakUser ==
    ASSUME Kerja, NEW s \in Sesi, JalanUser(s) PROVE NasibJejak(s)
<1>0. Berjalan(s) => T(s) \in Penangan(pc[s]) BY DiPenangan
<1>1. CASE CekUser(s) \/ CekDaftar(s)
  <2>1. /\ UNCHANGED <<jejak, gagal, audit_log>>
        /\ pc[s] \notin {"log", "hapus_user"}
        /\ Selesai(s) \/ \E l \in {"sisip_user", "sisip_daftar"} : Lanjut(s, l)
    BY <1>1 DEF CekUser, CekDaftar, CekNama, TetapSesi, basis
  <2> QED BY <2>1, KeAkhir, KeLangkah DEF Sunyi, NasibJejak
<1>2. CASE SisipUser(s)
  BY <1>2, KeLangkah DEF SisipUser, SisipNama, TetapSesi, Tertulis, NasibJejak
<1>3. CASE SisipDaftar(s)
  <2>1. T(s) = "register_warga" BY <1>0, <1>3 DEF SisipDaftar, Berjalan, Langkah, Penangan
  <2> QED BY <1>3, <2>1, KeAkhir DEF SisipDaftar, SisipNama, TetapSesi, Terdaftar, NasibJejak
<1>4. CASE KunciGanda(s)
  BY <1>4, KeAkhir DEF KunciGanda, basis, Berjalan, Langkah, Mati, NasibJejak
<1>5. CASE UbahUser(s) \/ UbahProfil(s)
  <2>1. /\ pc[s] \in {"ubah_user", "ubah_profil"} /\ UNCHANGED <<gagal, audit_log>>
        /\ \E b \in BOOLEAN : TulisBila(s, "login", b) /\ Catat(s, b)
    BY <1>5 DEF UbahUser, UbahProfil, UbahLogin, TetapSesi
  <2> QED BY <2>1, CatatJejak DEF NasibJejak
<1>6. CASE HapusAnak(s)
  BY <1>6, KeLangkah DEF HapusAnak, TulisBila, TetapSesi, AnakTerhapus, NasibJejak
<1>7. CASE HapusUser(s)
  <2> DEFINE b == form[s].username \in DOMAIN login
  <2>1. /\ pc[s] # "log" /\ UNCHANGED <<gagal, audit_log>>
        /\ TulisBila(s, "login", b) /\ Catat(s, b)
    BY <1>7 DEF HapusUser, TetapSesi
  <2>2. b \in BOOLEAN /\ (~b => form[s].username \notin DOMAIN login) OBVIOUS
  <2> HIDE DEF b
  <2> QED BY <2>1, <2>2, CatatJejak DEF NasibJejak
<1> QED BY <1>1, <1>2, <1>3, <1>4, <1>5, <1>6, <1>7 DEF JalanUser

\* The scripts of the tariff forms.
LEMMA JejakTarif ==
    ASSUME Kerja, NEW s \in Sesi, JalanTarif(s) PROVE NasibJejak(s)
<1>1. CASE CekTarif(s)
  <2>1. /\ UNCHANGED <<jejak, gagal, audit_log>> /\ pc[s] = "cek_tarif"
        /\ Selesai(s) \/ Lanjut(s, "sisip_tarif")
    BY <1>1 DEF CekTarif, TetapSesi, basis
  <2> QED BY <2>1, KeAkhir, KeLangkah DEF Sunyi, NasibJejak
<1>2. CASE SisipTarif(s)
  BY <1>2, KeLangkah DEF SisipTarif, TetapSesi, Tertulis, NasibJejak
<1>3. CASE IdGanda(s)
  BY <1>3, KeAkhir DEF IdGanda, basis, Berjalan, Langkah, Mati, NasibJejak
<1>4. CASE UbahTarif(s)
  <2>1. /\ pc[s] = "ubah_tarif" /\ UNCHANGED <<gagal, audit_log>>
        /\ \E b \in BOOLEAN : TulisBila(s, "tarif", b) /\ Catat(s, b)
    BY <1>4 DEF UbahTarif, TetapSesi
  <2> QED BY <2>1, CatatJejak DEF NasibJejak
<1>5. CASE HapusTarif(s)
  <2> DEFINE b == form[s].id \in DOMAIN tarif
  <2>1. /\ pc[s] = "hapus_tarif" /\ UNCHANGED <<gagal, audit_log>>
        /\ TulisBila(s, "tarif", b) /\ Catat(s, b)
    BY <1>5 DEF HapusTarif, TetapSesi
  <2>2. b \in BOOLEAN OBVIOUS
  <2> HIDE DEF b
  <2> QED BY <2>1, <2>2, CatatJejak DEF NasibJejak
<1> QED BY <1>1, <1>2, <1>3, <1>4, <1>5 DEF JalanTarif

\* The script of upload_bukti.
LEMMA JejakBukti ==
    ASSUME Kerja, NEW s \in Sesi, JalanBukti(s) PROVE NasibJejak(s)
<1>1. CASE TolakBerkas(s)
  BY <1>1, KeAkhir DEF TolakBerkas, TetapSesi, basis, Sunyi, NasibJejak
<1>2. CASE PindahBerkas(s)
  <2>1. pc'[s] = "ubah_bukti"
    BY <1>2 DEF PindahBerkas, Pindah, Kerja, TypeOK, TipeSesi
  <2> QED BY <1>2, <2>1 DEF PindahBerkas, TetapSesi, Sunyi, NasibJejak
<1>3. CASE UbahBukti(s)
  <2>1. T(s) = "upload_bukti"
    BY <1>3, DiPenangan DEF UbahBukti, Berjalan, Langkah, Penangan
  <2>2. \/ Tulis(s, "pemakaian")
        \/ UNCHANGED <<jejak, pemakaian>> /\ form[s].no \notin BarisUser(Aktor(s))
    BY <1>3 DEF UbahBukti, TulisBila
  <2>3. pc'[s] = "log" /\ UNCHANGED <<gagal, audit_log>>
    BY <1>3, KeLangkah DEF UbahBukti, TetapSesi
  <2> QED BY <2>1, <2>2, <2>3 DEF Tertulis, BuktiLuput, NasibJejak
<1> QED BY <1>1, <1>2, <1>3 DEF JalanBukti

\* In a step of s the history changes in one of seven ways.
LEMMA JejakLangkah ==
    ASSUME Kerja, NEW s \in Sesi, Langkahi(s) PROVE NasibJejak(s)
<1>1. CASE Gagal(s) BY <1>1, KeAkhir DEF Gagal, basis, Mati, NasibJejak
<1>2. CASE Jalan(s)
  BY <1>2, JejakMeter, JejakUser, JejakTarif, JejakBukti DEF Jalan, NasibJejak
<1> QED BY <1>1, <1>2, JejakHalaman DEF Langkahi, NasibJejak

\* A step of a script is one of a script that runs.
LEMMA JalanBerjalan == ASSUME NEW s \in Sesi, Jalan(s) PROVE Berjalan(s)
<1>1. JalanMeter(s) => Berjalan(s)
  BY DEF JalanMeter, CekUmur, BacaNoKeUser, BacaTipe, BacaKd, BacaHarga, CekBulan, SisipMeter,
     UbahMeter, HapusMeter, Baca, Berjalan, Langkah
<1>2. JalanUser(s) => Berjalan(s)
  BY DEF JalanUser, CekUser, CekDaftar, CekNama, SisipUser, SisipDaftar, SisipNama,
     KunciGanda, UbahUser, UbahProfil, UbahLogin, HapusAnak, HapusUser, Berjalan, Langkah
<1>3. JalanTarif(s) => Berjalan(s)
  BY DEF JalanTarif, CekTarif, SisipTarif, IdGanda, UbahTarif, HapusTarif, Berjalan, Langkah
<1>4. JalanBukti(s) => Berjalan(s)
  BY DEF JalanBukti, TolakBerkas, PindahBerkas, UbahBukti, Berjalan, Langkah
<1>5. CatatLog(s) => Berjalan(s) BY DEF CatatLog, Berjalan, Langkah
<1> QED BY <1>1, <1>2, <1>3, <1>4, <1>5 DEF Jalan

\* The history only grows, and only by the request of a script that runs.
JejakTumbuh(s) ==
    /\ jejak \subseteq jejak' /\ gagal \subseteq gagal' /\ audit_log \subseteq audit_log'
    /\ \A w \in jejak' \ jejak :
          Berjalan(s) /\ w.req = rek[s].req /\ w.t = T(s) /\ w.siapa = form[s].username
    /\ \A g \in gagal' \ gagal : Berjalan(s) /\ g = rek[s].req
    /\ \A e \in audit_log' \ audit_log : Berjalan(s) /\ e.req = rek[s].req

\* Each of the seven ways is such a growth.
LEMMA TumbuhLangkah ==
    ASSUME Kerja, NEW s \in Sesi, Langkahi(s) PROVE JejakTumbuh(s)
<1>1. NasibJejak(s) BY JejakLangkah
<1>2. ASSUME NEW tb, Tulis(s, tb), Berjalan(s), UNCHANGED <<gagal, audit_log>>
      PROVE  JejakTumbuh(s)
  BY <1>2 DEF Tulis, JejakTumbuh
<1>3. UNCHANGED <<jejak, gagal, audit_log>> => JejakTumbuh(s) BY DEF JejakTumbuh
<1>4. Berjalan(s) \/ Sunyi(s)
  BY JalanBerjalan, JejakHalaman DEF Langkahi, Gagal
<1>5. CASE CatatLog(s) BY <1>4, <1>5 DEF CatatLog, TetapSesi, JejakTumbuh, Sunyi
<1>6. CASE Mati(s) BY <1>6 DEF Mati, JejakTumbuh
<1> QED BY <1>1, <1>2, <1>3, <1>4, <1>5, <1>6
        DEF NasibJejak, Sunyi, Tertulis, AnakTerhapus, Terdaftar, BuktiLuput

-----------------------------------------------------------------------------
(* What a running request knows of the trail *)

\* The numbers of the requests tell the running scripts apart, and a running
\* script is neither dead nor logged.
NomorReq ==
    /\ \A w \in jejak : w.req <= nReq
    /\ \A e \in audit_log : e.req <= nReq
    /\ \A g \in gagal : g <= nReq
    /\ \A s \in Sesi : Berjalan(s) =>
          /\ rek[s].req <= nReq
          /\ rek[s].req \notin gagal
          /\ \A e \in audit_log : e.req # rek[s].req
    /\ \A s, q \in Sesi : Berjalan(s) /\ Berjalan(q) /\ rek[s].req = rek[q].req => s = q

\* A running script that has written goes to catat_log next, or is user_hapus
\* between its two statements.
JejakSkrip ==
    \A s \in Sesi : Berjalan(s) =>
       \A w \in jejak : w.req = rek[s].req =>
          /\ w.t = T(s) /\ w.siapa = form[s].username
          /\ pc[s] = "log" \/ (pc[s] = "hapus_user" /\ w.tabel = "pemakaian")

\* A script about to call catat_log has written, or is upload_bukti and its row
\* is gone.
LogBerdasar ==
    \A s \in Sesi : pc[s] = "log" =>
       \/ \E w \in jejak : w.req = rek[s].req /\ w.t = T(s)
       \/ T(s) = "upload_bukti" /\ form[s].no \notin DOMAIN pemakaian

\* No entry is for a number that AUTO_INCREMENT has still to give.
NomorEntri == \A e \in audit_log : e.no <= no_akhir

\* An account that a form asks to delete is there, or was deleted by a request
\* of that kind.
FormHapus ==
    \A s \in Sesi : T(s) = "user_hapus" =>
       \/ form[s].username \in DOMAIN login
       \/ \E v \in jejak : /\ v.t = "user_hapus" /\ v.tabel = "login"
                           /\ v.siapa = form[s].username

Penelusuran ==
    /\ Catatan /\ NomorReq /\ JejakSkrip /\ LogBerdasar /\ NomorEntri /\ FormHapus
    /\ AuditBenar /\ AuditLengkap

\* The history starts empty.
LEMMA InitPenelusuran == Init => Penelusuran
<1> SUFFICES ASSUME Init PROVE Penelusuran
  OBVIOUS
<1>1. Catatan BY InitCatatan
<1>2. /\ jejak = {} /\ gagal = {} /\ audit_log = {}
      /\ \A s \in Sesi : pc[s] = "siap" /\ form[s] = FormKosong
  BY DEF Init, InitPermintaan, InitBasis
<1>3. FormHapus
  <2>1. FormKosong.t = Tiada BY DEF FormKosong
  <2>2. Tiada # "user_hapus" BY AsumsiTombol DEF Tombol
  <2> QED BY <1>2, <2>1, <2>2 DEF FormHapus, T
<1> QED BY <1>1, <1>2, <1>3 DEF Penelusuran, NomorReq, JejakSkrip, LogBerdasar, NomorEntri,
        AuditBenar, AuditLengkap, Berjalan, Langkah

\* The sessions in the three cases of a step of s.
LEMMA ReqTetap ==
    ASSUME Kerja, NomorReq, NEW s \in Sesi, Langkahi(s) PROVE NomorReq'
<1>1. NasibSah(s) /\ \A q \in Sesi \ {s} : SesiUtuh(q) BY NasibLangkah DEF Langkahi
<1>2. JejakTumbuh(s) BY TumbuhLangkah
<1>3. nReq \in Nat /\ nReq' \in {nReq, nReq + 1}
  BY <1>1 DEF NasibSah, Dibuka, Dimulai, Diteruskan, Berakhir, Kerja, TypeOK, TipeSesi
<1>4. /\ \A w \in jejak : w.req \in Nat
      /\ \A e \in audit_log : e.req \in Nat
      /\ \A g \in gagal : g \in Nat
      /\ \A q \in Sesi : rek[q].req \in Nat
  BY DEF Kerja, TypeOK, TipeSesi, TipeBasis, JejakTulis, EntriLog, Rek
<1>5. Berjalan(s) => rek[s].req <= nReq BY DEF NomorReq
<1>6. (\A w \in jejak : w.req <= nReq)'
  <2> SUFFICES ASSUME NEW w \in jejak' PROVE w.req <= nReq'
    OBVIOUS
  <2>1. w.req <= nReq /\ w.req \in Nat
    BY <1>2, <1>4, <1>5 DEF JejakTumbuh, NomorReq
  <2> HIDE DEF JejakTumbuh
  <2> QED BY <1>3, <2>1
<1>7. (\A e \in audit_log : e.req <= nReq)'
  <2> SUFFICES ASSUME NEW e \in audit_log' PROVE e.req <= nReq'
    OBVIOUS
  <2>1. e.req <= nReq /\ e.req \in Nat
    BY <1>2, <1>4, <1>5 DEF JejakTumbuh, NomorReq
  <2> QED BY <1>3, <2>1
<1>8. (\A g \in gagal : g <= nReq)'
  <2> SUFFICES ASSUME NEW g \in gagal' PROVE g <= nReq'
    OBVIOUS
  <2>1. g <= nReq /\ g \in Nat
    BY <1>2, <1>4, <1>5 DEF JejakTumbuh, NomorReq
  <2> QED BY <1>3, <2>1
\* A script that runs after the step ran before it with the same number, or is
\* the one just admitted.
<1>9. ASSUME NEW q \in Sesi, Berjalan(q)'
      PROVE  \/ Berjalan(q) /\ rek'[q].req = rek[q].req /\ (q = s => pc[s] # "log")
             \/ q = s /\ Dimulai(s)
  <2>1. CASE q # s BY <1>1, <1>9, <2>1 DEF SesiUtuh, Berjalan
  <2>2. CASE q = s
    BY <1>1, <1>9, <2>2 DEF NasibSah, Dibuka, Diteruskan, Berakhir, Berjalan, Langkah
  <2> QED BY <2>1, <2>2
<1>10. Dimulai(s) =>
        rek'[s].req = nReq + 1 /\ nReq' = nReq + 1 /\ UNCHANGED <<jejak, gagal, audit_log>>
  <2> SUFFICES ASSUME Dimulai(s)
               PROVE  rek'[s].req = nReq + 1 /\ nReq' = nReq + 1
                      /\ UNCHANGED <<jejak, gagal, audit_log>>
    OBVIOUS
  <2>1. rek'[s].req = nReq + 1 /\ nReq' = nReq + 1 /\ ~Berjalan(s) BY DEF Dimulai
  <2> QED BY <1>2, <2>1 DEF JejakTumbuh
<1>11. ASSUME NEW q \in Sesi, Berjalan(q)'
       PROVE  /\ rek'[q].req <= nReq'
              /\ rek'[q].req \notin gagal'
              /\ \A e \in audit_log' : e.req # rek'[q].req
  <2>1. CASE q = s /\ Dimulai(s)
    BY <1>3, <1>4, <1>10, <2>1 DEF NomorReq
  <2>2. CASE Berjalan(q) /\ rek'[q].req = rek[q].req /\ (q = s => pc[s] # "log")
    <3>1. /\ rek[q].req <= nReq /\ rek[q].req \notin gagal
          /\ \A e \in audit_log : e.req # rek[q].req
      BY <2>2 DEF NomorReq
    <3>2. CASE q # s
      <4>1. Berjalan(s) => rek[s].req # rek[q].req BY <2>2, <3>2 DEF NomorReq
      <4> QED BY <1>2, <1>3, <1>4, <2>2, <3>1, <4>1 DEF JejakTumbuh
    <3>3. CASE q = s
      <4>1. pc'[s] # "form" BY <1>11, <3>3 DEF Berjalan, Langkah
      <4>2. ~CatatLog(s) /\ ~Mati(s) BY <4>1, <2>2, <3>3 DEF CatatLog, Mati
      <4>3. UNCHANGED <<gagal, audit_log>>
        BY <4>2, JejakLangkah
           DEF NasibJejak, Sunyi, Tertulis, AnakTerhapus, Terdaftar, BuktiLuput
      <4> QED BY <1>3, <1>4, <2>2, <3>1, <3>3, <4>3
    <3> QED BY <3>2, <3>3
  <2> QED BY <1>9, <1>11, <2>1, <2>2
<1>12. ASSUME NEW p \in Sesi, NEW q \in Sesi, Berjalan(p)', Berjalan(q)',
              rek'[p].req = rek'[q].req
       PROVE  p = q
  <2>1. ASSUME NEW a \in Sesi, NEW b \in Sesi, a = s, Dimulai(s), b # s, Berjalan(b)'
        PROVE  rek'[a].req # rek'[b].req
    <3>1. Berjalan(b) /\ rek'[b].req = rek[b].req BY <1>9, <2>1
    <3>2. rek[b].req <= nReq /\ rek[b].req \in Nat BY <1>4, <3>1 DEF NomorReq
    <3>3. rek'[a].req = nReq + 1 BY <1>10, <2>1
    <3> QED BY <1>3, <3>1, <3>2, <3>3
  <2>2. CASE ~Dimulai(s)
    BY <1>9, <1>12, <2>2 DEF NomorReq
  <2>3. CASE Dimulai(s)
    <3>1. CASE p # s /\ q # s BY <1>9, <1>12, <3>1 DEF NomorReq
    <3> QED BY <1>12, <2>1, <2>3, <3>1
  <2> QED BY <2>2, <2>3
<1> QED BY <1>6, <1>7, <1>8, <1>11, <1>12 DEF NomorReq

\* A script that has written makes no statement but user_hapus' second.
LEMMA SkripTetap ==
    ASSUME Kerja, NomorReq, JejakSkrip, NEW s \in Sesi, Langkahi(s) PROVE JejakSkrip'
<1>1. NasibSah(s) /\ \A q \in Sesi \ {s} : SesiUtuh(q) BY NasibLangkah DEF Langkahi
<1>2. JejakTumbuh(s) /\ NasibJejak(s) BY TumbuhLangkah, JejakLangkah
<1> SUFFICES ASSUME NEW q \in Sesi, Berjalan(q)', NEW w \in jejak', w.req = rek'[q].req
             PROVE  /\ w.t = T(q)' /\ w.siapa = form'[q].username
                    /\ pc'[q] = "log" \/ (pc'[q] = "hapus_user" /\ w.tabel = "pemakaian")
  BY DEF JejakSkrip
<1>3. CASE q # s
  <2>1. /\ Berjalan(q) /\ rek'[q].req = rek[q].req /\ T(q)' = T(q) /\ pc'[q] = pc[q]
        /\ form'[q] = form[q]
    BY <1>1, <1>3 DEF SesiUtuh, Berjalan, T
  <2>2. w \in jejak BY <1>2, <1>3, <2>1 DEF JejakTumbuh, NomorReq
  <2> QED BY <2>1, <2>2 DEF JejakSkrip
<1>4. CASE q = s /\ ~Berjalan(s)
  <2>1. Dimulai(s)
    BY <1>1, <1>4 DEF NasibSah, Dibuka, Diteruskan, Berakhir, Berjalan
  <2>2. w \in jejak BY <1>2, <1>4 DEF JejakTumbuh
  <2>3. w.req <= nReq /\ w.req \in Nat BY <2>2 DEF NomorReq, Kerja, TypeOK, TipeSesi, JejakTulis
  <2>4. w.req = nReq + 1 /\ nReq \in Nat BY <1>4, <2>1 DEF Dimulai, Kerja, TypeOK, TipeSesi
  <2> QED BY <2>3, <2>4
<1>5. CASE q = s /\ Berjalan(s)
  <2>1. /\ pc'[s] # "form" /\ pc[s] # "log"
        /\ rek'[s].req = rek[s].req /\ T(s)' = T(s) /\ form'[s] = form[s]
    BY <1>1, <1>5 DEF NasibSah, Dibuka, Dimulai, Diteruskan, Berakhir, Berjalan, Langkah, T
  <2>2. w.t = T(s) /\ w.siapa = form[s].username
    BY <1>2, <1>5, <2>1 DEF JejakTumbuh, JejakSkrip
  <2>3. w \in jejak => pc[s] = "hapus_user" /\ w.tabel = "pemakaian"
    BY <1>5, <2>1 DEF JejakSkrip
  <2>4. CASE pc'[s] = "log" BY <1>5, <2>1, <2>2, <2>4
  <2>5. CASE AnakTerhapus(s)
    <3>1. w \notin jejak BY <2>3, <2>5 DEF AnakTerhapus
    <3>2. w.tabel = "pemakaian" BY <3>1, <2>5 DEF AnakTerhapus, Tulis
    <3> QED BY <1>5, <2>1, <2>2, <2>5, <3>2 DEF AnakTerhapus
  <2>6. CASE Sunyi(s)
    BY <1>5, <2>1, <2>2, <2>3, <2>6 DEF Sunyi, JejakTumbuh
  <2> QED BY <1>2, <2>1, <2>4, <2>5, <2>6
          DEF NasibJejak, Tertulis, Terdaftar, BuktiLuput, CatatLog, Mati
<1> QED BY <1>3, <1>4, <1>5

\* Only a write leads to catat_log, or an upload_bukti that hit no row: its form
\* was for a row of its account, so the row is gone.
LEMMA LogTetap ==
    ASSUME Kerja, NomorLama, FormBukti, LogBerdasar, NEW s \in Sesi, Langkahi(s)
    PROVE  LogBerdasar'
<1>1. NasibSah(s) /\ \A q \in Sesi \ {s} : SesiUtuh(q) BY NasibLangkah DEF Langkahi
<1>2. JejakTumbuh(s) /\ NasibJejak(s) BY TumbuhLangkah, JejakLangkah
<1> SUFFICES ASSUME NEW q \in Sesi, pc'[q] = "log"
             PROVE  \/ \E w \in jejak' : w.req = rek'[q].req /\ w.t = T(q)'
                    \/ T(q)' = "upload_bukti" /\ form'[q].no \notin DOMAIN pemakaian'
  BY DEF LogBerdasar
<1>3. CASE q # s
  <2>1. rek'[q].req = rek[q].req /\ T(q)' = T(q) /\ pc[q] = "log" /\ form'[q] = form[q]
    BY <1>1, <1>3 DEF SesiUtuh, T
  <2>2. form[q].no <= no_akhir BY DEF NomorLama
  <2>3. form[q].no \notin DOMAIN pemakaian => form[q].no \notin DOMAIN pemakaian'
    BY <2>2, NomorNaik
  <2> QED BY <1>2, <2>1, <2>3 DEF LogBerdasar, JejakTumbuh
<1>4. CASE q = s
  <2>1. Diteruskan(s)
    BY <1>1, <1>4 DEF NasibSah, Dibuka, Dimulai, Berakhir, LangkahAwal, Langkah
  <2>2. rek'[s].req = rek[s].req /\ T(s)' = T(s) /\ form'[s] = form[s]
    BY <2>1 DEF Diteruskan, T
  <2>3. Tertulis(s) \/ BuktiLuput(s)
    BY <1>2, <1>4, <2>2 DEF NasibJejak, Sunyi, AnakTerhapus, Terdaftar, CatatLog,
       Mati, Selesai, Pindah, Kerja, TypeOK, TipeSesi
  <2>4. CASE Tertulis(s)
    <3>1. PICK tb : Tulis(s, tb) BY <2>4 DEF Tertulis
    <3> DEFINE w == [req |-> rek[s].req, t |-> T(s), tabel |-> tb,
                     siapa |-> form[s].username]
    <3>2. w \in jejak' /\ w.req = rek[s].req /\ w.t = T(s) BY <3>1 DEF Tulis
    <3> QED BY <1>4, <2>2, <3>2
  <2>5. CASE BuktiLuput(s)
    BY <1>4, <2>2, <2>5 DEF BuktiLuput, FormBukti
  <2> QED BY <2>3, <2>4, <2>5
<1> QED BY <1>3, <1>4

\* An account goes only by the second statement of user_hapus, which writes.
LEMMA AkunHilang ==
    ASSUME Kerja, NEW s \in Sesi, Langkahi(s), NEW u \in DOMAIN login, u \notin DOMAIN login'
    PROVE  u = form[s].username /\ T(s) = "user_hapus" /\ Tulis(s, "login")
<1>1. login' # login OBVIOUS
<1>2. UNCHANGED basis => login' = login BY DEF basis
<1>3. JalanMeter(s) => login' = login
  BY <1>2 DEF JalanMeter, CekUmur, BacaNoKeUser, BacaTipe, BacaKd, BacaHarga, CekBulan, Baca,
     SisipMeter, UbahMeter, HapusMeter
<1>4. JalanTarif(s) \/ JalanBukti(s) \/ CatatLog(s) => login' = login
  BY <1>2 DEF JalanTarif, CekTarif, SisipTarif, IdGanda, UbahTarif, HapusTarif, JalanBukti,
     TolakBerkas, PindahBerkas, UbahBukti, CatatLog
<1>5. JalanUser(s) BY <1>1, <1>2, <1>3, <1>4, TanpaTulis DEF Langkahi, Jalan
<1>6. ~(SisipUser(s) \/ SisipDaftar(s) \/ UbahUser(s) \/ UbahProfil(s))
  BY DEF SisipUser, SisipDaftar, SisipNama, Sisip, UbahUser, UbahProfil, UbahLogin
<1>7. CekUser(s) \/ CekDaftar(s) \/ KunciGanda(s) \/ HapusAnak(s) => login' = login
  BY <1>2 DEF CekUser, CekDaftar, CekNama, KunciGanda, HapusAnak
<1>8. HapusUser(s) BY <1>1, <1>5, <1>6, <1>7 DEF JalanUser
<1>9. T(s) = "user_hapus"
  BY <1>8, DiPenangan DEF HapusUser, Berjalan, Langkah, Penangan
<1>10. u = form[s].username BY <1>8 DEF HapusUser, Buang
<1> QED BY <1>8, <1>9, <1>10 DEF HapusUser, TulisBila

\* A form to delete an account shows one that is there; who takes it away has
\* written that.
LEMMA FormHapusTetap ==
    ASSUME Kerja, FormHapus, NEW s \in Sesi, Langkahi(s) PROVE FormHapus'
<1>1. jejak \subseteq jejak' BY TumbuhLangkah DEF JejakTumbuh
<1> SUFFICES ASSUME NEW q \in Sesi, T(q)' = "user_hapus", form'[q].username \notin DOMAIN login'
             PROVE  \E v \in jejak' : /\ v.t = "user_hapus" /\ v.tabel = "login"
                                      /\ v.siapa = form'[q].username
  BY DEF FormHapus
<1>2. CASE form'[q] = form[q]
  <2> DEFINE u == form[q].username
  <2>1. CASE u \in DOMAIN login
    <3>1. u = form[s].username /\ T(s) = "user_hapus" /\ Tulis(s, "login")
      BY <1>2, <2>1, AkunHilang
    <3> DEFINE v == [req |-> rek[s].req, t |-> T(s), tabel |-> "login",
                     siapa |-> form[s].username]
    <3>2. v \in jejak' /\ v.t = T(s) /\ v.tabel = "login" /\ v.siapa = form[s].username
      BY <3>1 DEF Tulis
    <3> QED BY <1>2, <3>1, <3>2
  <2>2. CASE u \notin DOMAIN login BY <1>1, <1>2, <2>2 DEF FormHapus, T
  <2> QED BY <2>1, <2>2
<1>3. CASE Dibuka(q) BY <1>3 DEF Dibuka, T
<1> QED BY <1>2, <1>3, NasibLangkah
        DEF NasibSah, Langkahi, SesiUtuh, Dimulai, Diteruskan, Berakhir

\* catat_log notes what its script has written, or a row that is gone for good.
LEMMA BenarTetap ==
    ASSUME Kerja, NomorLama, NomorReq, LogBerdasar, NomorEntri, AuditBenar,
           NEW s \in Sesi, Langkahi(s)
    PROVE  AuditBenar' /\ NomorEntri'
<1>1. JejakTumbuh(s) /\ NasibJejak(s) BY TumbuhLangkah, JejakLangkah
<1>2. /\ no_akhir \in Nat /\ no_akhir' \in Nat /\ no_akhir' >= no_akhir
      /\ \A n \in DOMAIN pemakaian' : n <= no_akhir => n \in DOMAIN pemakaian
  BY NomorNaik DEF Kerja, TypeOK, TipeBasis
<1> SUFFICES ASSUME NEW e \in audit_log'
             PROVE  /\ \/ \E w \in jejak' : w.req = e.req /\ w.t = e.aksi
                       \/ e.aksi = "upload_bukti" /\ e.no \notin DOMAIN pemakaian'
                    /\ e.req \notin gagal'
                    /\ e.no <= no_akhir'
  BY DEF AuditBenar, NomorEntri
<1>3. CASE e \in audit_log
  <2>1. e.req \notin gagal'
    BY <1>1, <1>3 DEF JejakTumbuh, NomorReq, AuditBenar
  <2>2. e.no <= no_akhir /\ e.no \in Nat
    BY <1>3 DEF NomorEntri, Kerja, TypeOK, TipeBasis, EntriLog
  <2>3. e.no <= no_akhir' BY <1>2, <2>2
  <2> QED BY <1>1, <1>2, <1>3, <2>1, <2>2, <2>3 DEF JejakTumbuh, AuditBenar
<1>4. CASE e \notin audit_log
  <2>1. CatatLog(s)
    BY <1>1, <1>4
       DEF NasibJejak, Sunyi, Tertulis, AnakTerhapus, Terdaftar, BuktiLuput, Mati
  <2>2. e.req = rek[s].req /\ e.aksi = T(s) /\ e.no = form[s].no BY <1>4, <2>1 DEF CatatLog
  <2>3. /\ pc[s] = "log" /\ Berjalan(s) /\ UNCHANGED <<jejak, gagal, pemakaian, no_akhir>>
    BY <2>1 DEF CatatLog, TetapSesi, Berjalan, Langkah
  <2> QED BY <2>2, <2>3 DEF LogBerdasar, NomorReq, NomorLama
<1> QED BY <1>3, <1>4

\* A script that has written ends by catat_log, or dies, or has found no account.
LEMMA LengkapTetap ==
    ASSUME Kerja, NomorReq, JejakSkrip, FormHapus, AuditLengkap,
           NEW s \in Sesi, Langkahi(s)
    PROVE  AuditLengkap'
<1>1. NasibSah(s) /\ \A q \in Sesi \ {s} : SesiUtuh(q) BY NasibLangkah DEF Langkahi
<1>2. JejakTumbuh(s) /\ NasibJejak(s) BY TumbuhLangkah, JejakLangkah
<1> SUFFICES ASSUME NEW w \in jejak', w.t # "register_warga", Terjawab(w.req)',
                    w.req \notin gagal', ~AkunSudahHilang(w)'
             PROVE  \E e \in audit_log' : e.req = w.req /\ e.aksi = w.t
  BY DEF AuditLengkap, Tercatat
<1>3. CASE ~(Berjalan(s) /\ w.req = rek[s].req)
  <2>1. w \in jejak /\ w.req \notin gagal BY <1>2, <1>3 DEF JejakTumbuh
  <2>2. Terjawab(w.req)
    <3> SUFFICES ASSUME NEW q \in Sesi, Berjalan(q), rek[q].req = w.req PROVE FALSE
      BY DEF Terjawab
    <3>1. q # s BY <1>3
    <3>2. Berjalan(q)' /\ rek'[q].req = rek[q].req BY <1>1, <3>1 DEF SesiUtuh, Berjalan
    <3> QED BY <3>2 DEF Terjawab
  <2>3. ~AkunSudahHilang(w)
    <3>1. \A v \in jejak' : v.req = w.req => v \in jejak BY <1>2, <1>3 DEF JejakTumbuh
    <3> QED BY <1>2, <3>1 DEF AkunSudahHilang, JejakTumbuh
  <2>4. Tercatat(w) BY <2>1, <2>2, <2>3 DEF AuditLengkap
  <2> QED BY <1>2, <2>4 DEF Tercatat, JejakTumbuh
<1>4. CASE Berjalan(s) /\ w.req = rek[s].req
  <2>1. Berakhir(s)
    <3>1. ~Diteruskan(s)
      BY <1>4 DEF Diteruskan, Terjawab, Berjalan
    <3> QED BY <1>1, <1>4, <3>1 DEF NasibSah, Dibuka, Dimulai
  <2>2. pc'[s] = "form" BY <2>1 DEF Berakhir
  <2>3. w.t = T(s) BY <1>2, <1>4 DEF JejakTumbuh, JejakSkrip
  <2>4. ~Mati(s) BY <1>4 DEF Mati
  <2>5. ~Sunyi(s)
    <3> SUFFICES ASSUME Sunyi(s) PROVE FALSE
      OBVIOUS
    <3>1. /\ jejak' = jejak /\ pc[s] # "log"
          /\ pc[s] = "hapus_user" => form[s].username \notin DOMAIN login
      BY DEF Sunyi
    <3>2. pc[s] = "hapus_user" /\ w.tabel = "pemakaian"
      BY <1>4, <3>1 DEF JejakSkrip
    <3>3. w.t = "user_hapus" BY <1>4, <2>3, <3>2, DiPenangan DEF Penangan
    <3>4. \A v \in jejak' : v.req = w.req => v.tabel = "pemakaian"
      BY <1>4, <3>1, <3>2 DEF JejakSkrip
    <3>5. w.siapa = form[s].username BY <1>4, <3>1 DEF JejakSkrip
    <3>6. PICK v \in jejak : /\ v.t = "user_hapus" /\ v.tabel = "login"
                             /\ v.siapa = form[s].username
      BY <2>3, <3>1, <3>2, <3>3 DEF FormHapus
    <3>7. v.req # w.req BY <3>1, <3>4, <3>6
    <3> QED BY <3>1, <3>2, <3>3, <3>4, <3>5, <3>6, <3>7 DEF AkunSudahHilang
  <2>6. CatatLog(s)
    BY <1>2, <2>2, <2>3, <2>4, <2>5
       DEF NasibJejak, Tertulis, AnakTerhapus, Terdaftar, BuktiLuput
  <2> DEFINE e == [req |-> rek[s].req, aktor |-> Aktor(s), level |-> rek[s].level,
                   aksi |-> T(s), no |-> form[s].no]
  <2>7. e \in audit_log' /\ e.req = rek[s].req /\ e.aksi = T(s) BY <2>6 DEF CatatLog
  <2> QED BY <1>4, <2>3, <2>7
<1> QED BY <1>3, <1>4

\* Every step keeps the invariant of the history.
LEMMA LangkahPenelusuran == Penelusuran /\ [Next]_vars => Penelusuran'
<1> SUFFICES ASSUME Penelusuran, [Next]_vars PROVE Penelusuran'
  OBVIOUS
<1>1. Catatan /\ Catatan' /\ Kerja BY LangkahCatatan DEF Penelusuran, Catatan
<1>2. ASSUME NEW s \in Sesi, Langkahi(s) PROVE Penelusuran'
  BY <1>1, <1>2, ReqTetap, SkripTetap, LogTetap, FormHapusTetap, BenarTetap, LengkapTetap
     DEF Penelusuran, Catatan
<1>3. CASE UNCHANGED <<basis, pc, form, rek, nReq, jejak, gagal>>
  <2>1. UNCHANGED <<login, pemakaian, no_akhir, audit_log>> BY <1>3 DEF basis
  <2> QED BY <1>1, <1>3, <2>1 DEF Penelusuran, NomorReq, JejakSkrip, LogBerdasar, NomorEntri,
     FormHapus, AuditBenar, AuditLengkap, Tercatat, Terjawab, AkunSudahHilang, Berjalan, T
<1> QED BY <1>1, <1>2, <1>3, LangkahSalahSatu

-----------------------------------------------------------------------------
\* An entry of the audit trail stands for a write its request has committed, or is
\* one of upload_bukti, which does not look at what its UPDATE has changed (login/
\* index.php:587-592), for a row that is gone for good; and no request that died
\* has an entry: for any number of sessions, and whichever of them die between
\* two statements.
THEOREM AuditTidakBohong == Spec => []AuditBenar
<1>1. Penelusuran => AuditBenar BY DEF Penelusuran
<1> QED BY <1>1, InitPenelusuran, LangkahPenelusuran, PTL DEF Spec

\* A write of a request that has been answered is in the audit trail, unless it is
\* of register_warga, which has no catat_log, or deletes the rows of an account
\* that another user_hapus has deleted (login/index.php:364-380).
THEOREM AuditTidakLupa == Spec => []AuditLengkap
<1>1. Penelusuran => AuditLengkap BY DEF Penelusuran
<1> QED BY <1>1, InitPenelusuran, LangkahPenelusuran, PTL DEF Spec
=============================================================================
