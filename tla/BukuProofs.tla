------------------------------ MODULE BukuProofs ------------------------------
(* One row per customer, month and recording session: the proof that the        *)
(* SELECT before the INSERT of meter_add is enough within a session; and what   *)
(* any step does to the session that takes it and to the others.                *)
EXTENDS SiAirProofs

\* The steps of meter_add between the reading of the clock and the INSERT.
MenujuSisip == {"cek_bulan", "sisip_meter"}

\* What a step of s leaves alone: the clock and the other sessions.
HanyaSesi(s) ==
    /\ jam' = jam
    /\ \A q \in Sesi \ {s} : pc'[q] = pc[q] /\ form'[q] = form[q] /\ rek'[q] = rek[q]

\* No row is added, and the rows that stay keep their customer, day and recorder.
BarisSusut ==
    /\ DOMAIN pemakaian' \subseteq DOMAIN pemakaian
    /\ \A n \in DOMAIN pemakaian' :
          /\ pemakaian'[n].username = pemakaian[n].username
          /\ pemakaian'[n].tgl = pemakaian[n].tgl
          /\ pemakaian'[n].oleh = pemakaian[n].oleh

Biasa(s) == HanyaSesi(s) /\ pc'[s] \notin MenujuSisip /\ BarisSusut

-----------------------------------------------------------------------------
(* Every step but three is Biasa *)

LEMMA BasisSusut == UNCHANGED basis => BarisSusut
BY DEF basis, BarisSusut

\* The helpers that end a step.
LEMMA LanjutHanya ==
    ASSUME Kerja, NEW s \in Sesi, NEW l \in Keadaan, Lanjut(s, l),
           UNCHANGED <<jam, form>>
    PROVE  HanyaSesi(s) /\ pc'[s] = l
BY DEF Kerja, TypeOK, TipeSesi, Lanjut, Pindah, HanyaSesi

LEMMA SelesaiHanya ==
    ASSUME Kerja, NEW s \in Sesi, Selesai(s), UNCHANGED <<jam, form>>
    PROVE  HanyaSesi(s) /\ pc'[s] = "form"
BY DEF Kerja, TypeOK, TipeSesi, Selesai, Pindah, HanyaSesi

LEMMA CatatHanya ==
    ASSUME Kerja, NEW s \in Sesi, NEW b, Catat(s, b), UNCHANGED <<jam, form>>
    PROVE  HanyaSesi(s) /\ pc'[s] \in {"form", "log"}
BY LanjutHanya, SelesaiHanya DEF Catat, Keadaan, Langkah

\* Pages.
LEMMA PasangBiasa ==
    ASSUME Kerja, NEW s \in Sesi, NEW f, Pasang(s, f) PROVE Biasa(s)
<1>1. HanyaSesi(s) /\ pc'[s] = "form"
  BY DEF Kerja, TypeOK, TipeSesi, Pasang, Lanjut, Pindah, HanyaSesi
<1>2. BarisSusut BY BasisSusut DEF Pasang
<1> QED BY <1>1, <1>2 DEF Biasa, MenujuSisip

LEMMA TutupBiasa ==
    ASSUME Kerja, NEW s \in Sesi, NEW l \in {"siap", "keluar"}, Lanjut(s, l),
           form' = [form EXCEPT ![s] = FormKosong], UNCHANGED <<jam, basis>>
    PROVE  Biasa(s)
<1>1. HanyaSesi(s) /\ pc'[s] = l
  BY DEF Kerja, TypeOK, TipeSesi, Lanjut, Pindah, HanyaSesi
<1>2. BarisSusut BY BasisSusut
<1> QED BY <1>1, <1>2 DEF Biasa, MenujuSisip

LEMMA HalamanBiasa ==
    ASSUME Kerja, NEW s \in Sesi, Halaman(s) PROVE Biasa(s)
<1>1. CASE HalamanMeter(s)
  BY <1>1, PasangBiasa DEF HalamanMeter, BukaMeterAdd, BukaMeterEdit, BukaMeterHapus
<1>2. CASE HalamanUser(s)
  BY <1>2, PasangBiasa DEF HalamanUser, BukaUserAdd, BukaUserEdit, BukaUserHapus,
     BukaUser, BukaProfil, BukaDaftar
<1>3. CASE HalamanTarif(s)
  BY <1>3, PasangBiasa DEF HalamanTarif, BukaTarifAdd, BukaTarifEdit, BukaTarifHapus,
     BukaTarif
<1>4. CASE BukaBukti(s) BY <1>4, PasangBiasa DEF BukaBukti
<1>5. CASE Pental(s) BY <1>5, TutupBiasa DEF Pental
<1> QED BY <1>1, <1>2, <1>3, <1>4, <1>5 DEF Halaman

\* Admissions.
LEMMA MulaiBiasa ==
    ASSUME Kerja, NEW s \in Sesi, NEW r, NEW l \in Langkah \ MenujuSisip,
           MulaiDengan(s, r, l)
    PROVE  Biasa(s)
<1>1. HanyaSesi(s) /\ pc'[s] = l
  BY DEF Kerja, TypeOK, TipeSesi, MulaiDengan, Pindah, HanyaSesi
<1>2. BarisSusut BY BasisSusut DEF MulaiDengan
<1> QED BY <1>1, <1>2 DEF Biasa

LEMMA AjukanBiasa ==
    ASSUME Kerja, NEW s \in Sesi, Ajukan(s) PROVE Biasa(s)
<1>0. {"tipe", "cek_umur", "cek_user", "ubah_user", "ubah_profil", "hapus_anak",
       "cek_daftar", "cek_tarif", "ubah_tarif", "hapus_tarif", "pindah_berkas"}
      \subseteq Langkah \ MenujuSisip
  BY DEF Langkah, MenujuSisip
<1>1. CASE AjukanMeter(s)
  BY <1>0, <1>1, MulaiBiasa DEF AjukanMeter, TerimaMeterAdd, TerimaMeterEdit,
     TerimaMeterHapus, TerimaMeter
<1>2. CASE AjukanUser(s)
  BY <1>0, <1>2, MulaiBiasa DEF AjukanUser, TerimaUserAdd, TerimaUserEdit, TerimaUserIsian,
     TerimaProfil, TerimaUserHapus, TerimaDaftar
<1>3. CASE AjukanTarif(s)
  BY <1>0, <1>3, MulaiBiasa DEF AjukanTarif, TerimaTarifAdd, TerimaTarifEdit,
     TerimaTarifHapus, TerimaTarif
<1>4. CASE TerimaBukti(s) BY <1>0, <1>4, MulaiBiasa DEF TerimaBukti
<1>5. CASE Tolak(s) BY <1>5, TutupBiasa DEF Tolak
<1> QED BY <1>1, <1>2, <1>3, <1>4, <1>5 DEF Ajukan

\* A statement that only reads.
LEMMA BacaBiasa ==
    ASSUME Kerja, NEW s \in Sesi, NEW r, NEW l \in Langkah \ MenujuSisip, Baca(s, r, l)
    PROVE  Biasa(s)
<1>1. HanyaSesi(s) /\ pc'[s] = l
  BY DEF Kerja, TypeOK, TipeSesi, Baca, Pindah, TetapSesi, HanyaSesi
<1>2. BarisSusut BY BasisSusut DEF Baca
<1> QED BY <1>1, <1>2 DEF Biasa

LEMMA SelesaiBiasa ==
    ASSUME Kerja, NEW s \in Sesi, Selesai(s), UNCHANGED <<jam, form>>, BarisSusut
    PROVE  Biasa(s)
BY SelesaiHanya DEF Biasa, MenujuSisip

LEMMA LanjutBiasa ==
    ASSUME Kerja, NEW s \in Sesi, NEW l \in Langkah \ MenujuSisip, Lanjut(s, l),
           UNCHANGED <<jam, form>>, BarisSusut
    PROVE  Biasa(s)
BY LanjutHanya DEF Biasa, Keadaan

LEMMA CatatBiasa ==
    ASSUME Kerja, NEW s \in Sesi, NEW b, Catat(s, b), UNCHANGED <<jam, form>>, BarisSusut
    PROVE  Biasa(s)
BY CatatHanya DEF Biasa, MenujuSisip

\* The statements of the meters but BacaHarga, CekBulan and SisipMeter.
LEMMA MeterBiasa ==
    ASSUME Kerja, NEW s \in Sesi,
           \/ CekUmur(s) \/ BacaNoKeUser(s) \/ BacaTipe(s) \/ BacaKd(s)
           \/ UbahMeter(s) \/ HapusMeter(s)
    PROVE  Biasa(s)
<1>0. {"tipe", "harga", "kd", "no_user", "hapus_meter"} \subseteq Langkah \ MenujuSisip
  BY DEF Langkah, MenujuSisip
<1>1. CASE CekUmur(s)
  <2>1. UNCHANGED <<jam, form>> /\ BarisSusut
    BY <1>1, BasisSusut DEF CekUmur, TetapSesi
  <2> QED BY <1>0, <1>1, <2>1, SelesaiBiasa, LanjutBiasa DEF CekUmur
<1>2. CASE BacaNoKeUser(s) BY <1>0, <1>2, BacaBiasa DEF BacaNoKeUser
<1>3. CASE BacaTipe(s)
  <2> DEFINE r == [rek[s] EXCEPT !.tipe = TipeUser(Pelanggan(s))]
             l == IF TipeUser(Pelanggan(s)) = Tiada THEN "harga" ELSE "kd"
  <2>1. Baca(s, r, l) BY <1>3 DEF BacaTipe
  <2>2. l \in {"harga", "kd"} OBVIOUS
  <2> HIDE DEF r, l
  <2> QED BY <1>0, <2>1, <2>2, BacaBiasa
<1>4. CASE BacaKd(s) BY <1>0, <1>4, BacaBiasa DEF BacaKd
<1>5. CASE UbahMeter(s)
  <2>1. UNCHANGED <<jam, form>> /\ \E b \in BOOLEAN : Catat(s, b)
    BY <1>5, UbahMeterRinci DEF TetapSesi
  <2>2. BarisSusut
    <3>1. CASE pemakaian' = pemakaian BY <3>1 DEF BarisSusut
    <3>2. CASE /\ form[s].no \in DOMAIN pemakaian /\ Pakai(s) >= 0
               /\ pemakaian' = [pemakaian EXCEPT
                                  ![form[s].no] = BarisUbah(s, pemakaian[form[s].no])]
      <4>1. \A r \in Baris : LET q == BarisUbah(s, r) IN
              q.username = r.username /\ q.tgl = r.tgl /\ q.oleh = r.oleh
        BY DEF BarisUbah, Baris
      <4>2. pemakaian \in [DOMAIN pemakaian -> Baris] BY DEF Kerja, TypeOK, TipeBasis
      <4> QED BY <3>2, <4>1, <4>2 DEF BarisSusut
    <3> QED BY <1>5, <3>1, <3>2, UbahMeterRinci
  <2> QED BY <2>1, <2>2, CatatBiasa
<1>6. CASE HapusMeter(s)
  <2>1. UNCHANGED <<jam, form>> /\ Catat(s, form[s].no \in DOMAIN pemakaian)
    BY <1>6 DEF HapusMeter, TetapSesi
  <2>2. BarisSusut BY <1>6 DEF HapusMeter, Buang, BarisSusut
  <2> QED BY <2>1, <2>2, CatatBiasa
<1> QED BY <1>1, <1>2, <1>3, <1>4, <1>5, <1>6

LEMMA UserBiasa ==
    ASSUME Kerja, NEW s \in Sesi, JalanUser(s) PROVE Biasa(s)
<1>0. {"sisip_user", "sisip_daftar", "hapus_user", "log"} \subseteq Langkah \ MenujuSisip
  BY DEF Langkah, MenujuSisip
<1>1. CASE CekUser(s) \/ CekDaftar(s)
  <2>1. PICK l \in {"sisip_user", "sisip_daftar"} : Selesai(s) \/ Lanjut(s, l)
    BY <1>1 DEF CekUser, CekDaftar, CekNama
  <2>2. UNCHANGED <<jam, form>> /\ BarisSusut
    BY <1>1, BasisSusut DEF CekUser, CekDaftar, CekNama, TetapSesi
  <2> QED BY <1>0, <2>1, <2>2, SelesaiBiasa, LanjutBiasa
<1>2. CASE SisipUser(s) \/ SisipDaftar(s)
  <2>1. UNCHANGED <<jam, form>> /\ BarisSusut
    BY <1>2 DEF SisipUser, SisipDaftar, SisipNama, TetapSesi, BarisSusut
  <2>2. Selesai(s) \/ Lanjut(s, "log") BY <1>2 DEF SisipUser, SisipDaftar
  <2> QED BY <1>0, <2>1, <2>2, SelesaiBiasa, LanjutBiasa
<1>3. CASE KunciGanda(s)
  BY <1>3, SelesaiBiasa, BasisSusut DEF KunciGanda
<1>4. CASE UbahUser(s) \/ UbahProfil(s)
  <2>1. PICK f : UbahLogin(s, f) BY <1>4 DEF UbahUser, UbahProfil
  <2>2. UNCHANGED <<jam, form>> /\ BarisSusut
    BY <2>1 DEF UbahLogin, TetapSesi, BarisSusut
  <2>3. PICK b \in BOOLEAN : Catat(s, b) BY <2>1 DEF UbahLogin
  <2> QED BY <2>2, <2>3, CatatBiasa
<1>5. CASE HapusAnak(s)
  <2>1. UNCHANGED <<jam, form>> /\ Lanjut(s, "hapus_user")
    BY <1>5 DEF HapusAnak, TetapSesi
  <2>2. BarisSusut BY <1>5 DEF HapusAnak, Buang, BarisSusut
  <2> QED BY <1>0, <2>1, <2>2, LanjutBiasa
<1>6. CASE HapusUser(s)
  <2>1. UNCHANGED <<jam, form>> /\ BarisSusut
    BY <1>6 DEF HapusUser, TetapSesi, BarisSusut
  <2>2. Catat(s, form[s].username \in DOMAIN login) BY <1>6 DEF HapusUser
  <2> QED BY <2>1, <2>2, CatatBiasa
<1> QED BY <1>1, <1>2, <1>3, <1>4, <1>5, <1>6 DEF JalanUser

LEMMA TarifBiasa ==
    ASSUME Kerja, NEW s \in Sesi, JalanTarif(s) PROVE Biasa(s)
<1>0. {"sisip_tarif", "log"} \subseteq Langkah \ MenujuSisip
  BY DEF Langkah, MenujuSisip
<1>1. UNCHANGED <<jam, form>> /\ BarisSusut
  BY DEF JalanTarif, CekTarif, SisipTarif, IdGanda, UbahTarif, HapusTarif, TetapSesi,
     BarisSusut, basis
<1>2. CASE CekTarif(s)
  BY <1>0, <1>1, <1>2, SelesaiBiasa, LanjutBiasa DEF CekTarif
<1>3. CASE SisipTarif(s) BY <1>0, <1>1, <1>3, LanjutBiasa DEF SisipTarif
<1>4. CASE IdGanda(s) BY <1>1, <1>4, SelesaiBiasa DEF IdGanda
<1>5. CASE UbahTarif(s) BY <1>1, <1>5, CatatBiasa DEF UbahTarif
<1>6. CASE HapusTarif(s) BY <1>1, <1>6, CatatBiasa DEF HapusTarif
<1> QED BY <1>2, <1>3, <1>4, <1>5, <1>6 DEF JalanTarif

LEMMA BuktiBiasa ==
    ASSUME Kerja, NEW s \in Sesi, JalanBukti(s) PROVE Biasa(s)
<1>0. {"ubah_bukti", "log"} \subseteq Langkah \ MenujuSisip
  BY DEF Langkah, MenujuSisip
<1>1. CASE TolakBerkas(s)
  BY <1>1, SelesaiBiasa, BasisSusut DEF TolakBerkas, TetapSesi
<1>2. CASE PindahBerkas(s)
  <2>1. HanyaSesi(s) /\ pc'[s] = "ubah_bukti"
    BY <1>2 DEF PindahBerkas, Kerja, TypeOK, TipeSesi, Pindah, TetapSesi, HanyaSesi
  <2>2. BarisSusut BY <1>2 DEF PindahBerkas, BarisSusut
  <2> QED BY <2>1, <2>2 DEF Biasa, MenujuSisip
<1>3. CASE UbahBukti(s)
  <2>1. UNCHANGED <<jam, form>> /\ Lanjut(s, "log")
    BY <1>3 DEF UbahBukti, TetapSesi
  <2>2. BarisSusut
    <3>1. pemakaian \in [DOMAIN pemakaian -> Baris] BY DEF Kerja, TypeOK, TipeBasis
    <3>2. CASE pemakaian' = pemakaian BY <3>2 DEF BarisSusut
    <3>3. CASE /\ form[s].no \in DOMAIN pemakaian
               /\ pemakaian' = [pemakaian EXCEPT ![form[s].no].bukti = rek[s].bukti]
      BY <3>1, <3>3 DEF BarisSusut, Baris
    <3> QED BY <1>3, <3>2, <3>3 DEF UbahBukti, BarisUser
  <2> QED BY <1>0, <2>1, <2>2, LanjutBiasa
<1> QED BY <1>1, <1>2, <1>3 DEF JalanBukti

LEMMA LogBiasa ==
    ASSUME Kerja, NEW s \in Sesi, CatatLog(s) PROVE Biasa(s)
BY SelesaiBiasa DEF CatatLog, TetapSesi, BarisSusut

LEMMA GagalBiasa ==
    ASSUME Kerja, NEW s \in Sesi, Gagal(s) PROVE Biasa(s)
BY SelesaiBiasa, BasisSusut DEF Gagal

-----------------------------------------------------------------------------
(* The invariant *)

\* What is inductive: the types and the control, no row of the future, the month
\* that is reserved, and the property itself.
Buku == IndInv /\ GandaBedaSesi

\* A step that is Biasa keeps the three parts about the ledger.
LEMMA BiasaBuku ==
    ASSUME Buku, Kerja', NEW s \in Sesi, Biasa(s) PROVE Buku'
<1>1. TglLewat'
  BY DEF Buku, IndInv, TglLewat, Biasa, HanyaSesi, BarisSusut
<1>2. GandaBedaSesi'
  BY DEF Buku, GandaBedaSesi, Bulan, Biasa, BarisSusut
<1>3. ASSUME NEW q \in Sesi, pc'[q] \in MenujuSisip
      PROVE  /\ q # s /\ pc'[q] = pc[q] /\ rek'[q] = rek[q] /\ form'[q] = form[q]
             /\ jam' = jam
  BY <1>3 DEF Biasa, HanyaSesi
<1>4. JagaBulan'
  <2> SUFFICES ASSUME NEW q \in Sesi, pc'[q] \in MenujuSisip PROVE JagaSesi(q)'
    BY DEF JagaBulan, JagaSesi, MenujuSisip
  <2>1. JagaSesi(q) BY DEF Buku, IndInv, JagaBulan
  <2>2. /\ pc'[q] = pc[q] /\ rek'[q] = rek[q] /\ form'[q] = form[q] /\ jam' = jam
    BY <1>3
  <2>3. \A n \in DOMAIN pemakaian' :
          /\ n \in DOMAIN pemakaian /\ Bulan(n)' = Bulan(n)
          /\ pemakaian'[n].oleh = pemakaian[n].oleh
          /\ pemakaian'[n].username = pemakaian[n].username
    BY DEF Bulan, Biasa, BarisSusut
  <2> QED BY <2>1, <2>2, <2>3 DEF JagaSesi, MenujuSisip
<1> QED BY <1>1, <1>2, <1>4 DEF Buku, IndInv, Kerja

\* The months of the ledger are those of the calendar.
LEMMA BulanNat ==
    ASSUME TypeOK
    PROVE  /\ \A n \in DOMAIN pemakaian : pemakaian[n].tgl \in Hari /\ Bulan(n) \in Nat
           /\ TglPHP[jam] \in Hari /\ TglDB[jam] \in Hari
           /\ BulanDari[TglPHP[jam]] \in Nat /\ BulanDari[TglDB[jam]] \in Nat
BY AsumsiWaktu DEF TypeOK, TipeBasis, TipeSesi, Baris, Bulan

\* With one calendar, no row is of a later month than the one PHP reads.
LEMMA BulanLewat ==
    ASSUME TypeOK, TglLewat, ZonaSama
    PROVE  \A n \in DOMAIN pemakaian : Bulan(n) <= BulanDari[TglPHP[jam]]
BY BulanNat, AsumsiWaktu DEF TglLewat, ZonaSama, Bulan, Monoton

\* A step that leaves the rows and the clock alone keeps TglLewat and
\* GandaBedaSesi, and the guard of every other session.
LEMMA BarisTetap ==
    ASSUME Buku, NEW s \in Sesi, HanyaSesi(s), pemakaian' = pemakaian
    PROVE  /\ TglLewat' /\ GandaBedaSesi'
           /\ \A q \in Sesi \ {s} : JagaSesi(q)'
<1>1. TglLewat' /\ GandaBedaSesi'
  BY DEF Buku, IndInv, TglLewat, GandaBedaSesi, Bulan, HanyaSesi
<1>2. ASSUME NEW q \in Sesi \ {s} PROVE JagaSesi(q)'
  <2>1. JagaSesi(q) BY DEF Buku, IndInv, JagaBulan
  <2>2. pc'[q] = pc[q] /\ rek'[q] = rek[q] /\ form'[q] = form[q] /\ jam' = jam
    BY DEF HanyaSesi
  <2> QED BY <2>1, <2>2 DEF JagaSesi, Bulan
<1> QED BY <1>1, <1>2

\* BacaHarga reads the month: no row is of a later one.
LEMMA BacaHargaBuku ==
    ASSUME Buku, Kerja', ZonaSama, NEW s \in Sesi, BacaHarga(s) PROVE Buku'
<1> DEFINE r == [rek[s] EXCEPT !.harga = IdTarifKeTarif(rek[s].kd), !.bulan = BulanIni(s)]
<1>1. TypeOK /\ TglLewat BY DEF Buku, IndInv
<1>2. /\ rek' = [rek EXCEPT ![s] = r] /\ TetapSesi /\ pemakaian' = pemakaian
      /\ Pindah(s, IF T(s) = "meter_add" THEN "cek_bulan" ELSE "ubah_meter")
  BY DEF BacaHarga, Baca, basis
<1>3. HanyaSesi(s)
  BY <1>1, <1>2 DEF TypeOK, TipeSesi, Pindah, TetapSesi, HanyaSesi
<1>4. rek[s] \in Rek /\ r.bulan = BulanIni(s)
  BY <1>1 DEF TypeOK, TipeSesi, Rek
<1> HIDE DEF r
<1>5. JagaSesi(s)'
  <2>1. CASE T(s) = "meter_add"
    <3>1. pc'[s] = "cek_bulan" /\ rek'[s].bulan = BulanDari[TglPHP[jam]] /\ jam' = jam
      BY <1>1, <1>2, <1>4, <2>1 DEF TypeOK, TipeSesi, Pindah, BulanIni, TetapSesi
    <3>2. \A n \in DOMAIN pemakaian' : Bulan(n)' <= rek'[s].bulan
      BY <1>1, <1>2, <3>1, BulanLewat DEF Bulan
    <3>3. rek'[s].bulan <= BulanDari[TglPHP[jam']] BY <1>1, <3>1, BulanNat
    <3> QED BY <3>1, <3>2, <3>3 DEF JagaSesi
  <2>2. CASE T(s) # "meter_add"
    <3>1. pc'[s] = "ubah_meter"
      BY <1>1, <1>2, <2>2 DEF TypeOK, TipeSesi, Pindah
    <3> QED BY <3>1 DEF JagaSesi
  <2> QED BY <2>1, <2>2
<1> QED BY <1>2, <1>3, <1>5, BarisTetap DEF Buku, IndInv, JagaBulan, Kerja

\* CekBulan goes on to the INSERT only when no row of the customer has the month.
LEMMA CekBulanBuku ==
    ASSUME Buku, Kerja', NEW s \in Sesi, CekBulan(s) PROVE Buku'
<1>1. Kerja BY DEF Buku, IndInv, Kerja
<1>2. UNCHANGED <<jam, form>> /\ pemakaian' = pemakaian /\ pc[s] = "cek_bulan"
  BY DEF CekBulan, TetapSesi, basis
<1>3. CASE Selesai(s)
  <2>1. BarisSusut BY <1>2 DEF BarisSusut
  <2> QED BY <1>1, <1>2, <1>3, <2>1, SelesaiBiasa, BiasaBuku
<1>4. CASE Lanjut(s, "sisip_meter") /\ ~TercatatBulan(form[s].username, rek[s].bulan)
  <2>1. HanyaSesi(s) /\ rek' = rek
    BY <1>1, <1>2, <1>4, LanjutHanya DEF Lanjut, Keadaan, Langkah
  <2>2. \A n \in DOMAIN pemakaian :
          pemakaian[n].username = form[s].username => Bulan(n) # rek[s].bulan
    BY <1>4 DEF TercatatBulan, BarisUser, Bulan
  <2>3. JagaSesi(s) BY DEF Buku, IndInv, JagaBulan
  <2>4. JagaSesi(s)' BY <1>2, <2>1, <2>2, <2>3 DEF JagaSesi, Bulan
  <2> QED BY <1>2, <2>1, <2>4, BarisTetap DEF Buku, IndInv, JagaBulan, Kerja
<1> QED BY <1>3, <1>4 DEF CekBulan

\* The row of SisipMeter is of the month of the clock, and every row the session
\* recorded for that customer is of an earlier one.
LEMMA SisipMeterBuku ==
    ASSUME Buku, Kerja', ZonaSama, NEW s \in Sesi, SisipMeter(s) PROVE Buku'
<1>1. TypeOK /\ TglLewat /\ GandaBedaSesi /\ Kerja /\ JagaSesi(s) /\ pc[s] = "sisip_meter"
  BY DEF Buku, IndInv, Kerja, JagaBulan, SisipMeter
<1>. PICK baru : baru = no_akhir + 1
  OBVIOUS
<1> DEFINE b == BarisBaru(s)
<1>2. /\ pemakaian' = Sisip(pemakaian, baru, b) /\ Lanjut(s, "log")
      /\ UNCHANGED <<jam, form>>
  BY DEF SisipMeter, TetapSesi
<1>3. /\ b.username = form[s].username /\ b.tgl = TglDB[jam] /\ b.oleh = s
  BY DEF BarisBaru
<1> HIDE DEF b
<1>4. /\ baru \notin DOMAIN pemakaian
      /\ DOMAIN pemakaian' = DOMAIN pemakaian \cup {baru} /\ pemakaian'[baru] = b
      /\ \A n \in DOMAIN pemakaian : pemakaian'[n] = pemakaian[n]
  BY <1>1, <1>2 DEF Sisip, TypeOK, TipeBasis
<1>5. HanyaSesi(s) /\ pc'[s] = "log"
  BY <1>1, <1>2, LanjutHanya DEF Keadaan, Langkah
<1>6. TglLewat'
  <2>1. TglDB[jam] \in Hari BY <1>1, BulanNat
  <2> QED BY <1>1, <1>2, <1>3, <1>4, <2>1 DEF TglLewat, Hari
<1>7. /\ Bulan(baru)' = BulanDari[TglPHP[jam]]
      /\ \A n \in DOMAIN pemakaian : Bulan(n)' = Bulan(n)
  BY <1>3, <1>4 DEF Bulan, ZonaSama
<1>8. ASSUME NEW n \in DOMAIN pemakaian,
             pemakaian[n].username = b.username, pemakaian[n].oleh = s
      PROVE  Bulan(n) # BulanDari[TglPHP[jam]]
  <2>1. /\ Bulan(n) <= rek[s].bulan /\ Bulan(n) # rek[s].bulan
        /\ rek[s].bulan <= BulanDari[TglPHP[jam]]
    BY <1>1, <1>3, <1>8 DEF JagaSesi
  <2>2. Bulan(n) \in Nat /\ rek[s].bulan \in Nat /\ BulanDari[TglPHP[jam]] \in Nat
    BY <1>1, BulanNat DEF TypeOK, TipeSesi, Rek
  <2> QED BY <2>1, <2>2
<1>9. GandaBedaSesi'
  <2> SUFFICES ASSUME NEW m \in DOMAIN pemakaian', NEW n \in DOMAIN pemakaian',
                      pemakaian'[m].username = pemakaian'[n].username,
                      Bulan(m)' = Bulan(n)',
                      pemakaian'[m].oleh = pemakaian'[n].oleh,
                      pemakaian'[m].oleh # Tiada
               PROVE  m = n
    BY DEF GandaBedaSesi
  <2>1. CASE m \in DOMAIN pemakaian /\ n \in DOMAIN pemakaian
    BY <1>1, <1>4, <1>7, <2>1 DEF GandaBedaSesi
  <2>2. CASE m = baru /\ n \in DOMAIN pemakaian
    BY <1>3, <1>4, <1>7, <1>8, <2>2
  <2>3. CASE n = baru /\ m \in DOMAIN pemakaian
    BY <1>3, <1>4, <1>7, <1>8, <2>3
  <2> QED BY <1>4, <2>1, <2>2, <2>3
<1>10. ASSUME NEW q \in Sesi PROVE JagaSesi(q)'
  <2>1. CASE q = s BY <1>5, <2>1 DEF JagaSesi
  <2>2. CASE q # s
    <3>1. JagaSesi(q) BY DEF Buku, IndInv, JagaBulan
    <3>2. pc'[q] = pc[q] /\ rek'[q] = rek[q] /\ form'[q] = form[q] /\ jam' = jam
      BY <1>5, <2>2 DEF HanyaSesi
    <3>3. \A n \in DOMAIN pemakaian' : pemakaian'[n].oleh = q =>
            /\ n \in DOMAIN pemakaian /\ Bulan(n)' = Bulan(n)
            /\ pemakaian'[n] = pemakaian[n]
      BY <1>3, <1>4, <1>7, <2>2
    <3> QED BY <3>1, <3>2, <3>3 DEF JagaSesi
  <2> QED BY <2>1, <2>2
<1> QED BY <1>6, <1>9, <1>10 DEF Buku, IndInv, JagaBulan, Kerja

\* Time passes: the calendars do not go back.
LEMMA DetakBuku ==
    ASSUME Buku, Kerja', Detak PROVE Buku'
<1>1. TypeOK /\ TglLewat /\ GandaBedaSesi /\ JagaBulan
  BY DEF Buku, IndInv
<1>2. /\ jam' = jam + 1 /\ jam' \in Waktu /\ jam \in Waktu
      /\ UNCHANGED <<pemakaian, pc, form, rek>>
  BY <1>1 DEF Detak, basis, Kerja, TypeOK, TipeSesi
<1>3. TglDB[jam] <= TglDB[jam'] /\ BulanDari[TglPHP[jam]] <= BulanDari[TglPHP[jam']]
  <2>1. jam <= jam' BY <1>2 DEF Waktu
  <2>2. TglPHP[jam] \in Hari /\ TglPHP[jam'] \in Hari /\ TglPHP[jam] <= TglPHP[jam']
    BY <1>2, <2>1, AsumsiWaktu DEF Monoton
  <2> QED BY <1>2, <2>1, <2>2, AsumsiWaktu DEF Monoton
<1>4. TglLewat'
  <2>1. /\ TglDB[jam'] \in Int /\ TglDB[jam] \in Int
        /\ \A n \in DOMAIN pemakaian : pemakaian[n].tgl \in Int
    BY <1>1, <1>2, BulanNat, AsumsiWaktu DEF Hari
  <2> QED BY <1>1, <1>2, <1>3, <2>1 DEF TglLewat
<1>5. GandaBedaSesi' BY <1>1, <1>2 DEF GandaBedaSesi, Bulan
<1>6. ASSUME NEW q \in Sesi PROVE JagaSesi(q)'
  <2>1. JagaSesi(q) BY <1>1 DEF JagaBulan
  <2>2. /\ rek[q].bulan \in Nat /\ BulanDari[TglPHP[jam]] \in Nat
        /\ BulanDari[TglPHP[jam']] \in Nat
    BY <1>1, <1>2, AsumsiWaktu DEF TypeOK, TipeSesi, Rek
  <2> QED BY <1>2, <1>3, <2>1, <2>2 DEF JagaSesi, Bulan
<1> QED BY <1>4, <1>5, <1>6 DEF Buku, IndInv, JagaBulan, Kerja

\* Every step keeps the invariant.
LEMMA LangkahBuku == ZonaSama /\ Buku /\ [Next]_vars => Buku'
<1> SUFFICES ASSUME ZonaSama, Buku, [Next]_vars PROVE Buku'
  OBVIOUS
<1>1. Kerja /\ Kerja' BY LangkahKerja DEF Buku, IndInv, Kerja
<1>2. CASE UNCHANGED vars
  BY <1>1, <1>2 DEF vars, Buku, IndInv, Kerja, TglLewat, JagaBulan, JagaSesi,
     GandaBedaSesi, Bulan
<1>3. CASE Detak BY <1>1, <1>3, DetakBuku
<1>4. ASSUME NEW s \in Sesi, Halaman(s) \/ Ajukan(s) \/ Gagal(s) PROVE Buku'
  BY <1>1, <1>4, HalamanBiasa, AjukanBiasa, GagalBiasa, BiasaBuku
<1>5. ASSUME NEW s \in Sesi, JalanMeter(s) PROVE Buku'
  BY <1>1, <1>5, MeterBiasa, BiasaBuku, BacaHargaBuku, CekBulanBuku, SisipMeterBuku
     DEF JalanMeter
<1>6. ASSUME NEW s \in Sesi, Jalan(s), ~JalanMeter(s) PROVE Buku'
  BY <1>1, <1>6, UserBiasa, TarifBiasa, BuktiBiasa, LogBiasa, BiasaBuku DEF Jalan
<1> QED BY <1>2, <1>3, <1>4, <1>5, <1>6 DEF Next, Tenang

\* At the start no row has a recorder and none is of the future.
LEMMA InitBuku == Init => Buku
<1> SUFFICES ASSUME Init PROVE Buku
  OBVIOUS
<1>1. TypeOK /\ Kendali BY InitTypeOK, InitKendali
<1>2. TglLewat /\ GandaBedaSesi
  BY AsumsiAwal DEF Init, InitPermintaan, InitBasis, TglLewat, GandaBedaSesi
<1>3. JagaBulan BY DEF Init, InitPermintaan, JagaBulan, JagaSesi
<1> QED BY <1>1, <1>2, <1>3 DEF Buku, IndInv

\* When PHP and MySQL read the same calendar, two rows of one customer and one
\* month were never recorded by the same session (meter_add, login/index.php:
\* 471-503), for any number of sessions, customers, rows and days, and however
\* the requests, the deletions and the clock interleave.
THEOREM GandaHanyaBedaSesi == ASSUME ZonaSama PROVE Spec => []GandaBedaSesi
<1>1. Init => Buku BY InitBuku
<1>2. Buku /\ [Next]_vars => Buku' BY LangkahBuku
<1>3. Buku => GandaBedaSesi BY DEF Buku
<1> QED BY <1>1, <1>2, <1>3, PTL DEF Spec

\* When PHP and MySQL read the same calendar no row is of the future, and the
\* month a script of meter_add has read stays free of rows of its own session
\* until the INSERT (login/index.php:471-503).
THEOREM BukuInduktif == ASSUME ZonaSama PROVE Spec => []IndInv
<1>1. Init => Buku BY InitBuku
<1>2. Buku /\ [Next]_vars => Buku' BY LangkahBuku
<1>3. Buku => IndInv BY DEF Buku
<1> QED BY <1>1, <1>2, <1>3, PTL DEF Spec

-----------------------------------------------------------------------------
(* What a step does to a session *)

\* The statements a request may begin with.
LangkahAwal == {"tipe", "cek_umur", "cek_user", "ubah_user", "ubah_profil", "hapus_anak",
                "cek_daftar", "cek_tarif", "ubah_tarif", "hapus_tarif", "pindah_berkas"}

\* Nothing.
SesiUtuh(s) == pc'[s] = pc[s] /\ form'[s] = form[s] /\ rek'[s] = rek[s]

\* Another page: a form for a row shows a row that is there, that of upload_bukti
\* one of its own account; a form to delete an account, one that is there.
Dibuka(s) ==
    /\ ~Berjalan(s) /\ pc'[s] \notin Langkah
    /\ rek'[s] = rek[s]
    /\ UNCHANGED <<login, pemakaian, no_akhir>>
    /\ nReq' \in {nReq, nReq + 1}
    /\ form'[s].no # 0 => form'[s].no \in DOMAIN pemakaian
    /\ form'[s].t = "upload_bukti" => form'[s].no \in BarisUser(Aktor(s))
    /\ form'[s].t = "user_hapus" => form'[s].username \in DOMAIN login

\* A request is admitted.
Dimulai(s) ==
    /\ ~Berjalan(s) /\ pc'[s] \in LangkahAwal
    /\ form'[s] = form[s] /\ jam' = jam
    /\ UNCHANGED basis
    /\ nReq' = nReq + 1
    /\ rek'[s].req = nReq + 1 /\ rek'[s].mulai = jam /\ rek'[s].harga = 0
    /\ T(s) # "register_warga" => rek'[s].level \in Berhak(T(s))
    /\ T(s) = "register_warga" => rek'[s].isi.level = "warga"
    /\ T(s) \in {"meter_edit", "meter_hapus"} => pc'[s] = "cek_umur"

\* The script goes on.
Diteruskan(s) ==
    /\ Berjalan(s) /\ pc[s] # "log"
    /\ pc'[s] \in Langkah \ {"cek_umur"}
    /\ form'[s] = form[s] /\ jam' = jam /\ nReq' = nReq
    /\ rek'[s].req = rek[s].req /\ rek'[s].mulai = rek[s].mulai
    /\ rek'[s].level = rek[s].level /\ rek'[s].isi = rek[s].isi
    /\ rek'[s].harga = rek[s].harga \/ rek'[s].harga = IdTarifKeTarif(rek[s].kd)
    /\ pc[s] = "cek_umur" => CekUmur(s)
    /\ pc'[s] = "ubah_bukti" => PindahBerkas(s)

\* The script ends, in good order or not.
Berakhir(s) ==
    /\ Berjalan(s) /\ pc'[s] = "form"
    /\ form'[s] = form[s] /\ rek'[s] = RekKosong /\ nReq' = nReq

NasibSah(s) == Dibuka(s) \/ Dimulai(s) \/ Diteruskan(s) \/ Berakhir(s)

-----------------------------------------------------------------------------
\* A page shows a form, of a row that is there if it is for one.
LEMMA PasangNasib ==
    ASSUME Kerja, NEW s \in Sesi, HalamanTerbuka(s), NEW f, Pasang(s, f),
           f.no # 0 => f.no \in DOMAIN pemakaian,
           f.t = "upload_bukti" => f.no \in BarisUser(Aktor(s)),
           f.t = "user_hapus" => f.username \in DOMAIN login
    PROVE  Dibuka(s)
<1>1. pc' = [pc EXCEPT ![s] = "form"] /\ form' = [form EXCEPT ![s] = f] /\ rek' = rek
      /\ UNCHANGED <<login, pemakaian, no_akhir, nReq>>
  BY DEF Pasang, Lanjut, Pindah, basis
<1>2. pc'[s] = "form" /\ form'[s] = f BY <1>1 DEF Kerja, TypeOK, TipeSesi
<1>3. ~Berjalan(s) BY DEF HalamanTerbuka, Berjalan, Langkah
<1> QED BY <1>1, <1>2, <1>3 DEF Dibuka, Langkah

\* FormDasar fills in no row.
LEMMA FormDasarIsi ==
    ASSUME NEW s, NEW t
    PROVE  /\ FormDasar(s, t).t = t /\ FormDasar(s, t).no = 0
           /\ DOMAIN FormDasar(s, t) = DOMAIN FormKosong
BY DEF FormDasar, FormKosong

\* So does every page of the application.
LEMMA HalamanNasib ==
    ASSUME Kerja, NEW s \in Sesi, Halaman(s) PROVE Dibuka(s)
<1> USE FormDasarIsi
<1>1. CASE BukaMeterAdd(s)
  <2>1. PICK u, m : Pasang(s, [FormDasar(s, "meter_add") EXCEPT !.username = u, !.awal = m])
    BY <1>1 DEF BukaMeterAdd
  <2>2. HalamanTerbuka(s) BY <1>1 DEF BukaMeterAdd, BukaHalaman
  <2> DEFINE f == [FormDasar(s, "meter_add") EXCEPT !.username = u, !.awal = m]
  <2>3. f.no = 0 /\ f.t = "meter_add" OBVIOUS
  <2> QED BY <2>1, <2>2, <2>3, PasangNasib
<1>2. CASE BukaMeterEdit(s)
  <2>1. PICK n \in DOMAIN pemakaian : Pasang(s, [FormDasar(s, "meter_edit") EXCEPT
                        !.no = n, !.awal = pemakaian[n].awal, !.akhir = pemakaian[n].akhir])
    BY <1>2 DEF BukaMeterEdit
  <2>2. HalamanTerbuka(s) BY <1>2 DEF BukaMeterEdit, BukaHalaman
  <2> DEFINE f == [FormDasar(s, "meter_edit") EXCEPT
                        !.no = n, !.awal = pemakaian[n].awal, !.akhir = pemakaian[n].akhir]
  <2>3. f.no = n /\ f.t = "meter_edit" BY DEF FormDasar, FormKosong
  <2> HIDE DEF f
  <2> QED BY <2>1, <2>2, <2>3, PasangNasib DEF f
<1>3. CASE BukaMeterHapus(s)
  <2>1. PICK n \in BarisTerbuka(s) :
          Pasang(s, [FormDasar(s, "meter_hapus") EXCEPT !.no = n])
    BY <1>3 DEF BukaMeterHapus
  <2>2. HalamanTerbuka(s) BY <1>3 DEF BukaMeterHapus, BukaHalaman
  <2>3. n \in DOMAIN pemakaian BY DEF BarisTerbuka
  <2> DEFINE f == [FormDasar(s, "meter_hapus") EXCEPT !.no = n]
  <2>4. f.no = n /\ f.t = "meter_hapus" BY DEF FormDasar, FormKosong
  <2> HIDE DEF f
  <2> QED BY <2>1, <2>2, <2>3, <2>4, PasangNasib DEF f
<1>4. CASE BukaUserAdd(s) \/ BukaUserEdit(s) \/ BukaUserHapus(s) \/ BukaProfil(s)
  <2>1. ASSUME NEW t \in {"user_add", "user_edit", "user_hapus", "profil_edit"}, NEW u,
               HalamanTerbuka(s), Pasang(s, [FormDasar(s, t) EXCEPT !.username = u]),
               t = "user_hapus" => u \in DOMAIN login
        PROVE  Dibuka(s)
    <3> DEFINE f == [FormDasar(s, t) EXCEPT !.username = u]
    <3>1. f.no = 0 /\ f.t = t /\ f.username = u BY DEF FormDasar, FormKosong
    <3> HIDE DEF f
    <3> QED BY <2>1, <3>1, PasangNasib DEF f
  <2>2. CASE BukaUserAdd(s) BY <2>1, <2>2 DEF BukaUserAdd, BukaHalaman
  <2>3. CASE BukaUserEdit(s) BY <2>1, <2>3 DEF BukaUserEdit, BukaUser, BukaHalaman
  <2>4. CASE BukaUserHapus(s) BY <2>1, <2>4 DEF BukaUserHapus, BukaUser, BukaHalaman
  <2>5. CASE BukaProfil(s) BY <2>1, <2>5 DEF BukaProfil, BukaHalaman
  <2> QED BY <1>4, <2>2, <2>3, <2>4, <2>5
<1>5. CASE BukaDaftar(s)
  <2>1. PICK u : /\ HalamanTerbuka(s)
                 /\ Pasang(s, [FormKosong EXCEPT !.t = "register_warga",
                                       !.username = u, !.token = TRUE])
    BY <1>5 DEF BukaDaftar
  <2> DEFINE f == [FormKosong EXCEPT !.t = "register_warga", !.username = u, !.token = TRUE]
  <2>2. f.no = 0 /\ f.t = "register_warga" BY DEF FormKosong
  <2> HIDE DEF f
  <2> QED BY <2>1, <2>2, PasangNasib DEF f
<1>6. CASE HalamanTarif(s)
  <2>. PICK t \in BerTarif :
          HalamanTerbuka(s) /\ \E k : Pasang(s, [FormDasar(s, t) EXCEPT !.id = k])
    BY <1>6 DEF HalamanTarif, BukaTarifAdd, BukaTarifEdit, BukaTarifHapus, BukaTarif,
       BukaHalaman, BerTarif
  <2>1. PICK k : Pasang(s, [FormDasar(s, t) EXCEPT !.id = k]) OBVIOUS
  <2> DEFINE f == [FormDasar(s, t) EXCEPT !.id = k]
  <2>2. f.no = 0 /\ f.t = t BY DEF FormDasar, FormKosong
  <2> HIDE DEF f
  <2> QED BY <2>1, <2>2, PasangNasib DEF f, BerTarif
<1>7. CASE BukaBukti(s)
  <2>1. PICK n \in BarisUser(Aktor(s)) :
          HalamanTerbuka(s) /\ Pasang(s, [FormDasar(s, "upload_bukti") EXCEPT !.no = n])
    BY <1>7 DEF BukaBukti, BukaHalaman
  <2> DEFINE f == [FormDasar(s, "upload_bukti") EXCEPT !.no = n]
  <2>2. f.no = n /\ f.t = "upload_bukti" BY DEF FormDasar, FormKosong
  <2>3. n \in DOMAIN pemakaian BY DEF BarisUser
  <2> HIDE DEF f
  <2> QED BY <2>1, <2>2, <2>3, PasangNasib DEF f
<1>8. CASE Pental(s)
  <2>1. /\ ~Berjalan(s) /\ rek' = rek /\ pc'[s] = "keluar" /\ form'[s] = FormKosong
        /\ UNCHANGED <<login, pemakaian, no_akhir, nReq>>
    BY <1>8 DEF Pental, HalamanTerbuka, Berjalan, Langkah, Lanjut, Pindah, basis, Kerja,
       TypeOK, TipeSesi
  <2>2. FormKosong.no = 0 /\ FormKosong.t = Tiada BY DEF FormKosong
  <2>3. Tiada \notin {"upload_bukti", "user_hapus"} BY AsumsiTombol DEF Tombol
  <2> QED BY <2>1, <2>2, <2>3 DEF Dibuka, Langkah
<1> QED BY <1>1, <1>2, <1>3, <1>4, <1>5, <1>6, <1>7, <1>8
        DEF Halaman, HalamanMeter, HalamanUser

-----------------------------------------------------------------------------
\* What MulaiDengan makes of the session.
LEMMA MulaiNasib ==
    ASSUME Kerja, NEW s \in Sesi, pc[s] = "form", NEW r, NEW l \in LangkahAwal,
           MulaiDengan(s, r, l), r.req = nReq + 1, r.mulai = jam, r.harga = 0,
           T(s) # "register_warga" => r.level \in Berhak(T(s)),
           T(s) = "register_warga" => r.isi.level = "warga",
           T(s) \in {"meter_edit", "meter_hapus"} => l = "cek_umur"
    PROVE  Dimulai(s)
BY DEF Kerja, TypeOK, TipeSesi, MulaiDengan, Pindah, Dimulai, Berjalan, Langkah

\* What the gate puts into the record of a request.
LEMMA RekBaruIsi ==
    ASSUME NEW s
    PROVE  /\ RekBaru(s).req = nReq + 1 /\ RekBaru(s).mulai = jam
           /\ RekBaru(s).harga = 0 /\ RekBaru(s).level = login[Aktor(s)].level
           /\ DOMAIN RekBaru(s) = DOMAIN RekKosong
BY DEF RekBaru, RekKosong

\* An admitted POST starts its script, a refused one shows another page.
LEMMA AjukanNasib ==
    ASSUME Kerja, NEW s \in Sesi, Ajukan(s) PROVE Dibuka(s) \/ Dimulai(s)
<1>1. CASE Tolak(s)
  <2>1. /\ pc[s] = "form" /\ rek' = rek /\ pc'[s] = "siap" /\ form'[s] = FormKosong
        /\ UNCHANGED <<login, pemakaian, no_akhir>> /\ nReq' = nReq + 1
    BY <1>1 DEF Tolak, DiajukanOleh, Lanjut, Pindah, basis, Kerja, TypeOK, TipeSesi
  <2>2. FormKosong.no = 0 /\ FormKosong.t = Tiada BY DEF FormKosong
  <2>3. Tiada \notin {"upload_bukti", "user_hapus"} BY AsumsiTombol DEF Tombol
  <2> QED BY <2>1, <2>2, <2>3 DEF Dibuka, Langkah, Berjalan
<1>2. ASSUME NEW t \in Tombol \ {"register_warga"}, Diterima(s, t), NEW l \in LangkahAwal,
             NEW r, MulaiDengan(s, r, l), r.req = nReq + 1, r.mulai = jam, r.harga = 0,
             r.level = login[Aktor(s)].level,
             t \in {"meter_edit", "meter_hapus"} => l = "cek_umur"
      PROVE  Dimulai(s)
  BY <1>2, MulaiNasib DEF Diterima, DiajukanOleh
<1>3. CASE TerimaMeterAdd(s) \/ TerimaMeterEdit(s)
  <2>. PICK t \in {"meter_add", "meter_edit"}, l \in LangkahAwal :
         TerimaMeter(s, t, l) /\ (t = "meter_edit" => l = "cek_umur")
    BY <1>3 DEF TerimaMeterAdd, TerimaMeterEdit, LangkahAwal
  <2>1. PICK w, a, b :
           MulaiDengan(s, [RekBaru(s) EXCEPT !.awal = w, !.akhir = a, !.status = b], l)
    BY DEF TerimaMeter
  <2> DEFINE r == [RekBaru(s) EXCEPT !.awal = w, !.akhir = a, !.status = b]
  <2>2. /\ r.req = nReq + 1 /\ r.mulai = jam /\ r.harga = 0
        /\ r.level = login[Aktor(s)].level
    BY DEF RekBaru, RekKosong
  <2> HIDE DEF r
  <2> QED BY <1>2, <2>1, <2>2 DEF r, TerimaMeter, Tombol
<1>4. CASE TerimaMeterHapus(s) \/ TerimaUserHapus(s) \/ TerimaTarifHapus(s) \/ TerimaBukti(s)
  <2>1. PICK t \in {"meter_hapus", "user_hapus", "tarif_hapus", "upload_bukti"},
             l \in LangkahAwal :
          /\ Diterima(s, t) /\ MulaiDengan(s, RekBaru(s), l)
          /\ t = "meter_hapus" => l = "cek_umur"
    BY <1>4 DEF TerimaMeterHapus, TerimaUserHapus, TerimaTarifHapus, TerimaBukti, LangkahAwal
  <2> QED BY <1>2, <2>1, RekBaruIsi DEF Tombol
<1>5. CASE TerimaUserAdd(s) \/ TerimaUserEdit(s) \/ TerimaProfil(s)
  <2>. PICK t \in {"user_add", "user_edit", "profil_edit"}, l \in LangkahAwal :
         Diterima(s, t) /\ \E i : MulaiDengan(s, [RekBaru(s) EXCEPT !.isi = i], l)
    BY <1>5 DEF TerimaUserAdd, TerimaUserEdit, TerimaUserIsian, TerimaProfil, LangkahAwal
  <2>1. PICK i : MulaiDengan(s, [RekBaru(s) EXCEPT !.isi = i], l) OBVIOUS
  <2> DEFINE r == [RekBaru(s) EXCEPT !.isi = i]
  <2>2. /\ r.req = nReq + 1 /\ r.mulai = jam /\ r.harga = 0
        /\ r.level = login[Aktor(s)].level
    BY DEF RekBaru, RekKosong
  <2> HIDE DEF r
  <2> QED BY <1>2, <2>1, <2>2 DEF r, Tombol
<1>6. CASE TerimaDaftar(s)
  <2>1. PICK i \in Pengguna :
          /\ pc[s] = "form" /\ T(s) = "register_warga" /\ i.level = "warga"
          /\ MulaiDengan(s, [RekKosong EXCEPT !.req = nReq + 1, !.mulai = jam, !.isi = i],
                         "cek_daftar")
    BY <1>6 DEF TerimaDaftar
  <2> DEFINE r == [RekKosong EXCEPT !.req = nReq + 1, !.mulai = jam, !.isi = i]
  <2>2. r.req = nReq + 1 /\ r.mulai = jam /\ r.harga = 0 /\ r.isi = i
    BY DEF RekKosong
  <2> HIDE DEF r
  <2> QED BY <2>1, <2>2, MulaiNasib DEF r, LangkahAwal
<1>7. CASE TerimaTarifAdd(s) \/ TerimaTarifEdit(s)
  <2>. PICK t \in {"tarif_add", "tarif_edit"}, l \in LangkahAwal :
         Diterima(s, t) /\ \E i : MulaiDengan(s, [RekBaru(s) EXCEPT !.tarif = i], l)
    BY <1>7 DEF TerimaTarifAdd, TerimaTarifEdit, TerimaTarif, LangkahAwal
  <2>1. PICK i : MulaiDengan(s, [RekBaru(s) EXCEPT !.tarif = i], l) OBVIOUS
  <2> DEFINE r == [RekBaru(s) EXCEPT !.tarif = i]
  <2>2. /\ r.req = nReq + 1 /\ r.mulai = jam /\ r.harga = 0
        /\ r.level = login[Aktor(s)].level
    BY DEF RekBaru, RekKosong
  <2> HIDE DEF r
  <2> QED BY <1>2, <2>1, <2>2 DEF r, Tombol
<1> QED BY <1>1, <1>3, <1>4, <1>5, <1>6, <1>7
        DEF Ajukan, AjukanMeter, AjukanUser, AjukanTarif

-----------------------------------------------------------------------------
(* The statements *)

\* The three ways a step of a script ends.
LEMMA SelesaiNasib ==
    ASSUME Kerja, NEW s \in Sesi, Berjalan(s), Selesai(s), UNCHANGED <<form, nReq>>
    PROVE  Berakhir(s)
BY DEF Kerja, TypeOK, TipeSesi, Selesai, Pindah, Berakhir

LEMMA LanjutNasib ==
    ASSUME Kerja, NEW s \in Sesi, pc[s] \in Langkah \ {"log", "cek_umur"},
           NEW l \in Langkah \ {"cek_umur", "ubah_bukti"}, Lanjut(s, l), TetapSesi
    PROVE  Diteruskan(s)
BY DEF Kerja, TypeOK, TipeSesi, Lanjut, Pindah, TetapSesi, Diteruskan, Berjalan

LEMMA CatatNasib ==
    ASSUME Kerja, NEW s \in Sesi, pc[s] \in Langkah \ {"log", "cek_umur"},
           NEW b, Catat(s, b), TetapSesi
    PROVE  Diteruskan(s) \/ Berakhir(s)
BY LanjutNasib, SelesaiNasib DEF Catat, TetapSesi, Langkah, Berjalan

\* A SELECT keeps the admission, and its price is one of the tariff table.
LEMMA BacaNasib ==
    ASSUME Kerja, NEW s \in Sesi, pc[s] \in Langkah \ {"log", "cek_umur"},
           NEW l \in Langkah \ {"cek_umur", "ubah_bukti"}, NEW r, Baca(s, r, l),
           r.req = rek[s].req, r.mulai = rek[s].mulai, r.level = rek[s].level,
           r.isi = rek[s].isi,
           r.harga = rek[s].harga \/ r.harga = IdTarifKeTarif(rek[s].kd)
    PROVE  Diteruskan(s)
BY DEF Kerja, TypeOK, TipeSesi, Baca, Pindah, TetapSesi, Diteruskan, Berjalan

\* The scripts of meter_add, meter_edit and meter_hapus.
LEMMA MeterNasib ==
    ASSUME Kerja, NEW s \in Sesi, JalanMeter(s) PROVE Diteruskan(s) \/ Berakhir(s)
<1> DEFINE g == rek[s]
<1>1. g \in Rek BY DEF Kerja, TypeOK, TipeSesi
<1>2. CASE CekUmur(s)
  <2>1. pc[s] = "cek_umur" /\ TetapSesi /\ Berjalan(s)
    BY <1>2 DEF CekUmur, Berjalan, Langkah
  <2>2. CASE Selesai(s) BY <2>1, <2>2, SelesaiNasib DEF TetapSesi
  <2>3. CASE \E l \in {"no_user", "hapus_meter"} : Lanjut(s, l)
    BY <1>2, <2>1, <2>3 DEF Kerja, TypeOK, TipeSesi, Lanjut, Pindah, TetapSesi, Diteruskan,
       Langkah
  <2> QED BY <1>2, <2>2, <2>3 DEF CekUmur
<1>3. CASE BacaNoKeUser(s)
  <2> DEFINE p == NoKeUser(form[s].no)
             r == [g EXCEPT !.pemilik = p]
  <2>1. Baca(s, r, "tipe") /\ pc[s] = "no_user" BY <1>3 DEF BacaNoKeUser
  <2> HIDE DEF p, g
  <2>2. /\ r.req = g.req /\ r.mulai = g.mulai /\ r.level = g.level
        /\ r.isi = g.isi /\ r.harga = g.harga
    BY <1>1 DEF Rek
  <2> HIDE DEF r
  <2> QED BY <2>1, <2>2, BacaNasib DEF Langkah, g
<1>4. CASE BacaTipe(s)
  <2> DEFINE p == TipeUser(Pelanggan(s))
             r == [g EXCEPT !.tipe = p]
             l == IF p = Tiada THEN "harga" ELSE "kd"
  <2>1. Baca(s, r, l) /\ pc[s] = "tipe" BY <1>4 DEF BacaTipe
  <2> HIDE DEF p, g
  <2>2. /\ r.req = g.req /\ r.mulai = g.mulai /\ r.level = g.level
        /\ r.isi = g.isi /\ r.harga = g.harga
    BY <1>1 DEF Rek
  <2>3. l \in {"harga", "kd"} OBVIOUS
  <2> HIDE DEF r, l
  <2> QED BY <2>1, <2>2, <2>3, BacaNasib DEF Langkah, g
<1>5. CASE BacaKd(s)
  <2>1. PICK k : Baca(s, [g EXCEPT !.kd = k], "harga") BY <1>5 DEF BacaKd
  <2>2. pc[s] = "kd" BY <1>5 DEF BacaKd
  <2> DEFINE r == [g EXCEPT !.kd = k]
  <2>3. Baca(s, r, "harga") BY <2>1
  <2> HIDE DEF g
  <2>4. /\ r.req = g.req /\ r.mulai = g.mulai /\ r.level = g.level
        /\ r.isi = g.isi /\ r.harga = g.harga
    BY <1>1 DEF Rek
  <2> HIDE DEF r
  <2> QED BY <2>2, <2>3, <2>4, BacaNasib DEF Langkah, g
<1>6. CASE BacaHarga(s)
  <2> DEFINE p == IdTarifKeTarif(rek[s].kd)
             b == BulanIni(s)
             r == [g EXCEPT !.harga = p, !.bulan = b]
             l == IF T(s) = "meter_add" THEN "cek_bulan" ELSE "ubah_meter"
  <2>1. Baca(s, r, l) /\ pc[s] = "harga" BY <1>6 DEF BacaHarga
  <2> HIDE DEF p, b, g
  <2>2. /\ r.req = g.req /\ r.mulai = g.mulai /\ r.level = g.level
        /\ r.isi = g.isi /\ r.harga = p
    BY <1>1 DEF Rek
  <2>3. l \in {"cek_bulan", "ubah_meter"} OBVIOUS
  <2> HIDE DEF r, l
  <2> QED BY <2>1, <2>2, <2>3, BacaNasib DEF Langkah, g, p
<1>7. CASE CekBulan(s)
  <2>1. pc[s] = "cek_bulan" /\ TetapSesi /\ Berjalan(s)
    BY <1>7 DEF CekBulan, Berjalan, Langkah
  <2>2. Selesai(s) \/ Lanjut(s, "sisip_meter") BY <1>7 DEF CekBulan
  <2> QED BY <2>1, <2>2, SelesaiNasib, LanjutNasib DEF Langkah, TetapSesi
<1>8. CASE SisipMeter(s) BY <1>8, LanjutNasib DEF SisipMeter, Langkah
<1>9. CASE UbahMeter(s)
  BY <1>9, UbahMeterRinci, CatatNasib DEF Langkah
<1>10. CASE HapusMeter(s)
  BY <1>10, CatatNasib DEF HapusMeter, Langkah
<1> QED BY <1>2, <1>3, <1>4, <1>5, <1>6, <1>7, <1>8, <1>9, <1>10 DEF JalanMeter

\* The scripts of user_add, user_edit, user_hapus, profil_edit and register_warga.
LEMMA UserNasib ==
    ASSUME Kerja, NEW s \in Sesi, JalanUser(s) PROVE Diteruskan(s) \/ Berakhir(s)
<1>1. CASE CekUser(s) \/ CekDaftar(s)
  <2>1. /\ pc[s] \in {"cek_user", "cek_daftar"} /\ TetapSesi
        /\ Selesai(s) \/ \E l \in {"sisip_user", "sisip_daftar"} : Lanjut(s, l)
    BY <1>1 DEF CekUser, CekDaftar, CekNama
  <2> QED BY <2>1, SelesaiNasib, LanjutNasib DEF Langkah, Berjalan, TetapSesi
<1>2. CASE SisipUser(s) BY <1>2, LanjutNasib DEF SisipUser, SisipNama, Langkah
<1>3. CASE SisipDaftar(s)
  BY <1>3, SelesaiNasib DEF SisipDaftar, SisipNama, TetapSesi, Langkah, Berjalan
<1>4. CASE KunciGanda(s) BY <1>4, SelesaiNasib DEF KunciGanda, Langkah, Berjalan
<1>5. CASE UbahUser(s) \/ UbahProfil(s)
  <2>1. PICK b \in BOOLEAN :
          pc[s] \in {"ubah_user", "ubah_profil"} /\ TetapSesi /\ Catat(s, b)
    BY <1>5 DEF UbahUser, UbahProfil, UbahLogin
  <2> QED BY <2>1, CatatNasib DEF Langkah
<1>6. CASE HapusAnak(s) BY <1>6, LanjutNasib DEF HapusAnak, Langkah
<1>7. CASE HapusUser(s) BY <1>7, CatatNasib DEF HapusUser, Langkah
<1> QED BY <1>1, <1>2, <1>3, <1>4, <1>5, <1>6, <1>7 DEF JalanUser

\* The scripts of the tariff forms.
LEMMA TarifNasib ==
    ASSUME Kerja, NEW s \in Sesi, JalanTarif(s) PROVE Diteruskan(s) \/ Berakhir(s)
<1>1. CASE CekTarif(s)
  <2>1. /\ pc[s] = "cek_tarif" /\ TetapSesi
        /\ Selesai(s) \/ Lanjut(s, "sisip_tarif")
    BY <1>1 DEF CekTarif
  <2> QED BY <2>1, SelesaiNasib, LanjutNasib DEF Langkah, Berjalan, TetapSesi
<1>2. CASE SisipTarif(s) BY <1>2, LanjutNasib DEF SisipTarif, Langkah
<1>3. CASE IdGanda(s) BY <1>3, SelesaiNasib DEF IdGanda, Langkah, Berjalan
<1>4. CASE UbahTarif(s) BY <1>4, CatatNasib DEF UbahTarif, Langkah
<1>5. CASE HapusTarif(s) BY <1>5, CatatNasib DEF HapusTarif, Langkah
<1> QED BY <1>1, <1>2, <1>3, <1>4, <1>5 DEF JalanTarif

\* The script of upload_bukti.
LEMMA BuktiNasib ==
    ASSUME Kerja, NEW s \in Sesi, JalanBukti(s) PROVE Diteruskan(s) \/ Berakhir(s)
<1>1. CASE TolakBerkas(s)
  BY <1>1, SelesaiNasib DEF TolakBerkas, TetapSesi, Langkah, Berjalan
<1>2. CASE PindahBerkas(s)
  <2> DEFINE g == rek[s]
             b == <<form[s].no, jam>>
             r == [g EXCEPT !.bukti = b]
  <2>1. /\ pc[s] = "pindah_berkas" /\ TetapSesi /\ pc' = [pc EXCEPT ![s] = "ubah_bukti"]
        /\ rek' = [rek EXCEPT ![s] = r]
    BY <1>2 DEF PindahBerkas, Pindah
  <2>2. g \in Rek BY DEF Kerja, TypeOK, TipeSesi
  <2> HIDE DEF b, g
  <2>3. /\ r.req = g.req /\ r.mulai = g.mulai /\ r.level = g.level
        /\ r.isi = g.isi /\ r.harga = g.harga
    BY <2>2 DEF Rek
  <2>4. pc'[s] = "ubah_bukti" /\ rek'[s] = r
    BY <2>1 DEF Kerja, TypeOK, TipeSesi
  <2> HIDE DEF r
  <2> QED BY <1>2, <2>1, <2>3, <2>4 DEF Diteruskan, TetapSesi, Berjalan, Langkah, g
<1>3. CASE UbahBukti(s) BY <1>3, LanjutNasib DEF UbahBukti, Langkah
<1> QED BY <1>1, <1>2, <1>3 DEF JalanBukti

\* catat_log is the last statement, and a failure ends the script.
LEMMA AkhirNasib ==
    ASSUME Kerja, NEW s \in Sesi, CatatLog(s) \/ Gagal(s) PROVE Berakhir(s)
BY SelesaiNasib DEF CatatLog, Gagal, TetapSesi, Berjalan, Langkah

\* Every step leaves the other sessions alone.
LEMMA JalanHanya ==
    ASSUME Kerja, NEW s \in Sesi, Jalan(s) PROVE HanyaSesi(s)
<1>1. CASE BacaHarga(s)
  <2> DEFINE l == IF T(s) = "meter_add" THEN "cek_bulan" ELSE "ubah_meter"
  <2>1. PICK r : rek' = [rek EXCEPT ![s] = r] /\ pc' = [pc EXCEPT ![s] = l] /\ TetapSesi
    BY <1>1 DEF BacaHarga, Baca, Pindah
  <2> QED BY <2>1 DEF HanyaSesi, TetapSesi, Kerja, TypeOK, TipeSesi
<1>2. CASE CekBulan(s)
  BY <1>2, SelesaiHanya, LanjutHanya DEF CekBulan, TetapSesi, Keadaan, Langkah
<1>3. CASE SisipMeter(s)
  BY <1>3, LanjutHanya DEF SisipMeter, TetapSesi, Keadaan, Langkah
<1> QED BY <1>1, <1>2, <1>3, MeterBiasa, UserBiasa, TarifBiasa, BuktiBiasa, LogBiasa
        DEF Jalan, JalanMeter, Biasa

\* In a step of s, s is shown a page, is admitted, goes on or ends, and every
\* other session is left as it is.
LEMMA NasibLangkah ==
    ASSUME Kerja, NEW s \in Sesi, Halaman(s) \/ Ajukan(s) \/ Jalan(s) \/ Gagal(s)
    PROVE  NasibSah(s) /\ \A q \in Sesi \ {s} : SesiUtuh(q)
<1>1. NasibSah(s)
  BY HalamanNasib, AjukanNasib, MeterNasib, UserNasib, TarifNasib, BuktiNasib, AkhirNasib
     DEF NasibSah, Jalan
<1>2. HanyaSesi(s) BY HalamanBiasa, AjukanBiasa, JalanHanya, GagalBiasa DEF Biasa
<1> QED BY <1>1, <1>2 DEF HanyaSesi, SesiUtuh

\* A step of s in Next.
Langkahi(s) == Halaman(s) \/ Ajukan(s) \/ Jalan(s) \/ Gagal(s)

\* A page, an admission and a failure write no table.
LEMMA TanpaTulis ==
    ASSUME NEW s \in Sesi, Halaman(s) \/ Ajukan(s) \/ Gagal(s) PROVE UNCHANGED basis
<1>1. Halaman(s) => UNCHANGED basis
    BY DEF Halaman, HalamanMeter, BukaMeterAdd, BukaMeterEdit, BukaMeterHapus, HalamanUser,
       BukaUserAdd, BukaUserEdit, BukaUserHapus, BukaUser, BukaProfil, BukaDaftar,
       HalamanTarif, BukaTarifAdd, BukaTarifEdit, BukaTarifHapus, BukaTarif, BukaBukti,
       Pental, Pasang
<1>2. Ajukan(s) => UNCHANGED basis
    BY DEF Ajukan, AjukanMeter, TerimaMeterAdd, TerimaMeterEdit, TerimaMeterHapus,
       TerimaMeter, AjukanUser, TerimaUserAdd, TerimaUserEdit, TerimaUserIsian, TerimaProfil,
       TerimaUserHapus, TerimaDaftar, AjukanTarif, TerimaTarifAdd, TerimaTarifEdit,
       TerimaTarif, TerimaTarifHapus, TerimaBukti, Tolak, MulaiDengan
<1> QED BY <1>1, <1>2 DEF Gagal

\* A page, a statement, an answer and a failure leave the clock alone.
LEMMA JamTetap ==
    ASSUME Kerja, NEW s \in Sesi, Langkahi(s) PROVE jam' = jam
BY HalamanBiasa, AjukanBiasa, JalanHanya, GagalBiasa DEF Langkahi, Biasa, HanyaSesi

\* A step is one of a session, or keeps everything but the clock.
LEMMA LangkahSalahSatu ==
    ASSUME Kerja, [Next]_vars
    PROVE  \/ \E s \in Sesi : Langkahi(s)
           \/ /\ UNCHANGED <<basis, pc, form, rek, nReq, jejak, gagal>>
              /\ jam' >= jam
<1>1. jam \in Nat BY DEF Kerja, TypeOK, TipeSesi, Waktu
<1>2. CASE UNCHANGED vars BY <1>1, <1>2 DEF vars, basis, tabelTarif
<1>3. CASE Detak BY <1>1, <1>3 DEF Detak
<1> QED BY <1>2, <1>3 DEF Next, Tenang, Langkahi
=============================================================================
