----------------------------- MODULE SiAirProofs -----------------------------
(* Theorems of SiAir, for every value of its constants. *)
EXTENDS SiAir, TLAPS

\* What every handler relies on: the types and the control of the sessions.
Kerja == TypeOK /\ Kendali

-----------------------------------------------------------------------------
(* Initial states *)

\* TypeOK holds at the start (InitBasis, InitPermintaan).
LEMMA InitTypeOK == Init => TypeOK
BY AsumsiNama, AsumsiWaktu, AsumsiAwal DEF Init, InitPermintaan, InitBasis, TypeOK,
   TipeBasis, TipeSesi, HargaAktif, Tarif, FormKosong, RekKosong, Form, Rek, Waktu,
   Keadaan, StatusBayar

\* No form and no script at the start.
LEMMA InitKendali == Init => Kendali
<1> SUFFICES ASSUME Init, NEW s \in Sesi PROVE FormSah(s) /\ RekSah(s)
  BY DEF Kendali
<1>1. pc[s] = "siap" /\ T(s) = Tiada
  BY DEF Init, InitPermintaan, T, FormKosong
<1>2. FormSah(s)
  BY <1>1, AsumsiTombol DEF FormSah, Tombol, BerUsername, BerTarif
<1>3. RekSah(s)
  BY <1>1 DEF RekSah, Berjalan, Langkah
<1> QED BY <1>2, <1>3

-----------------------------------------------------------------------------
(* The steps the handlers share *)

\* The empty values of a session have their types.
LEMMA KosongSah == FormKosong \in Form /\ RekKosong \in Rek
BY AsumsiWaktu DEF FormKosong, RekKosong, Form, Rek, Waktu, StatusBayar

\* A statement that writes no table leaves the tables typed.
LEMMA BasisTetap == TipeBasis /\ UNCHANGED basis => TipeBasis'
BY DEF TipeBasis, basis, tabelTarif

\* A button of a running script is one of Tombol.
LEMMA TombolBerjalan ==
    ASSUME Kerja, NEW s \in Sesi, Berjalan(s)
    PROVE  T(s) \in Tombol
BY DEF Kerja, Kendali, RekSah, Penangan, Tombol

\* Lanjut and Selesai keep the types of the session variables they write.
LEMMA LanjutTipe ==
    ASSUME TipeSesi, NEW s \in Sesi, NEW l \in Keadaan, Lanjut(s, l)
    PROVE  pc' \in [Sesi -> Keadaan] /\ rek' \in [Sesi -> Rek]
BY DEF TipeSesi, Lanjut, Pindah

LEMMA SelesaiTipe ==
    ASSUME TipeSesi, NEW s \in Sesi, Selesai(s)
    PROVE  pc' \in [Sesi -> Keadaan] /\ rek' \in [Sesi -> Rek]
BY KosongSah DEF TipeSesi, Selesai, Pindah, Keadaan

LEMMA CatatTipe ==
    ASSUME TipeSesi, NEW s \in Sesi, NEW b, Catat(s, b)
    PROVE  pc' \in [Sesi -> Keadaan] /\ rek' \in [Sesi -> Rek]
BY SelesaiTipe, LanjutTipe DEF Catat, Keadaan, Langkah

\* A committed write is an entry of the history.
LEMMA TulisTipe ==
    ASSUME Kerja, NEW s \in Sesi, Berjalan(s),
           NEW tb \in {"login", "tarif", "pemakaian"}, NEW b, TulisBila(s, tb, b)
    PROVE  jejak' \subseteq JejakTulis
<1>1. T(s) \in Tombol /\ rek[s].req \in Nat /\ form[s].username \in Username \cup {Tiada}
  BY TombolBerjalan DEF Kerja, TypeOK, TipeSesi, Rek, Form
<1> DEFINE w == [req |-> rek[s].req, t |-> T(s), tabel |-> tb, siapa |-> form[s].username]
<1>2. w \in JejakTulis BY <1>1 DEF JejakTulis
<1>3. jejak' \subseteq jejak \cup {w} BY DEF TulisBila, Tulis
<1> QED BY <1>2, <1>3 DEF Kerja, TypeOK, TipeSesi

\* The control of the sessions that take no step.
LEMMA KendaliLain ==
    ASSUME Kendali, NEW s \in Sesi, FormSah(s)', RekSah(s)',
           \A q \in Sesi \ {s} : /\ pc'[q] = pc[q]
                                 /\ form'[q] = form[q]
                                 /\ rek'[q] = rek[q]
    PROVE  Kendali'
BY DEF Kendali, FormSah, RekSah, Berjalan, T, Pakai, Masuk, Aktor

\* A script that ends leaves a form that can be posted again.
LEMMA SelesaiKendali ==
    ASSUME Kerja, NEW s \in Sesi, Berjalan(s), Selesai(s), UNCHANGED form
    PROVE  Kendali'
<1>1. FormSah(s)' /\ RekSah(s)'
  BY TombolBerjalan DEF Kerja, TypeOK, TipeSesi, Kendali, FormSah, RekSah, Berjalan, T,
     Selesai, Pindah, Langkah
<1>2. \A q \in Sesi \ {s} : pc'[q] = pc[q] /\ form'[q] = form[q] /\ rek'[q] = rek[q]
  BY DEF Kerja, TypeOK, TipeSesi, Selesai, Pindah
<1> QED BY <1>1, <1>2, KendaliLain DEF Kerja

\* A script that moves on to a step of its own handler.
LEMMA LanjutKendali ==
    ASSUME Kerja, NEW s \in Sesi, Berjalan(s), UNCHANGED form,
           NEW l \in Langkah, Lanjut(s, l), T(s) \in Penangan(l),
           l = "sisip_meter" => Pakai(s) >= 0
    PROVE  Kendali'
<1>1. FormSah(s)' /\ RekSah(s)'
  BY DEF Kerja, TypeOK, TipeSesi, Kendali, FormSah, RekSah, Berjalan, T, Pakai, Masuk, Aktor,
     Lanjut, Pindah, Langkah
<1>2. \A q \in Sesi \ {s} : pc'[q] = pc[q] /\ form'[q] = form[q] /\ rek'[q] = rek[q]
  BY DEF Kerja, TypeOK, TipeSesi, Lanjut, Pindah
<1> QED BY <1>1, <1>2, KendaliLain DEF Kerja

\* A script that logs what it wrote, or answers.
LEMMA CatatKendali ==
    ASSUME Kerja, NEW s \in Sesi, Berjalan(s), UNCHANGED form,
           T(s) # "register_warga", NEW b, Catat(s, b)
    PROVE  Kendali'
<1>1. CASE b
  <2>1. T(s) \in Penangan("log") BY TombolBerjalan DEF Penangan
  <2> QED BY <1>1, <2>1, LanjutKendali DEF Catat, Langkah
<1>2. CASE ~b
  BY <1>2, SelesaiKendali DEF Catat
<1> QED BY <1>1, <1>2

\* The three ways a statement of a handler ends.
LEMMA LanjutKerja ==
    ASSUME Kerja, NEW s \in Sesi, Berjalan(s), TetapSesi, TipeBasis',
           jejak' \subseteq JejakTulis, NEW l \in Langkah, Lanjut(s, l),
           T(s) \in Penangan(l), l = "sisip_meter" => Pakai(s) >= 0
    PROVE  Kerja'
<1>1. Kendali' BY LanjutKendali DEF TetapSesi
<1>2. TipeSesi'
  BY LanjutTipe DEF Kerja, TypeOK, TipeSesi, TetapSesi, Keadaan
<1> QED BY <1>1, <1>2 DEF Kerja, TypeOK

LEMMA SelesaiKerja ==
    ASSUME Kerja, NEW s \in Sesi, Berjalan(s), TetapSesi, TipeBasis',
           jejak' \subseteq JejakTulis, Selesai(s)
    PROVE  Kerja'
<1>1. Kendali' BY SelesaiKendali DEF TetapSesi
<1>2. TipeSesi' BY SelesaiTipe DEF Kerja, TypeOK, TipeSesi, TetapSesi
<1> QED BY <1>1, <1>2 DEF Kerja, TypeOK

LEMMA CatatKerja ==
    ASSUME Kerja, NEW s \in Sesi, Berjalan(s), TetapSesi, TipeBasis',
           jejak' \subseteq JejakTulis, T(s) # "register_warga", NEW b, Catat(s, b)
    PROVE  Kerja'
<1>1. Kendali' BY CatatKendali DEF TetapSesi
<1>2. TipeSesi' BY CatatTipe DEF Kerja, TypeOK, TipeSesi, TetapSesi
<1> QED BY <1>1, <1>2 DEF Kerja, TypeOK

\* A SELECT whose result r goes into the variables of the script.
LEMMA BacaKerja ==
    ASSUME Kerja, NEW s \in Sesi, Berjalan(s),
           NEW r \in Rek, NEW l \in Langkah \ {"sisip_meter"}, Baca(s, r, l),
           T(s) \in Penangan(l), r.level = rek[s].level, r.isi = rek[s].isi,
           r.tarif = rek[s].tarif
    PROVE  Kerja'
<1>1. TipeBasis' BY BasisTetap DEF Kerja, TypeOK, Baca
<1>2. TipeSesi'
  BY DEF Kerja, TypeOK, TipeSesi, Baca, Pindah, TetapSesi, Keadaan
<1>3. FormSah(s)' /\ RekSah(s)'
  BY DEF Kerja, TypeOK, TipeSesi, Kendali, FormSah, RekSah, Berjalan, T, Masuk, Aktor,
     Baca, Pindah, TetapSesi, Langkah
<1>4. \A q \in Sesi \ {s} : pc'[q] = pc[q] /\ form'[q] = form[q] /\ rek'[q] = rek[q]
  BY DEF Kerja, TypeOK, TipeSesi, Baca, Pindah, TetapSesi
<1>5. Kendali' BY <1>3, <1>4, KendaliLain DEF Kerja
<1> QED BY <1>1, <1>2, <1>5 DEF Kerja, TypeOK

\* A page with the form f.
LEMMA PasangKerja ==
    ASSUME Kerja, NEW s \in Sesi, NEW f \in Form, f.t \in Tombol,
           f.t \in BerUsername => f.username \in Username,
           f.t \in BerTarif => f.id \in IdTarif,
           Pasang(s, f)
    PROVE  Kerja'
<1>1. TipeBasis' BY BasisTetap DEF Kerja, TypeOK, Pasang
<1>2. TipeSesi'
  BY DEF Kerja, TypeOK, TipeSesi, Pasang, Lanjut, Pindah, Keadaan
<1>3. FormSah(s)' /\ RekSah(s)'
  BY DEF Kerja, TypeOK, TipeSesi, FormSah, RekSah, Berjalan, T,
     Pasang, Lanjut, Pindah, Langkah
<1>4. \A q \in Sesi \ {s} : pc'[q] = pc[q] /\ form'[q] = form[q] /\ rek'[q] = rek[q]
  BY DEF Kerja, TypeOK, TipeSesi, Pasang, Lanjut, Pindah
<1>5. Kendali' BY <1>3, <1>4, KendaliLain DEF Kerja
<1> QED BY <1>1, <1>2, <1>5 DEF Kerja, TypeOK

\* A request that is admitted with the variables r.
LEMMA MulaiKerja ==
    ASSUME Kerja, NEW s \in Sesi, pc[s] = "form", NEW r \in Rek,
           NEW l \in Langkah \ {"sisip_meter"}, MulaiDengan(s, r, l),
           T(s) \in Penangan(l),
           T(s) # "register_warga" => s \in Masuk /\ r.level \in Level,
           T(s) \in BerIsi => r.isi \in Pengguna,
           T(s) \in BerTarif \ {"tarif_hapus"} => r.tarif \in Tarif
    PROVE  Kerja'
<1>1. TipeBasis' BY BasisTetap DEF Kerja, TypeOK, MulaiDengan
<1>2. TipeSesi'
  BY DEF Kerja, TypeOK, TipeSesi, MulaiDengan, Pindah, Keadaan
<1>3. FormSah(s)' /\ RekSah(s)'
  BY DEF Kerja, TypeOK, TipeSesi, Kendali, FormSah, RekSah, Berjalan, T, Masuk, Aktor,
     MulaiDengan, Pindah, Langkah
<1>4. \A q \in Sesi \ {s} : pc'[q] = pc[q] /\ form'[q] = form[q] /\ rek'[q] = rek[q]
  BY DEF Kerja, TypeOK, TipeSesi, MulaiDengan, Pindah
<1>5. Kendali' BY <1>3, <1>4, KendaliLain DEF Kerja
<1> QED BY <1>1, <1>2, <1>5 DEF Kerja, TypeOK

\* A page without a form: the session was refused or destroyed.
LEMMA TutupKerja ==
    ASSUME Kerja, NEW s \in Sesi, NEW l \in {"siap", "keluar"}, Lanjut(s, l),
           form' = [form EXCEPT ![s] = FormKosong], UNCHANGED <<jam, basis, jejak, gagal>>,
           nReq' \in Nat
    PROVE  Kerja'
<1>1. TipeBasis' BY BasisTetap DEF Kerja, TypeOK
<1>2. TipeSesi'
  BY KosongSah, LanjutTipe DEF Kerja, TypeOK, TipeSesi, Keadaan
<1>3. FormSah(s)' /\ RekSah(s)'
  BY AsumsiTombol DEF Kerja, TypeOK, TipeSesi, FormSah, RekSah, Berjalan, T, Lanjut,
     Pindah, Langkah, FormKosong, Tombol, BerUsername, BerTarif
<1>4. \A q \in Sesi \ {s} : pc'[q] = pc[q] /\ form'[q] = form[q] /\ rek'[q] = rek[q]
  BY DEF Kerja, TypeOK, TipeSesi, Lanjut, Pindah
<1>5. Kendali' BY <1>3, <1>4, KendaliLain DEF Kerja
<1> QED BY <1>1, <1>2, <1>5 DEF Kerja, TypeOK

-----------------------------------------------------------------------------
(* Pages and admissions *)

\* The form of a page has the role of the account it was rendered for.
LEMMA FormDasarSah ==
    ASSUME Kerja, NEW s \in Sesi, NEW t \in TombolUji, BukaHalaman(s, t)
    PROVE  /\ FormDasar(s, t) \in Form
           /\ FormDasar(s, t).t = t /\ t \in Tombol
<1>1. login[Aktor(s)].level \in Level
  BY DEF Kerja, TypeOK, TipeBasis, BukaHalaman, Pengguna
<1> QED BY <1>1, KosongSah, AsumsiTombol DEF FormDasar, FormKosong, Form

\* The reading the page fills in is one of the table's.
LEMMA MeterAwalSah ==
    ASSUME Kerja, NEW u PROVE MeterAwalBerikut(u) \subseteq Nat
BY DEF Kerja, TypeOK, TipeBasis, MeterAwalBerikut, BarisTerakhir, BarisUser, Baris

LEMMA HalamanMeterKerja ==
    ASSUME Kerja, NEW s \in Sesi, HalamanMeter(s) PROVE Kerja'
<1>1. CASE BukaMeterAdd(s)
  <2>1. PICK u \in DOMAIN login :
          \E m \in MeterAwalBerikut(u) :
             Pasang(s, [FormDasar(s, "meter_add") EXCEPT !.username = u, !.awal = m])
    BY <1>1 DEF BukaMeterAdd
  <2>. PICK m \in MeterAwalBerikut(u) :
          Pasang(s, [FormDasar(s, "meter_add") EXCEPT !.username = u, !.awal = m])
    BY <2>1
  <2>2. BukaHalaman(s, "meter_add") /\ "meter_add" \in TombolUji
    BY <1>1 DEF BukaMeterAdd, BukaHalaman
  <2>3. u \in Username /\ m \in Nat BY MeterAwalSah DEF Kerja, TypeOK, TipeBasis
  <2> DEFINE g == FormDasar(s, "meter_add")
             f == [g EXCEPT !.username = u, !.awal = m]
  <2>. g \in Form /\ g.t = "meter_add" BY <2>2, FormDasarSah
  <2> HIDE DEF g
  <2>4. f \in Form /\ f.t = "meter_add" /\ f.username = u BY <2>3 DEF Form
  <2>5. "meter_add" \in Tombol /\ "meter_add" \notin BerTarif BY DEF Tombol, BerTarif
  <2>6. Pasang(s, f) BY DEF g
  <2> HIDE DEF f
  <2> QED BY <2>3, <2>4, <2>5, <2>6, PasangKerja
<1>2. CASE BukaMeterEdit(s)
  <2>1. PICK n \in DOMAIN pemakaian :
          Pasang(s, [FormDasar(s, "meter_edit") EXCEPT
                        !.no = n, !.awal = pemakaian[n].awal, !.akhir = pemakaian[n].akhir])
    BY <1>2 DEF BukaMeterEdit
  <2>2. BukaHalaman(s, "meter_edit") /\ "meter_edit" \in TombolUji
    BY <1>2 DEF BukaMeterEdit, BukaHalaman
  <2>3. n \in Nat /\ pemakaian[n].awal \in Nat /\ pemakaian[n].akhir \in Nat
    BY DEF Kerja, TypeOK, TipeBasis, Baris
  <2> DEFINE g == FormDasar(s, "meter_edit")
             f == [g EXCEPT !.no = n, !.awal = pemakaian[n].awal,
                            !.akhir = pemakaian[n].akhir]
  <2>. g \in Form /\ g.t = "meter_edit" BY <2>2, FormDasarSah
  <2> HIDE DEF g
  <2>4. f \in Form /\ f.t = "meter_edit" BY <2>3 DEF Form
  <2>5. /\ "meter_edit" \in Tombol
        /\ "meter_edit" \notin BerTarif \cup BerUsername
    BY DEF Tombol, BerTarif, BerUsername
  <2>6. Pasang(s, f) BY <2>1 DEF g
  <2> HIDE DEF f
  <2> QED BY <2>4, <2>5, <2>6, PasangKerja
<1>3. CASE BukaMeterHapus(s)
  <2>1. PICK n \in BarisTerbuka(s) :
          Pasang(s, [FormDasar(s, "meter_hapus") EXCEPT !.no = n])
    BY <1>3 DEF BukaMeterHapus
  <2>2. BukaHalaman(s, "meter_hapus") /\ "meter_hapus" \in TombolUji
    BY <1>3 DEF BukaMeterHapus, BukaHalaman
  <2>3. n \in Nat BY DEF Kerja, TypeOK, TipeBasis, BarisTerbuka
  <2> DEFINE f == [FormDasar(s, "meter_hapus") EXCEPT !.no = n]
  <2>4. f \in Form /\ f.t = "meter_hapus"
    BY <2>2, <2>3, FormDasarSah DEF Form
  <2>5. /\ "meter_hapus" \in Tombol
        /\ "meter_hapus" \notin BerTarif \cup BerUsername
    BY DEF Tombol, BerTarif, BerUsername
  <2> HIDE DEF f
  <2> QED BY <2>1, <2>4, <2>5, PasangKerja DEF f
<1> QED BY <1>1, <1>2, <1>3 DEF HalamanMeter

\* A page whose form carries the user name u, or the tariff k.
LEMMA PasangUser ==
    ASSUME Kerja, NEW s \in Sesi, NEW t \in TombolUji, BukaHalaman(s, t),
           NEW u \in Username, t \notin BerTarif,
           Pasang(s, [FormDasar(s, t) EXCEPT !.username = u])
    PROVE  Kerja'
<1> DEFINE f == [FormDasar(s, t) EXCEPT !.username = u]
<1>1. f \in Form /\ f.t = t /\ f.username = u /\ t \in Tombol BY FormDasarSah DEF Form
<1> HIDE DEF f
<1> QED BY <1>1, PasangKerja DEF f

LEMMA PasangTarif ==
    ASSUME Kerja, NEW s \in Sesi, NEW t \in TombolUji, BukaHalaman(s, t),
           NEW k \in IdTarif, t \notin BerUsername,
           Pasang(s, [FormDasar(s, t) EXCEPT !.id = k])
    PROVE  Kerja'
<1> DEFINE f == [FormDasar(s, t) EXCEPT !.id = k]
<1>1. f \in Form /\ f.t = t /\ f.id = k /\ t \in Tombol BY FormDasarSah DEF Form
<1> HIDE DEF f
<1> QED BY <1>1, PasangKerja DEF f

LEMMA HalamanUserKerja ==
    ASSUME Kerja, NEW s \in Sesi, HalamanUser(s) PROVE Kerja'
<1>1. DOMAIN login \subseteq Username BY DEF Kerja, TypeOK, TipeBasis
<1>2. CASE BukaUserAdd(s)
  BY <1>2, PasangUser DEF BukaUserAdd, BukaHalaman, BerTarif
<1>3. CASE BukaUserEdit(s)
  BY <1>1, <1>3, PasangUser DEF BukaUserEdit, BukaUser, BukaHalaman, BerTarif
<1>4. CASE BukaUserHapus(s)
  BY <1>1, <1>4, PasangUser DEF BukaUserHapus, BukaUser, BukaHalaman, BerTarif
<1>5. CASE BukaProfil(s)
  BY <1>1, <1>5, PasangUser DEF BukaProfil, BukaHalaman, BerTarif
<1>6. CASE BukaDaftar(s)
  <2>1. PICK u \in Username :
          Pasang(s, [FormKosong EXCEPT !.t = "register_warga", !.username = u,
                                       !.token = TRUE])
    BY <1>6 DEF BukaDaftar
  <2> DEFINE f == [FormKosong EXCEPT !.t = "register_warga", !.username = u,
                                     !.token = TRUE]
  <2>2. f \in Form /\ f.t = "register_warga" /\ f.username = u
    BY KosongSah DEF Form, Tombol
  <2>3. "register_warga" \in Tombol /\ "register_warga" \notin BerTarif
    BY DEF Tombol, BerTarif
  <2> HIDE DEF f
  <2> QED BY <2>1, <2>2, <2>3, PasangKerja DEF f
<1> QED BY <1>2, <1>3, <1>4, <1>5, <1>6 DEF HalamanUser

LEMMA HalamanTarifKerja ==
    ASSUME Kerja, NEW s \in Sesi, HalamanTarif(s) PROVE Kerja'
<1>1. DOMAIN tarif \subseteq IdTarif BY DEF Kerja, TypeOK, TipeBasis
<1>2. CASE BukaTarifAdd(s)
  BY <1>2, PasangTarif DEF BukaTarifAdd, BukaTarif, BukaHalaman, BerUsername
<1>3. CASE BukaTarifEdit(s)
  BY <1>1, <1>3, PasangTarif DEF BukaTarifEdit, BukaTarif, BukaHalaman, BerUsername
<1>4. CASE BukaTarifHapus(s)
  BY <1>1, <1>4, PasangTarif DEF BukaTarifHapus, BukaTarif, BukaHalaman, BerUsername
<1> QED BY <1>2, <1>3, <1>4 DEF HalamanTarif

LEMMA HalamanBuktiKerja ==
    ASSUME Kerja, NEW s \in Sesi, BukaBukti(s) PROVE Kerja'
<1>1. PICK n \in DOMAIN pemakaian :
        Pasang(s, [FormDasar(s, "upload_bukti") EXCEPT !.no = n])
  BY DEF BukaBukti, BarisUser
<1>2. BukaHalaman(s, "upload_bukti") /\ "upload_bukti" \in TombolUji
  BY DEF BukaBukti, BukaHalaman
<1>3. n \in Nat BY DEF Kerja, TypeOK, TipeBasis
<1> DEFINE f == [FormDasar(s, "upload_bukti") EXCEPT !.no = n]
<1>4. f \in Form /\ f.t = "upload_bukti" BY <1>2, <1>3, FormDasarSah DEF Form
<1>5. /\ "upload_bukti" \in Tombol
      /\ "upload_bukti" \notin BerTarif \cup BerUsername
  BY DEF Tombol, BerTarif, BerUsername
<1> HIDE DEF f
<1> QED BY <1>1, <1>4, <1>5, PasangKerja DEF f

\* Every page (Halaman).
LEMMA HalamanKerja ==
    ASSUME Kerja, NEW s \in Sesi, Halaman(s) PROVE Kerja'
<1>1. CASE Pental(s)
  BY <1>1, TutupKerja DEF Pental, Kerja, TypeOK, TipeSesi
<1> QED BY <1>1, HalamanMeterKerja, HalamanUserKerja, HalamanTarifKerja,
           HalamanBuktiKerja DEF Halaman

\* A request that passes the guards has the role of a live account.
LEMMA RekBaruSah ==
    ASSUME Kerja, NEW s \in Sesi, NEW t, Diterima(s, t)
    PROVE  /\ RekBaru(s) \in Rek /\ RekBaru(s).level \in Level
           /\ s \in Masuk /\ pc[s] = "form" /\ T(s) = t
<1>1. login[Aktor(s)].level \in Level
  BY DEF Kerja, TypeOK, TipeBasis, Diterima, DiajukanOleh, Pengguna
<1>2. nReq + 1 \in Nat /\ jam \in Waktu BY DEF Kerja, TypeOK, TipeSesi
<1>3. RekBaru(s) \in Rek /\ RekBaru(s).level \in Level
  BY <1>1, <1>2, KosongSah DEF RekBaru, RekKosong, Rek
<1> QED BY <1>3 DEF Diterima, DiajukanOleh

\* The request of a button without fields of its own.
LEMMA MulaiPolos ==
    ASSUME Kerja, NEW s \in Sesi, NEW t \in Tombol, Diterima(s, t),
           NEW l \in Langkah \ {"sisip_meter"}, t \in Penangan(l),
           MulaiDengan(s, RekBaru(s), l), t \notin BerIsi,
           t \notin BerTarif \ {"tarif_hapus"}
    PROVE  Kerja'
<1> DEFINE r == RekBaru(s)
<1>1. /\ r \in Rek /\ r.level \in Level
      /\ s \in Masuk /\ pc[s] = "form" /\ T(s) = t
  BY RekBaruSah
<1> HIDE DEF r
<1> QED BY <1>1, MulaiKerja DEF r

\* A post of the meters brings readings and a status.
LEMMA IsianMeterSah ==
    ASSUME Kerja, NEW s \in Sesi
    PROVE  /\ AwalIsian(s) \subseteq Nat /\ AkhirIsian(s) \subseteq Nat
           /\ StatusIsian(s) \subseteq StatusBayar
<1>1. form[s].awal \in Nat /\ form[s].akhir \in Nat BY DEF Kerja, TypeOK, TipeSesi, Form
<1> QED BY <1>1, AsumsiNama DEF AwalIsian, AkhirIsian, StatusIsian, StatusBayar

LEMMA TerimaMeterKerja ==
    ASSUME Kerja, NEW s \in Sesi, NEW t \in {"meter_add", "meter_edit"},
           NEW l \in Langkah \ {"sisip_meter"}, t \in Penangan(l), TerimaMeter(s, t, l)
    PROVE  Kerja'
<1>1. PICK awal \in AwalIsian(s), akhir \in AkhirIsian(s), status \in StatusIsian(s) :
        MulaiDengan(s, [RekBaru(s) EXCEPT !.awal = awal, !.akhir = akhir,
                                          !.status = status], l)
  BY DEF TerimaMeter
<1>2. awal \in Nat /\ akhir \in Nat /\ status \in StatusBayar BY IsianMeterSah
<1> DEFINE g == RekBaru(s)
           r == [g EXCEPT !.awal = awal, !.akhir = akhir, !.status = status]
<1>3. /\ g \in Rek /\ g.level \in Level
      /\ s \in Masuk /\ pc[s] = "form" /\ T(s) = t
  BY RekBaruSah DEF TerimaMeter
<1>4. MulaiDengan(s, r, l) BY <1>1
<1> HIDE DEF g
<1>5. r \in Rek /\ r.level \in Level BY <1>2, <1>3 DEF Rek
<1>6. T(s) \notin BerIsi \cup BerTarif /\ T(s) # "register_warga"
  BY <1>3 DEF BerIsi, BerTarif
<1> HIDE DEF r
<1> QED BY <1>3, <1>4, <1>5, <1>6, MulaiKerja

LEMMA AjukanMeterKerja ==
    ASSUME Kerja, NEW s \in Sesi, AjukanMeter(s) PROVE Kerja'
<1>1. CASE TerimaMeterAdd(s)
  BY <1>1, TerimaMeterKerja DEF TerimaMeterAdd, Penangan, Langkah
<1>2. CASE TerimaMeterEdit(s)
  BY <1>2, TerimaMeterKerja DEF TerimaMeterEdit, Penangan, Langkah
<1>3. CASE TerimaMeterHapus(s)
  BY <1>3, MulaiPolos DEF TerimaMeterHapus, Penangan, Langkah, Tombol, BerIsi, BerTarif
<1> QED BY <1>1, <1>2, <1>3 DEF AjukanMeter

\* The forms of the accounts bring a row of login.
LEMMA MulaiIsi ==
    ASSUME Kerja, NEW s \in Sesi, NEW t \in {"user_add", "user_edit", "profil_edit"},
           Diterima(s, t), NEW l \in Langkah \ {"sisip_meter"}, t \in Penangan(l),
           NEW isi \in Pengguna, MulaiDengan(s, [RekBaru(s) EXCEPT !.isi = isi], l)
    PROVE  Kerja'
<1> DEFINE g == RekBaru(s)
           r == [g EXCEPT !.isi = isi]
<1>1. /\ g \in Rek /\ g.level \in Level
      /\ s \in Masuk /\ pc[s] = "form" /\ T(s) = t
  BY RekBaruSah
<1>2. MulaiDengan(s, r, l) OBVIOUS
<1> HIDE DEF g
<1>3. r \in Rek /\ r.level \in Level /\ r.isi \in Pengguna BY <1>1 DEF Rek
<1>4. T(s) \notin BerTarif /\ T(s) # "register_warga" BY <1>1 DEF BerTarif
<1> HIDE DEF r
<1> QED BY <1>1, <1>2, <1>3, <1>4, MulaiKerja

LEMMA AjukanUserKerja ==
    ASSUME Kerja, NEW s \in Sesi, AjukanUser(s) PROVE Kerja'
<1>1. CASE TerimaUserAdd(s)
  BY <1>1, MulaiIsi DEF TerimaUserAdd, TerimaUserIsian, Penangan, Langkah
<1>2. CASE TerimaUserEdit(s)
  BY <1>2, MulaiIsi DEF TerimaUserEdit, TerimaUserIsian, Penangan, Langkah
<1>3. CASE TerimaProfil(s)
  <2>1. PICK d \in Data :
          MulaiDengan(s, [RekBaru(s) EXCEPT
                            !.isi = [login[Aktor(s)] EXCEPT !.data = d]], "ubah_profil")
    BY <1>3 DEF TerimaProfil
  <2>2. Diterima(s, "profil_edit") BY <1>3 DEF TerimaProfil
  <2>3. [login[Aktor(s)] EXCEPT !.data = d] \in Pengguna
    BY <2>2 DEF Kerja, TypeOK, TipeBasis, Diterima, DiajukanOleh, Pengguna
  <2>4. "profil_edit" \in Penangan("ubah_profil") /\ "ubah_profil" \in Langkah
    BY DEF Penangan, Langkah
  <2> QED BY <2>1, <2>2, <2>3, <2>4, MulaiIsi
<1>4. CASE TerimaUserHapus(s)
  BY <1>4, MulaiPolos DEF TerimaUserHapus, Penangan, Langkah, Tombol, BerIsi, BerTarif
<1>5. CASE TerimaDaftar(s)
  <2>1. PICK isi \in Pengguna :
          MulaiDengan(s, [RekKosong EXCEPT !.req = nReq + 1, !.mulai = jam,
                                           !.isi = isi], "cek_daftar")
    BY <1>5 DEF TerimaDaftar
  <2> DEFINE r == [RekKosong EXCEPT !.req = nReq + 1, !.mulai = jam, !.isi = isi]
  <2>. nReq + 1 \in Nat /\ jam \in Waktu BY DEF Kerja, TypeOK, TipeSesi
  <2>2. r \in Rek /\ r.isi = isi BY KosongSah DEF Rek
  <2>3. pc[s] = "form" /\ T(s) = "register_warga" BY <1>5 DEF TerimaDaftar
  <2>4. /\ "register_warga" \in Penangan("cek_daftar") /\ "cek_daftar" \in Langkah
        /\ "register_warga" \notin BerTarif
    BY DEF Penangan, Langkah, BerTarif
  <2> HIDE DEF r
  <2> QED BY <2>1, <2>2, <2>3, <2>4, MulaiKerja DEF r
<1> QED BY <1>1, <1>2, <1>3, <1>4, <1>5 DEF AjukanUser

\* The forms of the tariffs bring a row of tarif.
LEMMA TerimaTarifKerja ==
    ASSUME Kerja, NEW s \in Sesi, NEW t \in {"tarif_add", "tarif_edit"},
           NEW l \in Langkah \ {"sisip_meter"}, t \in Penangan(l), TerimaTarif(s, t, l)
    PROVE  Kerja'
<1>1. PICK isi \in TarifIsian : MulaiDengan(s, [RekBaru(s) EXCEPT !.tarif = isi], l)
  BY DEF TerimaTarif
<1>2. isi \in Tarif BY AsumsiNama DEF TarifIsian, Tarif
<1> DEFINE g == RekBaru(s)
           r == [g EXCEPT !.tarif = isi]
<1>3. /\ g \in Rek /\ g.level \in Level
      /\ s \in Masuk /\ pc[s] = "form" /\ T(s) = t
  BY RekBaruSah DEF TerimaTarif
<1>4. MulaiDengan(s, r, l) BY <1>1
<1> HIDE DEF g
<1>5. r \in Rek /\ r.level \in Level /\ r.tarif \in Tarif BY <1>2, <1>3 DEF Rek
<1>6. T(s) \notin BerIsi /\ T(s) # "register_warga" BY <1>3 DEF BerIsi
<1> HIDE DEF r
<1> QED BY <1>3, <1>4, <1>5, <1>6, MulaiKerja

LEMMA AjukanTarifKerja ==
    ASSUME Kerja, NEW s \in Sesi, AjukanTarif(s) PROVE Kerja'
<1>1. CASE TerimaTarifAdd(s)
  BY <1>1, TerimaTarifKerja DEF TerimaTarifAdd, Penangan, Langkah
<1>2. CASE TerimaTarifEdit(s)
  BY <1>2, TerimaTarifKerja DEF TerimaTarifEdit, Penangan, Langkah
<1>3. CASE TerimaTarifHapus(s)
  BY <1>3, MulaiPolos DEF TerimaTarifHapus, Penangan, Langkah, Tombol, BerIsi
<1> QED BY <1>1, <1>2, <1>3 DEF AjukanTarif

\* Every POST (Ajukan), the refused ones included.
LEMMA AjukanKerja ==
    ASSUME Kerja, NEW s \in Sesi, Ajukan(s) PROVE Kerja'
<1>1. CASE Tolak(s)
  <2>1. nReq' \in Nat BY <1>1 DEF Tolak, Kerja, TypeOK, TipeSesi
  <2> QED BY <1>1, <2>1, TutupKerja DEF Tolak
<1>2. CASE TerimaBukti(s)
  BY <1>2, MulaiPolos DEF TerimaBukti, Penangan, Langkah, Tombol, BerIsi, BerTarif
<1> QED BY <1>1, <1>2, AjukanMeterKerja, AjukanUserKerja, AjukanTarifKerja DEF Ajukan

-----------------------------------------------------------------------------
(* Statements of the handlers *)

\* The button of a script is one whose handler has the step it is at.
LEMMA DiPenangan ==
    ASSUME Kerja, NEW s \in Sesi, Berjalan(s) PROVE T(s) \in Penangan(pc[s])
BY DEF Kerja, Kendali, RekSah

\* A statement that writes no table and no history.
LEMMA BacaTipeOK ==
    ASSUME Kerja, UNCHANGED <<basis, jejak>>
    PROVE  TipeBasis' /\ jejak' \subseteq JejakTulis
BY BasisTetap DEF Kerja, TypeOK, TipeSesi

\* What the SELECTs of kelas_air return.
LEMMA HasilBaca ==
    ASSUME Kerja, NEW s \in Sesi
    PROVE  /\ \A n : NoKeUser(n) \in Username \cup {Tiada}
           /\ \A u : TipeUser(u) \in Tipe \cup {Tiada}
           /\ \A tp : TipeKeKdTarif(tp) \subseteq IdTarif \cup {0}
           /\ \A k : IdTarifKeTarif(k) \in Nat
           /\ BulanIni(s) \in Nat
<1>1. \A n : NoKeUser(n) \in Username \cup {Tiada}
  BY DEF Kerja, TypeOK, TipeBasis, NoKeUser, Baris
<1>2. \A u : TipeUser(u) \in Tipe \cup {Tiada}
  BY DEF Kerja, TypeOK, TipeBasis, TipeUser, Pengguna
<1>3. \A tp : TipeKeKdTarif(tp) \subseteq IdTarif \cup {0}
  BY DEF Kerja, TypeOK, TipeBasis, TipeKeKdTarif
<1>4. \A k : IdTarifKeTarif(k) \in Nat
  BY DEF Kerja, TypeOK, TipeBasis, IdTarifKeTarif, Tarif
<1>5. BulanIni(s) \in Nat
  BY AsumsiWaktu DEF Kerja, TypeOK, TipeSesi, BulanIni
<1> QED BY <1>1, <1>2, <1>3, <1>4, <1>5

LEMMA PakaiInt ==
    ASSUME Kerja, NEW s \in Sesi
    PROVE  Pakai(s) \in Int /\ (Pakai(s) >= 0 => Pakai(s) \in Nat)
BY DEF Kerja, TypeOK, TipeSesi, Pakai, Rek, Form

\* A bill is a number.
LEMMA KaliNat == ASSUME NEW a \in Nat, NEW b \in Nat PROVE a * b \in Nat
OBVIOUS

\* The SELECTs of meter_add and meter_edit.
LEMMA BacaMeterKerja ==
    ASSUME Kerja, NEW s \in Sesi,
           BacaNoKeUser(s) \/ BacaTipe(s) \/ BacaKd(s) \/ BacaHarga(s)
    PROVE  Kerja'
<1> DEFINE g == rek[s]
<1>1. g \in Rek BY DEF Kerja, TypeOK, TipeSesi
<1>2. CASE BacaNoKeUser(s)
  <2> DEFINE p == NoKeUser(form[s].no)
             r == [g EXCEPT !.pemilik = p]
  <2>1. Baca(s, r, "tipe") BY <1>2 DEF BacaNoKeUser
  <2>2. p \in Username \cup {Tiada} BY HasilBaca
  <2>3. pc[s] = "no_user" /\ Berjalan(s) BY <1>2 DEF BacaNoKeUser, Berjalan, Langkah
  <2>4. T(s) \in Penangan("tipe") BY <2>3, DiPenangan DEF Penangan
  <2> HIDE DEF p, g
  <2>5. r \in Rek /\ r.level = g.level /\ r.isi = g.isi /\ r.tarif = g.tarif
    BY <1>1, <2>2 DEF Rek
  <2> HIDE DEF r
  <2> QED BY <2>1, <2>3, <2>4, <2>5, BacaKerja DEF Langkah, g
<1>3. CASE BacaTipe(s)
  <2> DEFINE p == TipeUser(Pelanggan(s))
             r == [g EXCEPT !.tipe = p]
             l == IF p = Tiada THEN "harga" ELSE "kd"
  <2>1. Baca(s, r, l) BY <1>3 DEF BacaTipe
  <2>2. p \in Tipe \cup {Tiada} BY HasilBaca
  <2>3. pc[s] = "tipe" /\ Berjalan(s) BY <1>3 DEF BacaTipe, Berjalan, Langkah
  <2>4. T(s) \in Penangan(l) BY <2>3, DiPenangan DEF Penangan
  <2> HIDE DEF p, g
  <2>5. r \in Rek /\ r.level = g.level /\ r.isi = g.isi /\ r.tarif = g.tarif
    BY <1>1, <2>2 DEF Rek
  <2>6. l \in Langkah \ {"sisip_meter"} BY DEF Langkah
  <2> HIDE DEF r, l
  <2> QED BY <2>1, <2>3, <2>4, <2>5, <2>6, BacaKerja DEF g
<1>4. CASE BacaKd(s)
  <2>1. PICK k \in TipeKeKdTarif(rek[s].tipe) : Baca(s, [g EXCEPT !.kd = k], "harga")
    BY <1>4 DEF BacaKd
  <2> DEFINE r == [g EXCEPT !.kd = k]
  <2>2. k \in IdTarif \cup {0} BY HasilBaca
  <2>3. pc[s] = "kd" /\ Berjalan(s) BY <1>4 DEF BacaKd, Berjalan, Langkah
  <2>4. T(s) \in Penangan("harga") BY <2>3, DiPenangan DEF Penangan
  <2> HIDE DEF g
  <2>5. r \in Rek /\ r.level = g.level /\ r.isi = g.isi /\ r.tarif = g.tarif
    BY <1>1, <2>2 DEF Rek
  <2>6. Baca(s, r, "harga") BY <2>1
  <2> HIDE DEF r
  <2> QED BY <2>3, <2>4, <2>5, <2>6, BacaKerja DEF Langkah, g
<1>5. CASE BacaHarga(s)
  <2> DEFINE p == IdTarifKeTarif(rek[s].kd)
             b == BulanIni(s)
             r == [g EXCEPT !.harga = p, !.bulan = b]
             l == IF T(s) = "meter_add" THEN "cek_bulan" ELSE "ubah_meter"
  <2>1. Baca(s, r, l) BY <1>5 DEF BacaHarga
  <2>2. p \in Nat /\ b \in Nat BY HasilBaca
  <2>3. pc[s] = "harga" /\ Berjalan(s) BY <1>5 DEF BacaHarga, Berjalan, Langkah
  <2>4. T(s) \in Penangan(l) BY <2>3, DiPenangan DEF Penangan
  <2> HIDE DEF p, b, g
  <2>5. r \in Rek /\ r.level = g.level /\ r.isi = g.isi /\ r.tarif = g.tarif
    BY <1>1, <2>2 DEF Rek
  <2>6. l \in Langkah \ {"sisip_meter"} BY DEF Langkah
  <2> HIDE DEF r, l
  <2> QED BY <2>1, <2>3, <2>4, <2>5, <2>6, BacaKerja DEF g
<1> QED BY <1>2, <1>3, <1>4, <1>5

\* The checks of the meters that write nothing.
LEMMA CekMeterKerja ==
    ASSUME Kerja, NEW s \in Sesi, CekUmur(s) \/ CekBulan(s) PROVE Kerja'
<1>1. CASE CekUmur(s)
  <2>1. pc[s] = "cek_umur" /\ Berjalan(s) BY <1>1 DEF CekUmur, Berjalan, Langkah
  <2>2. TetapSesi /\ TipeBasis' /\ jejak' \subseteq JejakTulis
    BY <1>1, BacaTipeOK DEF CekUmur
  <2>3. CASE Selesai(s) BY <2>1, <2>2, <2>3, SelesaiKerja
  <2>4. CASE Lanjut(s, IF T(s) = "meter_edit" THEN "no_user" ELSE "hapus_meter")
    <3>1. T(s) \in {"meter_edit", "meter_hapus"} BY <2>1, DiPenangan DEF Penangan
    <3> QED BY <2>1, <2>2, <2>4, <3>1, LanjutKerja DEF Penangan, Langkah
  <2> QED BY <1>1, <2>3, <2>4 DEF CekUmur
<1>2. CASE CekBulan(s)
  <2>1. pc[s] = "cek_bulan" /\ Berjalan(s) BY <1>2 DEF CekBulan, Berjalan, Langkah
  <2>2. TetapSesi /\ TipeBasis' /\ jejak' \subseteq JejakTulis
    BY <1>2, BacaTipeOK DEF CekBulan
  <2>3. CASE Selesai(s) BY <2>1, <2>2, <2>3, SelesaiKerja
  <2>4. CASE Lanjut(s, "sisip_meter") /\ ~(Pakai(s) < 0)
    <3>1. Pakai(s) >= 0 BY <2>4, PakaiInt
    <3>2. T(s) \in Penangan("sisip_meter") BY <2>1, DiPenangan DEF Penangan
    <3> QED BY <2>1, <2>2, <2>4, <3>1, <3>2, LanjutKerja DEF Langkah
  <2> QED BY <1>2, <2>3, <2>4 DEF CekBulan
<1> QED BY <1>1, <1>2

\* The status of a row is one of the list.
LEMMA StatusSah ==
    ASSUME Kerja, NEW s \in Sesi PROVE StatusAkhir(s) \in StatusBayar
BY DEF Kerja, TypeOK, TipeSesi, StatusAkhir, StatusBayar, Rek

\* The row meter_add inserts.
LEMMA BarisBaruSah ==
    ASSUME Kerja, NEW s \in Sesi, pc[s] = "sisip_meter"
    PROVE  BarisBaru(s) \in Baris
<1>1. Berjalan(s) /\ T(s) = "meter_add"
  BY DiPenangan DEF Berjalan, Langkah, Penangan
<1>2. form[s].username \in Username
  BY <1>1 DEF Kerja, Kendali, FormSah, BerUsername
<1>3. Pakai(s) \in Nat BY <1>1, PakaiInt DEF Kerja, Kendali, RekSah
<1>4. /\ rek[s].awal \in Nat /\ rek[s].akhir \in Nat /\ rek[s].harga \in Nat
      /\ rek[s].kd \in IdTarif \cup {0}
  BY DEF Kerja, TypeOK, TipeSesi, Form, Rek
<1>5. rek[s].harga * Pakai(s) \in Nat BY <1>3, <1>4, KaliNat
<1>6. TglDB[jam] \in Hari /\ jam \in Waktu
  BY AsumsiWaktu DEF Kerja, TypeOK, TipeSesi
<1>7. StatusAkhir(s) \in StatusBayar BY StatusSah
<1> QED BY <1>2, <1>3, <1>4, <1>5, <1>6, <1>7 DEF BarisBaru, Baris

\* The row meter_edit leaves behind.
LEMMA BarisUbahSah ==
    ASSUME Kerja, NEW s \in Sesi, NEW r \in Baris, Pakai(s) >= 0
    PROVE  BarisUbah(s, r) \in Baris
<1>1. Pakai(s) \in Nat BY PakaiInt
<1>2. rek[s].awal \in Nat /\ rek[s].akhir \in Nat /\ rek[s].harga \in Nat
  BY DEF Kerja, TypeOK, TipeSesi, Form, Rek
<1>3. rek[s].harga * Pakai(s) \in Nat BY <1>1, <1>2, KaliNat
<1>4. StatusAkhir(s) \in StatusBayar BY StatusSah
<1> DEFINE a == rek[s].awal
           b == rek[s].akhir
           p == Pakai(s)
           t == rek[s].harga * Pakai(s)
           st == StatusAkhir(s)
<1>5. BarisUbah(s, r) =
        [r EXCEPT !.awal = a, !.akhir = b, !.pakai = p, !.tagihan = t, !.status = st]
  BY DEF BarisUbah
<1>6. a \in Nat /\ b \in Nat /\ p \in Nat /\ t \in Nat /\ st \in StatusBayar
  BY <1>1, <1>2, <1>3, <1>4
<1> HIDE DEF a, b, p, t, st
<1> QED BY <1>5, <1>6 DEF Baris

\* meter_edit changes one row, or none.
LEMMA UbahMeterRinci ==
    ASSUME Kerja, NEW s \in Sesi, UbahMeter(s)
    PROVE  /\ pc[s] = "ubah_meter" /\ TetapSesi
           /\ UNCHANGED <<login, tabelTarif, no_akhir, berkas, audit_log>>
           /\ \E b \in BOOLEAN : TulisBila(s, "pemakaian", b) /\ Catat(s, b)
           /\ \/ pemakaian' = pemakaian
              \/ /\ form[s].no \in DOMAIN pemakaian /\ Pakai(s) >= 0
                 /\ pemakaian' = [pemakaian EXCEPT
                                     ![form[s].no] = BarisUbah(s, pemakaian[form[s].no])]
BY DEF UbahMeter

\* The writes of the meters.
LEMMA TulisMeterKerja ==
    ASSUME Kerja, NEW s \in Sesi, SisipMeter(s) \/ UbahMeter(s) \/ HapusMeter(s)
    PROVE  Kerja'
<1>1. CASE SisipMeter(s)
  <2>1. pc[s] = "sisip_meter" /\ Berjalan(s) /\ TetapSesi
    BY <1>1 DEF SisipMeter, Berjalan, Langkah
  <2>2. T(s) = "meter_add" BY <2>1, DiPenangan DEF Penangan
  <2> DEFINE b == BarisBaru(s)
  <2>3. b \in Baris BY <2>1, BarisBaruSah
  <2>4. pemakaian' = Sisip(pemakaian, no_akhir + 1, b) /\ no_akhir' = no_akhir + 1
    BY <1>1 DEF SisipMeter
  <2> HIDE DEF b
  <2>5. /\ pemakaian' \in [DOMAIN pemakaian' -> Baris]
        /\ DOMAIN pemakaian' = DOMAIN pemakaian \cup {no_akhir + 1}
    <3>. pemakaian \in [DOMAIN pemakaian -> Baris] BY DEF Kerja, TypeOK, TipeBasis
    <3> QED BY <2>3, <2>4 DEF Sisip
  <2>6. TipeBasis'
    BY <1>1, <2>4, <2>5 DEF SisipMeter, Kerja, TypeOK, TipeBasis, tabelTarif
  <2>7. TulisBila(s, "pemakaian", TRUE) BY <1>1 DEF SisipMeter, TulisBila
  <2>8. jejak' \subseteq JejakTulis BY <2>1, <2>7, TulisTipe
  <2>9. Lanjut(s, "log") BY <1>1 DEF SisipMeter
  <2> QED BY <2>1, <2>2, <2>6, <2>8, <2>9, LanjutKerja DEF Langkah, Penangan, Tombol
<1>2. CASE UbahMeter(s)
  <2>1. pc[s] = "ubah_meter" /\ Berjalan(s) /\ TetapSesi
    BY <1>2 DEF UbahMeter, Berjalan, Langkah
  <2>2. T(s) = "meter_edit" BY <2>1, DiPenangan DEF Penangan
  <2>3. pemakaian' \in [DOMAIN pemakaian -> Baris]
    BY <1>2, UbahMeterRinci, BarisUbahSah DEF Kerja, TypeOK, TipeBasis
  <2>4. TipeBasis'
    BY <1>2, <2>3 DEF UbahMeter, Kerja, TypeOK, TipeBasis, tabelTarif
  <2>5. PICK b \in BOOLEAN : TulisBila(s, "pemakaian", b) /\ Catat(s, b)
    BY <1>2, UbahMeterRinci
  <2>6. jejak' \subseteq JejakTulis BY <2>1, <2>5, TulisTipe
  <2> QED BY <2>1, <2>2, <2>4, <2>5, <2>6, CatatKerja
<1>3. CASE HapusMeter(s)
  <2>1. pc[s] = "hapus_meter" /\ Berjalan(s) /\ TetapSesi
    BY <1>3 DEF HapusMeter, Berjalan, Langkah
  <2>2. T(s) = "meter_hapus" BY <2>1, DiPenangan DEF Penangan
  <2> DEFINE b == form[s].no \in DOMAIN pemakaian
  <2>3. /\ pemakaian' = Buang(pemakaian, {form[s].no})
        /\ TulisBila(s, "pemakaian", b) /\ Catat(s, b)
    BY <1>3 DEF HapusMeter
  <2>4. /\ pemakaian' \in [DOMAIN pemakaian' -> Baris]
        /\ DOMAIN pemakaian' \subseteq DOMAIN pemakaian
    <3>. pemakaian \in [DOMAIN pemakaian -> Baris] BY DEF Kerja, TypeOK, TipeBasis
    <3> QED BY <2>3 DEF Buang
  <2>5. TipeBasis'
    BY <1>3, <2>4 DEF HapusMeter, Kerja, TypeOK, TipeBasis, tabelTarif
  <2> HIDE DEF b
  <2>6. jejak' \subseteq JejakTulis BY <2>1, <2>3, TulisTipe
  <2> QED BY <2>1, <2>2, <2>3, <2>5, <2>6, CatatKerja
<1> QED BY <1>1, <1>2, <1>3

\* Every statement of the meters (JalanMeter).
LEMMA JalanMeterKerja ==
    ASSUME Kerja, NEW s \in Sesi, JalanMeter(s) PROVE Kerja'
BY BacaMeterKerja, CekMeterKerja, TulisMeterKerja DEF JalanMeter

\* The INSERT of a new account.
LEMMA SisipNamaSah ==
    ASSUME Kerja, NEW s \in Sesi, Berjalan(s), SisipNama(s),
           T(s) \in {"user_add", "register_warga"}
    PROVE  TipeBasis' /\ jejak' \subseteq JejakTulis
<1> DEFINE u == form[s].username
           v == rek[s].isi
<1>1. u \in Username /\ v \in Pengguna
  BY DEF Kerja, Kendali, FormSah, RekSah, BerUsername, BerIsi
<1>2. login' = Sisip(login, u, v) BY DEF SisipNama
<1> HIDE DEF u, v
<1>3. login' \in [DOMAIN login' -> Pengguna] /\ DOMAIN login' \subseteq Username
  <2>. login \in [DOMAIN login -> Pengguna] /\ DOMAIN login \subseteq Username
    BY DEF Kerja, TypeOK, TipeBasis
  <2> QED BY <1>1, <1>2 DEF Sisip
<1>4. TipeBasis' BY <1>3 DEF SisipNama, Kerja, TypeOK, TipeBasis, tabelTarif
<1>5. TulisBila(s, "login", TRUE) BY DEF SisipNama, TulisBila
<1> QED BY <1>4, <1>5, TulisTipe

\* The UPDATE of an account.
LEMMA UbahLoginSah ==
    ASSUME Kerja, NEW s \in Sesi, Berjalan(s), T(s) # "register_warga",
           NEW f \in [DOMAIN login -> Pengguna], UbahLogin(s, f)
    PROVE  Kerja'
<1>1. PICK b \in BOOLEAN : TulisBila(s, "login", b) /\ Catat(s, b) BY DEF UbahLogin
<1>2. TipeBasis' BY DEF UbahLogin, Kerja, TypeOK, TipeBasis, tabelTarif
<1>3. jejak' \subseteq JejakTulis BY <1>1, TulisTipe
<1>4. TetapSesi BY DEF UbahLogin
<1> QED BY <1>1, <1>2, <1>3, <1>4, CatatKerja

\* A step that dies between two statements, or on a duplicate key.
LEMMA MatiKerja ==
    ASSUME Kerja, NEW s \in Sesi, Berjalan(s), gagal' = gagal \cup {rek[s].req},
           Selesai(s), UNCHANGED <<jam, basis, form, nReq, jejak>>
    PROVE  Kerja'
<1>1. TipeBasis' BY BasisTetap DEF Kerja, TypeOK
<1>2. TipeSesi' BY SelesaiTipe DEF Kerja, TypeOK, TipeSesi, Rek
<1>3. Kendali' BY SelesaiKendali
<1> QED BY <1>1, <1>2, <1>3 DEF Kerja, TypeOK

LEMMA CekNamaKerja ==
    ASSUME Kerja, NEW s \in Sesi, NEW dari \in Langkah,
           NEW ke \in Langkah \ {"sisip_meter"}, CekNama(s, dari, ke),
           T(s) \in Penangan(ke)
    PROVE  Kerja'
<1>1. Berjalan(s) BY DEF CekNama, Berjalan
<1>2. TetapSesi /\ TipeBasis' /\ jejak' \subseteq JejakTulis
  BY BacaTipeOK DEF CekNama
<1>3. CASE Selesai(s) BY <1>1, <1>2, <1>3, SelesaiKerja
<1>4. CASE Lanjut(s, ke) BY <1>1, <1>2, <1>4, LanjutKerja
<1> QED BY <1>3, <1>4 DEF CekNama

\* The statements of the accounts that add one.
LEMMA TambahUserKerja ==
    ASSUME Kerja, NEW s \in Sesi,
           CekUser(s) \/ SisipUser(s) \/ CekDaftar(s) \/ SisipDaftar(s) \/ KunciGanda(s)
    PROVE  Kerja'
<1>1. CASE CekUser(s)
  <2>1. pc[s] = "cek_user" /\ Berjalan(s) /\ "cek_user" \in Langkah
    BY <1>1 DEF CekUser, CekNama, Berjalan, Langkah
  <2>2. T(s) \in Penangan("sisip_user") BY <2>1, DiPenangan DEF Penangan
  <2> QED BY <1>1, <2>1, <2>2, CekNamaKerja DEF CekUser, Langkah
<1>2. CASE CekDaftar(s)
  <2>1. pc[s] = "cek_daftar" /\ Berjalan(s) /\ "cek_daftar" \in Langkah
    BY <1>2 DEF CekDaftar, CekNama, Berjalan, Langkah
  <2>2. T(s) \in Penangan("sisip_daftar") BY <2>1, DiPenangan DEF Penangan
  <2> QED BY <1>2, <2>1, <2>2, CekNamaKerja DEF CekDaftar, Langkah
<1>3. CASE SisipUser(s)
  <2>1. pc[s] = "sisip_user" /\ Berjalan(s) /\ SisipNama(s) /\ Lanjut(s, "log")
    BY <1>3 DEF SisipUser, Berjalan, Langkah
  <2>2. T(s) = "user_add" BY <2>1, DiPenangan DEF Penangan
  <2>3. TipeBasis' /\ jejak' \subseteq JejakTulis BY <2>1, <2>2, SisipNamaSah
  <2>4. TetapSesi BY <2>1 DEF SisipNama
  <2> QED BY <2>1, <2>2, <2>3, <2>4, LanjutKerja DEF Langkah, Penangan, Tombol
<1>4. CASE SisipDaftar(s)
  <2>1. pc[s] = "sisip_daftar" /\ Berjalan(s) /\ SisipNama(s) /\ Selesai(s)
    BY <1>4 DEF SisipDaftar, Berjalan, Langkah
  <2>2. T(s) = "register_warga" BY <2>1, DiPenangan DEF Penangan
  <2>3. TipeBasis' /\ jejak' \subseteq JejakTulis BY <2>1, <2>2, SisipNamaSah
  <2>4. TetapSesi BY <2>1 DEF SisipNama
  <2> QED BY <2>1, <2>3, <2>4, SelesaiKerja
<1>5. CASE KunciGanda(s)
  <2>1. Berjalan(s) BY <1>5 DEF KunciGanda, Berjalan, Langkah
  <2> QED BY <1>5, <2>1, MatiKerja DEF KunciGanda
<1> QED BY <1>1, <1>2, <1>3, <1>4, <1>5

\* The statements of the accounts that change or delete one.
LEMMA UbahUserKerja ==
    ASSUME Kerja, NEW s \in Sesi,
           UbahUser(s) \/ UbahProfil(s) \/ HapusAnak(s) \/ HapusUser(s)
    PROVE  Kerja'
<1>0. login \in [DOMAIN login -> Pengguna] BY DEF Kerja, TypeOK, TipeBasis
<1>1. CASE UbahUser(s)
  <2>1. pc[s] = "ubah_user" /\ Berjalan(s) BY <1>1 DEF UbahUser, Berjalan, Langkah
  <2>2. T(s) = "user_edit" BY <2>1, DiPenangan DEF Penangan
  <2>3. rek[s].isi \in Pengguna BY <2>1, <2>2 DEF Kerja, Kendali, RekSah, BerIsi
  <2> QED BY <1>0, <1>1, <2>1, <2>2, <2>3, UbahLoginSah DEF UbahUser
<1>2. CASE UbahProfil(s)
  <2>1. pc[s] = "ubah_profil" /\ Berjalan(s) BY <1>2 DEF UbahProfil, Berjalan, Langkah
  <2>2. T(s) = "profil_edit" BY <2>1, DiPenangan DEF Penangan
  <2>3. rek[s].isi.data \in Data
    BY <2>1, <2>2 DEF Kerja, Kendali, RekSah, BerIsi, Pengguna
  <2>4. \A u \in DOMAIN login : [login[u] EXCEPT !.data = rek[s].isi.data] \in Pengguna
    BY <1>0, <2>3 DEF Pengguna
  <2> QED BY <1>0, <1>2, <2>1, <2>2, <2>4, UbahLoginSah DEF UbahProfil
<1>3. CASE HapusAnak(s)
  <2>1. pc[s] = "hapus_anak" /\ Berjalan(s) /\ TetapSesi /\ Lanjut(s, "hapus_user")
    BY <1>3 DEF HapusAnak, Berjalan, Langkah
  <2>2. T(s) \in Penangan("hapus_user") BY <2>1, DiPenangan DEF Penangan
  <2> DEFINE K == BarisUser(form[s].username)
  <2>3. pemakaian' = Buang(pemakaian, K) /\ TulisBila(s, "pemakaian", K # {})
    BY <1>3 DEF HapusAnak
  <2> HIDE DEF K
  <2>4. /\ pemakaian' \in [DOMAIN pemakaian' -> Baris]
        /\ DOMAIN pemakaian' \subseteq DOMAIN pemakaian
    <3>. pemakaian \in [DOMAIN pemakaian -> Baris] BY DEF Kerja, TypeOK, TipeBasis
    <3> QED BY <2>3 DEF Buang
  <2>5. TipeBasis'
    BY <1>3, <2>4 DEF HapusAnak, Kerja, TypeOK, TipeBasis, tabelTarif
  <2>6. jejak' \subseteq JejakTulis BY <2>1, <2>3, TulisTipe
  <2> QED BY <2>1, <2>2, <2>5, <2>6, LanjutKerja DEF Langkah
<1>4. CASE HapusUser(s)
  <2>1. pc[s] = "hapus_user" /\ Berjalan(s) /\ TetapSesi
    BY <1>4 DEF HapusUser, Berjalan, Langkah
  <2>2. T(s) = "user_hapus" BY <2>1, DiPenangan DEF Penangan
  <2> DEFINE ada == form[s].username \in DOMAIN login
  <2>3. /\ login' = Buang(login, {form[s].username})
        /\ TulisBila(s, "login", ada) /\ Catat(s, ada)
    BY <1>4 DEF HapusUser
  <2> HIDE DEF ada
  <2>4. login' \in [DOMAIN login' -> Pengguna] /\ DOMAIN login' \subseteq DOMAIN login
    BY <1>0, <2>3 DEF Buang
  <2>5. TipeBasis'
    BY <1>4, <2>4 DEF HapusUser, Kerja, TypeOK, TipeBasis, tabelTarif
  <2>6. jejak' \subseteq JejakTulis BY <2>1, <2>3, TulisTipe
  <2> QED BY <2>1, <2>2, <2>3, <2>5, <2>6, CatatKerja
<1> QED BY <1>1, <1>2, <1>3, <1>4

\* Every statement of the accounts (JalanUser).
LEMMA JalanUserKerja ==
    ASSUME Kerja, NEW s \in Sesi, JalanUser(s) PROVE Kerja'
BY TambahUserKerja, UbahUserKerja DEF JalanUser

\* The tariff table and the history of its prices.
LEMMA TabelTarifSah ==
    ASSUME Kerja, NEW f, f \in [DOMAIN f -> Tarif], DOMAIN f \subseteq IdTarif,
           TabelTarif(f), UNCHANGED <<login, pemakaian, no_akhir, berkas, audit_log>>
    PROVE  TipeBasis'
<1>1. HargaAktif(f) \subseteq IdTarif \X Nat BY DEF HargaAktif, Tarif
<1> QED BY <1>1 DEF TabelTarif, Kerja, TypeOK, TipeBasis

LEMMA JalanTarifKerja ==
    ASSUME Kerja, NEW s \in Sesi, JalanTarif(s) PROVE Kerja'
<1>0. tarif \in [DOMAIN tarif -> Tarif] /\ DOMAIN tarif \subseteq IdTarif
  BY DEF Kerja, TypeOK, TipeBasis
<1>1. CASE CekTarif(s)
  <2>1. pc[s] = "cek_tarif" /\ Berjalan(s) BY <1>1 DEF CekTarif, Berjalan, Langkah
  <2>2. TetapSesi /\ TipeBasis' /\ jejak' \subseteq JejakTulis
    BY <1>1, BacaTipeOK DEF CekTarif
  <2>3. T(s) \in Penangan("sisip_tarif") BY <2>1, DiPenangan DEF Penangan
  <2>4. CASE Selesai(s) BY <2>1, <2>2, <2>4, SelesaiKerja
  <2>5. CASE Lanjut(s, "sisip_tarif")
    BY <2>1, <2>2, <2>3, <2>5, LanjutKerja DEF Langkah
  <2> QED BY <1>1, <2>4, <2>5 DEF CekTarif
<1>2. CASE SisipTarif(s)
  <2>1. /\ pc[s] = "sisip_tarif" /\ Berjalan(s) /\ TetapSesi /\ Lanjut(s, "log")
        /\ TulisBila(s, "tarif", TRUE)
        /\ UNCHANGED <<login, pemakaian, no_akhir, berkas, audit_log>>
    BY <1>2 DEF SisipTarif, Berjalan, Langkah, TulisBila
  <2>2. T(s) = "tarif_add" BY <2>1, DiPenangan DEF Penangan
  <2> DEFINE k == form[s].id
             v == rek[s].tarif
             f == Sisip(tarif, k, v)
  <2>3. TabelTarif(f) BY <1>2 DEF SisipTarif
  <2>4. k \in IdTarif /\ v \in Tarif
    BY <2>1, <2>2 DEF Kerja, Kendali, FormSah, RekSah, BerTarif
  <2> HIDE DEF k, v
  <2>5. f \in [DOMAIN f -> Tarif] /\ DOMAIN f \subseteq IdTarif
    BY <1>0, <2>4 DEF Sisip
  <2> HIDE DEF f
  <2>6. TipeBasis' BY <2>1, <2>3, <2>5, TabelTarifSah
  <2>7. jejak' \subseteq JejakTulis BY <2>1, TulisTipe
  <2> QED BY <2>1, <2>2, <2>6, <2>7, LanjutKerja DEF Langkah, Penangan, Tombol
<1>3. CASE IdGanda(s)
  <2>1. Berjalan(s) BY <1>3 DEF IdGanda, Berjalan, Langkah
  <2> QED BY <1>3, <2>1, MatiKerja DEF IdGanda
<1>4. CASE UbahTarif(s)
  <2> DEFINE f == [k \in DOMAIN tarif |->
                     IF k = form[s].id THEN rek[s].tarif ELSE tarif[k]]
             b == tarif' # tarif
  <2>1. /\ pc[s] = "ubah_tarif" /\ Berjalan(s) /\ TetapSesi
        /\ TabelTarif(f) /\ TulisBila(s, "tarif", b) /\ Catat(s, b)
        /\ UNCHANGED <<login, pemakaian, no_akhir, berkas, audit_log>>
    BY <1>4 DEF UbahTarif, Berjalan, Langkah
  <2>2. T(s) = "tarif_edit" BY <2>1, DiPenangan DEF Penangan
  <2>3. rek[s].tarif \in Tarif
    BY <2>1, <2>2 DEF Kerja, Kendali, RekSah, BerTarif
  <2>4. f \in [DOMAIN f -> Tarif] /\ DOMAIN f \subseteq IdTarif BY <1>0, <2>3
  <2> HIDE DEF f, b
  <2>5. TipeBasis' BY <2>1, <2>4, TabelTarifSah
  <2>6. jejak' \subseteq JejakTulis BY <2>1, TulisTipe
  <2> QED BY <2>1, <2>2, <2>5, <2>6, CatatKerja
<1>5. CASE HapusTarif(s)
  <2> DEFINE f == Buang(tarif, {form[s].id})
             b == form[s].id \in DOMAIN tarif
  <2>1. /\ pc[s] = "hapus_tarif" /\ Berjalan(s) /\ TetapSesi
        /\ TabelTarif(f) /\ TulisBila(s, "tarif", b) /\ Catat(s, b)
        /\ UNCHANGED <<login, pemakaian, no_akhir, berkas, audit_log>>
    BY <1>5 DEF HapusTarif, Berjalan, Langkah
  <2>2. T(s) = "tarif_hapus" BY <2>1, DiPenangan DEF Penangan
  <2>3. f \in [DOMAIN f -> Tarif] /\ DOMAIN f \subseteq IdTarif BY <1>0 DEF Buang
  <2> HIDE DEF f, b
  <2>4. TipeBasis' BY <2>1, <2>3, TabelTarifSah
  <2>5. jejak' \subseteq JejakTulis BY <2>1, TulisTipe
  <2> QED BY <2>1, <2>2, <2>4, <2>5, CatatKerja
<1> QED BY <1>1, <1>2, <1>3, <1>4, <1>5 DEF JalanTarif

LEMMA JalanBuktiKerja ==
    ASSUME Kerja, NEW s \in Sesi, JalanBukti(s) PROVE Kerja'
<1>1. CASE TolakBerkas(s)
  <2>1. Berjalan(s) /\ TetapSesi /\ Selesai(s)
    BY <1>1 DEF TolakBerkas, Berjalan, Langkah
  <2>2. TipeBasis' /\ jejak' \subseteq JejakTulis BY <1>1, BacaTipeOK DEF TolakBerkas
  <2> QED BY <2>1, <2>2, SelesaiKerja
<1>2. CASE PindahBerkas(s)
  <2> DEFINE nama == <<form[s].no, jam>>
             g == rek[s]
             r == [g EXCEPT !.bukti = nama]
  <2>1. /\ pc[s] = "pindah_berkas" /\ Berjalan(s) /\ TetapSesi
        /\ berkas' = berkas \cup {nama} /\ rek' = [rek EXCEPT ![s].bukti = nama]
        /\ Pindah(s, "ubah_bukti")
        /\ UNCHANGED <<login, tabelTarif, pemakaian, no_akhir, audit_log, jejak>>
    BY <1>2 DEF PindahBerkas, Berjalan, Langkah
  <2>2. T(s) = "upload_bukti" BY <2>1, DiPenangan DEF Penangan
  <2>3. nama \in NamaBukti BY DEF Kerja, TypeOK, TipeSesi, Form, NamaBukti
  <2> HIDE DEF nama
  <2>4. TipeBasis' BY <2>1, <2>3 DEF Kerja, TypeOK, TipeBasis, tabelTarif
  <2>5. rek' = [rek EXCEPT ![s] = r] /\ g \in Rek
    BY <2>1 DEF Kerja, TypeOK, TipeSesi
  <2>6. g.level \in Level /\ s \in Masuk
    BY <2>1, <2>2 DEF Kerja, Kendali, RekSah
  <2> HIDE DEF g
  <2>7. r \in Rek /\ r.level = g.level BY <2>3, <2>5 DEF Rek
  <2> HIDE DEF r
  <2>8. TipeSesi'
    BY <2>1, <2>5, <2>7 DEF Kerja, TypeOK, TipeSesi, Pindah, TetapSesi, Keadaan, Langkah
  <2>9. pc'[s] = "ubah_bukti" /\ form'[s] = form[s] /\ rek'[s] = r
    BY <2>1, <2>5 DEF Kerja, TypeOK, TipeSesi, Pindah, TetapSesi
  <2>10. /\ "upload_bukti" \in Penangan("ubah_bukti")
         /\ "upload_bukti" \notin BerUsername \cup BerTarif \cup BerIsi
    BY DEF Penangan, BerUsername, BerTarif, BerIsi
  <2>11. FormSah(s)' /\ RekSah(s)'
    BY <2>2, <2>6, <2>7, <2>9, <2>10 DEF FormSah, RekSah, Berjalan, T, Masuk, Aktor
  <2>12. \A q \in Sesi \ {s} : pc'[q] = pc[q] /\ form'[q] = form[q] /\ rek'[q] = rek[q]
    BY <2>1, <2>5 DEF Kerja, TypeOK, TipeSesi, Pindah, TetapSesi
  <2>13. Kendali' BY <2>11, <2>12, KendaliLain DEF Kerja
  <2> QED BY <2>4, <2>8, <2>13 DEF Kerja, TypeOK
<1>3. CASE UbahBukti(s)
  <2> DEFINE n == form[s].no
             kena == n \in BarisUser(Aktor(s))
             b == rek[s].bukti
  <2>1. /\ pc[s] = "ubah_bukti" /\ Berjalan(s) /\ TetapSesi /\ Lanjut(s, "log")
        /\ TulisBila(s, "pemakaian", kena)
        /\ pemakaian' = IF kena THEN [pemakaian EXCEPT ![n].bukti = b] ELSE pemakaian
        /\ UNCHANGED <<login, tabelTarif, no_akhir, berkas, audit_log>>
    BY <1>3 DEF UbahBukti, Berjalan, Langkah
  <2>2. T(s) = "upload_bukti" BY <2>1, DiPenangan DEF Penangan
  <2>3. b \in NamaBukti \cup {Tiada} BY DEF Kerja, TypeOK, TipeSesi, Rek
  <2> HIDE DEF b
  <2>4. \A r \in Baris : [r EXCEPT !.bukti = b] \in Baris BY <2>3 DEF Baris
  <2>5. pemakaian' \in [DOMAIN pemakaian -> Baris]
    BY <2>1, <2>4 DEF Kerja, TypeOK, TipeBasis
  <2>6. TipeBasis' BY <2>1, <2>5 DEF Kerja, TypeOK, TipeBasis, tabelTarif
  <2> HIDE DEF kena
  <2>7. jejak' \subseteq JejakTulis BY <2>1, TulisTipe
  <2> QED BY <2>1, <2>2, <2>6, <2>7, LanjutKerja DEF Langkah, Penangan, Tombol
<1> QED BY <1>1, <1>2, <1>3 DEF JalanBukti

\* The entry in the trail.
LEMMA CatatLogKerja ==
    ASSUME Kerja, NEW s \in Sesi, CatatLog(s) PROVE Kerja'
<1>1. pc[s] = "log" /\ Berjalan(s) /\ TetapSesi /\ Selesai(s)
  BY DEF CatatLog, Berjalan, Langkah
<1>2. T(s) \in Tombol \ {"register_warga"} BY <1>1, DiPenangan DEF Penangan
<1>3. rek[s].level \in Level /\ Aktor(s) \in Username /\ rek[s].req \in Nat
  BY <1>1, <1>2, AsumsiNama DEF Kerja, TypeOK, TipeSesi, Kendali, RekSah, Masuk, Aktor, Rek
<1> DEFINE e == [req |-> rek[s].req, aktor |-> Aktor(s), level |-> rek[s].level,
                 aksi |-> T(s), no |-> form[s].no]
<1>4. TipeBasis'
  <2>1. form[s].no \in Nat BY DEF Kerja, TypeOK, TipeSesi, Form
  <2>2. e \in EntriLog BY <1>2, <1>3, <2>1 DEF EntriLog
  <2>3. audit_log' = audit_log \cup {e} BY DEF CatatLog
  <2> HIDE DEF e
  <2> QED BY <2>2, <2>3 DEF CatatLog, Kerja, TypeOK, TipeBasis, tabelTarif
<1>5. jejak' \subseteq JejakTulis BY DEF CatatLog, Kerja, TypeOK, TipeSesi
<1> QED BY <1>1, <1>4, <1>5, SelesaiKerja

\* Every step of Next.
LEMMA LangkahKerja == Kerja /\ [Next]_vars => Kerja'
<1> SUFFICES ASSUME Kerja, [Next]_vars PROVE Kerja'
  OBVIOUS
<1>1. CASE UNCHANGED vars
  BY <1>1 DEF vars, Kerja, TypeOK, TipeBasis, TipeSesi, Kendali, FormSah, RekSah,
     Berjalan, T, Pakai, Masuk, Aktor
<1>2. CASE Detak
  <2>1. TipeBasis' BY <1>2, BasisTetap DEF Detak, Kerja, TypeOK
  <2>2. TipeSesi' BY <1>2, AsumsiWaktu DEF Detak, Kerja, TypeOK, TipeSesi, Waktu
  <2>3. Kendali'
    BY <1>2 DEF Detak, Kerja, Kendali, FormSah, RekSah, Berjalan, T, Pakai, Masuk, Aktor
  <2> QED BY <2>1, <2>2, <2>3 DEF Kerja, TypeOK
<1>3. ASSUME NEW s \in Sesi, Halaman(s) PROVE Kerja' BY <1>3, HalamanKerja
<1>4. ASSUME NEW s \in Sesi, Ajukan(s) PROVE Kerja' BY <1>4, AjukanKerja
<1>5. ASSUME NEW s \in Sesi, Jalan(s) PROVE Kerja'
  BY <1>5, JalanMeterKerja, JalanUserKerja, JalanTarifKerja, JalanBuktiKerja,
     CatatLogKerja DEF Jalan
<1>6. ASSUME NEW s \in Sesi, Gagal(s) PROVE Kerja' BY <1>6, MatiKerja DEF Gagal
<1> QED BY <1>1, <1>2, <1>3, <1>4, <1>5, <1>6 DEF Next, Tenang

\* Whatever the sessions do, the tables, the forms and the running scripts have
\* their types, and every script is at a step of its own handler, was admitted
\* for a session that is logged in and reaches the INSERT of meter_add only with
\* a usage that is not negative (login/index.php:267-281, 488).
THEOREM TipeDanKendali == Spec => [](TypeOK /\ Kendali)
<1>1. Init => Kerja BY InitTypeOK, InitKendali DEF Kerja
<1>2. Kerja => TypeOK /\ Kendali BY DEF Kerja
<1> QED BY <1>1, <1>2, LangkahKerja, PTL DEF Spec
=============================================================================
