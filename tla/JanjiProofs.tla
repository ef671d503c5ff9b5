----------------------------- MODULE JanjiProofs -----------------------------
(* A login that a browser has been told of is seen by the next request under *)
(* its id, although the answer leaves before the session is saved.           *)
EXTENDS SerialProofs

\* A file has one name, and who has it open opened it under that name.
SatuNama ==
    /\ \A i, j \in Id : jalur[i] = jalur[j] => i = j \/ jalur[i] = Tiada
    /\ \A r \in Req : \A i \in Id :
          jalur[i] = proses[r].fd => i = proses[r].id \/ jalur[i] = Tiada

\* Where the script is over, and the session still to be saved.
Menulis == {"kirim", "tulis", "potong"}

\* A user in $_SESSION was read from the file, or the file is a new one.
AsalSatu(r) == BerUser(r) => proses[r].baca = Kosong \/ proses[r].baca.user # Tiada

\* r will save a user into the file of the id i.
Akan(r, i) == BerUser(r) /\ proses[r].pc \in Menulis /\ proses[r].fd = jalur[i]

\* Under an id that was promised a user is found or will be.
Ditepati ==
    \A i \in janji : /\ jalur[i] # Tiada
                     /\ \/ berkas[jalur[i]].isi.user # Tiada
                        \/ \E r \in Req : Akan(r, i)

\* A request under such an id has a user, and has read one.
Membaca == {"gc", "gcunlink", "aplikasi"}
SetiaSatu(r) ==
    proses[r].id \in janji /\ proses[r].pc \in Memegang /\ proses[r].fd # Tiada
    => /\ proses[r].var.user # Tiada
       /\ proses[r].pc \in Membaca => proses[r].baca.user # Tiada

Ikatan ==
    SatuNama /\ Ditepati /\ \A r \in Req : AsalSatu(r) /\ SetiaSatu(r)

-----------------------------------------------------------------------------
(* What a step of one request has to show *)

\* r keeps the promises made: the ids keep their files, and in the file it
\* holds it leaves a user, or will.
Setor(r) ==
    \A i \in janji' :
        /\ i \in janji /\ jalur'[i] = jalur[i]
        /\ proses[r].pc \in Memegang /\ proses[r].fd = jalur[i]
           => berkas'[jalur[i]].isi.user # Tiada \/ Akan(r, i)'

LEMMA IkatanLangkah ==
    ASSUME Dasar, Ikatan, NEW r \in Req, Rapi(r), Setor(r), SatuNama',
           AsalSatu(r)', SetiaSatu(r)'
    PROVE  Ikatan'
<1>1. ASSUME NEW s \in Req, s # r PROVE AsalSatu(s)' /\ SetiaSatu(s)'
  <2>1. proses'[s] = proses[s] /\ AsalSatu(s) /\ SetiaSatu(s)
    BY <1>1 DEF Rapi, Sah, Ikatan
  <2> QED BY <2>1 DEF AsalSatu, SetiaSatu, BerUser, Setor
<1>2. Ditepati'
  <2> SUFFICES ASSUME NEW i \in janji'
               PROVE  /\ jalur'[i] # Tiada
                      /\ berkas'[jalur'[i]].isi.user # Tiada \/ \E s \in Req : Akan(s, i)'
    BY DEF Ditepati
  <2>1. i \in janji /\ jalur'[i] = jalur[i] /\ i \in Id
    BY DEF Setor, Dasar, TipeGerbang
  <2>2. jalur[i] \in Ino
    BY <2>1 DEF Ikatan, Ditepati, Mungkin, Dasar, TipeGerbang, TipeSesiPhp
  <2>3. jalur[i] # Tiada BY <2>1 DEF Ikatan, Ditepati
  <2>4. CASE proses[r].pc \in Memegang /\ proses[r].fd = jalur[i]
    BY <2>1, <2>3, <2>4 DEF Setor
  <2>5. CASE ~(proses[r].pc \in Memegang /\ proses[r].fd = jalur[i])
    <3>1. jalur[i] \in Acuan(jalur, proses) /\ jalur[i] \in Acuan(jalur', proses')
      BY <2>1 DEF Acuan
    <3>2. berkas'[jalur[i]].isi = berkas[jalur[i]].isi BY <2>2, <2>5, <3>1 DEF Rapi
    <3>3. CASE berkas[jalur[i]].isi.user # Tiada BY <2>1, <2>3, <3>2, <3>3
    <3>4. CASE \E s \in Req : Akan(s, i)
      <4>1. PICK s \in Req : Akan(s, i) BY <3>4
      <4>2. s # r BY <2>5, <4>1 DEF Akan, BerUser
      <4>3. Akan(s, i)' BY <2>1, <4>1, <4>2 DEF Akan, BerUser, Rapi, Sah
      <4> QED BY <2>1, <2>3, <4>3
    <3> QED BY <2>1, <3>3, <3>4 DEF Ikatan, Ditepati
  <2> QED BY <2>4, <2>5
<1> QED BY <1>1, <1>2 DEF Ikatan

\* Names are cut, and r keeps its file or closes it.
LEMMA NamaTetap ==
    ASSUME SatuNama, NEW r \in Req, Sah(r), \A i \in Id : jalur'[i] \in {jalur[i], Tiada},
           proses'[r].fd = Tiada \/ (proses'[r].fd = proses[r].fd /\ proses'[r].id = proses[r].id)
    PROVE  SatuNama'
<1>1. \A i, j \in Id : jalur'[i] = jalur'[j] => i = j \/ jalur'[i] = Tiada
  BY DEF SatuNama
<1>2. \A s \in Req : \A i \in Id :
         jalur'[i] = proses'[s].fd => i = proses'[s].id \/ jalur'[i] = Tiada
  BY DEF SatuNama, Sah
<1> QED BY <1>1, <1>2 DEF SatuNama

\* r opens the file of a name, or a new one under it.
LEMMA NamaBaru ==
    ASSUME Dasar, SatuNama, NEW r \in Req, Sah(r), NEW i \in Id, NEW n,
           jalur[i] = n \/ (jalur[i] = Tiada /\ n \notin Acuan(jalur, proses)),
           jalur' = [jalur EXCEPT ![i] = n], proses'[r].fd = n, proses'[r].id = i
    PROVE  SatuNama'
<1>1. \A j \in Id : jalur'[j] = IF j = i THEN n ELSE jalur[j]
  BY DEF Dasar, TipeGerbang, TipeSesiPhp
<1>2. \A j \in Id : jalur[j] = n => j = i \/ n = Tiada
  BY DEF SatuNama, Acuan
<1>3. \A j, k \in Id : jalur'[j] = jalur'[k] => j = k \/ jalur'[j] = Tiada
  BY <1>1, <1>2 DEF SatuNama
<1>4. ASSUME NEW s \in Req, NEW j \in Id, jalur'[j] = proses'[s].fd
      PROVE  j = proses'[s].id \/ jalur'[j] = Tiada
  <2>1. CASE s = r BY <1>1, <1>2, <1>4, <2>1
  <2>2. CASE s # r
    <3>1. proses'[s] = proses[s] BY <2>2 DEF Sah
    <3>2. CASE j # i BY <1>1, <1>4, <3>1, <3>2 DEF SatuNama
    <3>3. CASE j = i
      <4>1. proses[s].fd = n BY <1>1, <1>4, <3>1, <3>3
      <4>2. jalur[i] = n BY <4>1 DEF Acuan
      <4> QED BY <1>1, <3>1, <3>3, <4>1, <4>2 DEF SatuNama
    <3> QED BY <3>2, <3>3
  <2> QED BY <2>1, <2>2
<1> QED BY <1>3, <1>4 DEF SatuNama

\* Who holds the file of a promised id, and has not ended its script, is the
\* only one, so the user is in the file.
LEMMA Isinya ==
    ASSUME Dasar, Tunggal, Ikatan, NEW r \in Req, proses[r].pc \in Memegang \ Menulis,
           NEW i \in janji, proses[r].fd = jalur[i]
    PROVE  berkas[jalur[i]].isi.user # Tiada
<1>1. jalur[i] # Tiada BY DEF Ikatan, Ditepati
<1>2. \A s \in Req : ~Akan(s, i) BY <1>1 DEF Akan, BerUser, Tunggal
<1> QED BY <1>2 DEF Ikatan, Ditepati

\* Who holds the file of a promised id serves a request of this id.
LEMMA Pemilik ==
    ASSUME Dasar, Ikatan, NEW r \in Req, NEW i \in janji, proses[r].fd = jalur[i],
           proses[r].pc \in Memegang
    PROVE  i = proses[r].id /\ proses[r].fd \in Ino /\ proses[r].var.user # Tiada
<1>1. i \in Id BY DEF Dasar, TipeGerbang
<1>2. jalur[i] # Tiada BY DEF Ikatan, Ditepati
<1>3. i = proses[r].id BY <1>1, <1>2 DEF Ikatan, SatuNama
<1>4. proses[r].fd \in Ino BY <1>2, Satu DEF Proses, Mungkin
<1> QED BY <1>2, <1>3, <1>4 DEF Ikatan, SetiaSatu

\* Steps of a script, or of the collection, that keep file and user.
LEMMA IkatanTetap ==
    ASSUME Dasar, Tunggal, Ikatan, NEW r \in Req, Rapi(r),
           jalur' = jalur, janji' = janji, \A n \in Ino : berkas'[n].isi = berkas[n].isi,
           proses[r].pc \in Memegang \ Menulis, proses[r].var # Tiada,
           proses'[r].fd = proses[r].fd, proses'[r].id = proses[r].id,
           proses'[r].baca = proses[r].baca, proses'[r].var.user = proses[r].var.user,
           proses'[r].pc \in Membaca => proses[r].pc \in Membaca
    PROVE  Ikatan'
<1>1. SatuNama' BY NamaTetap DEF Ikatan, Rapi
<1>2. AsalSatu(r)' BY DEF Ikatan, AsalSatu, BerUser
<1>3. SetiaSatu(r)' BY DEF Ikatan, SetiaSatu
<1>4. Setor(r)
  <2> SUFFICES ASSUME NEW i \in janji, proses[r].pc \in Memegang, proses[r].fd = jalur[i]
               PROVE  berkas'[jalur[i]].isi.user # Tiada
    BY DEF Setor
  <2> QED BY Isinya, Pemilik
<1> QED BY <1>1, <1>2, <1>3, <1>4, IkatanLangkah

\* Steps after which r has no file open.
LEMMA IkatanTanpaFd ==
    ASSUME Dasar, Tunggal, Ikatan, NEW r \in Req, Rapi(r), proses'[r].fd = Tiada,
           \A i \in Id : jalur'[i] \in {jalur[i], Tiada}, Setor(r)
    PROVE  Ikatan'
<1>1. SatuNama' BY NamaTetap DEF Ikatan, Rapi
<1>2. AsalSatu(r)' /\ SetiaSatu(r)' BY DEF AsalSatu, BerUser, SetiaSatu
<1> QED BY <1>1, <1>2, IkatanLangkah

-----------------------------------------------------------------------------
(* The steps of the gate *)

LEMMA JanjiIno ==
    ASSUME Dasar, Ikatan, NEW i \in janji PROVE i \in Id /\ jalur[i] \in Ino /\ jalur[i] # Tiada
BY DEF Dasar, TipeGerbang, TipeSesiPhp, Ikatan, Ditepati, Mungkin

\* An id that was promised is not a visitor's.
LEMMA JanjiPisah ==
    ASSUME Dasar, Identitas, Ikatan, NEW i \in janji PROVE i \notin tanpaUser
<1> SUFFICES ASSUME i \in tanpaUser PROVE FALSE OBVIOUS
<1>1. jalur[i] # Tiada BY JanjiIno
<1>2. berkas[jalur[i]].isi.user = Tiada BY <1>1 DEF Identitas, LoginGantiId
<1>3. \A s \in Req : ~Akan(s, i) BY DEF Identitas, Pisah, Akan
<1> QED BY <1>2, <1>3 DEF Ikatan, Ditepati

\* A step of a request that holds no file.
LEMMA SetorLuar ==
    ASSUME Dasar, Ikatan, NEW r \in Req, proses[r].pc \notin Memegang \/ proses[r].fd = Tiada,
           \A i \in janji' : i \in janji /\ jalur'[i] = jalur[i]
    PROVE  Setor(r)
BY JanjiIno DEF Setor

LEMMA IkatanKunjungan ==
    ASSUME Dasar, Tunggal, Cermin, Ikatan, NEW r \in Req, Kunjungan(r) PROVE Ikatan'
<1>1. PICK b \in Peramban : Datang(r, b, kuki[b]) BY DEF Kunjungan
<1>2. /\ proses'[r] = [Luar EXCEPT !.pc = "buka", !.b = b, !.id = kuki[b]]
      /\ jalur' = jalur /\ janji' = janji /\ proses[r].pc = "luar"
  BY <1>1 DEF Kunjungan, Datang, riwayat, Dasar, TipeGerbang, TipeSesiPhp
<1>3. proses'[r].fd = Tiada BY <1>2 DEF Luar
<1>4. Setor(r) BY <1>2, SetorLuar DEF Memegang
<1>5. Rapi(r) BY SerasiKunjungan DEF Serasi
<1> QED BY <1>2, <1>3, <1>4, <1>5, IkatanTanpaFd

LEMMA IkatanHapus ==
    ASSUME Dasar, Tunggal, Cermin, Ikatan, NEW r \in Req, HapusSesi(r) \/ AksesSesi(r)
    PROVE  Ikatan'
<1> DEFINE x == proses[r].id
<1>1. /\ proses[r].pc \in {"hapus", "akses"} /\ proses[r] \in Proses /\ x \in Id
      /\ proses[r].fd = Tiada
  BY Satu DEF HapusSesi, AksesSesi, Hapus, Akses, Tertib, Menghapus
<1>2. Rapi(r) BY SerasiHapus, SerasiAkses DEF Serasi
<1>3. CASE jalur' = jalur /\ janji' = janji /\ proses' = [proses EXCEPT ![r].pc = "akses"]
  <2>1. proses'[r].fd = Tiada BY <1>1, <1>3 DEF Proses, Dasar, TipeGerbang, TipeSesiPhp
  <2>2. Setor(r) BY <1>1, <1>3, SetorLuar
  <2> QED BY <1>2, <1>3, <2>1, <2>2, IkatanTanpaFd
<1>4. CASE /\ jalur' = [jalur EXCEPT ![x] = Tiada] /\ janji' = janji \ {x}
           /\ proses' = SetelahHapus(r, proses)
  <2>1. proses'[r].fd = Tiada BY <1>1, <1>4, UsaiTetap
  <2>2. \A i \in Id : jalur'[i] = IF i = x THEN Tiada ELSE jalur[i]
    BY <1>4 DEF Dasar, TipeGerbang, TipeSesiPhp
  <2>3. Setor(r) BY <1>1, <1>4, <2>2, JanjiIno, SetorLuar
  <2> QED BY <1>2, <2>1, <2>2, <2>3, IkatanTanpaFd
<1>5. CASE AksesSesi(r)
  <2>1. PICK p \in {proses, [proses EXCEPT ![r].lanjut = Tiada]} : proses' = SetelahHapus(r, p)
    BY <1>5 DEF AksesSesi, Akses
  <2>2. proses'[r].fd = Tiada BY <1>1, <2>1, UsaiTetap
  <2>3. jalur' = jalur /\ janji' = janji BY <1>5 DEF AksesSesi, Akses, riwayat
  <2>4. Setor(r) BY <1>1, <2>3, SetorLuar
  <2> QED BY <1>2, <2>2, <2>3, <2>4, IkatanTanpaFd
<1>6. CASE HapusSesi(r)
  <2>1. CASE jalur[x] = Tiada
    <3>1. jalur' = jalur /\ proses' = [proses EXCEPT ![r].pc = "akses"]
      BY <1>6, <2>1 DEF HapusSesi, Hapus
    <3>2. janji' = janji BY <1>6, <3>1 DEF HapusSesi
    <3> QED BY <1>3, <3>1, <3>2
  <2>2. CASE jalur[x] # Tiada
    <3>1. jalur' = [jalur EXCEPT ![x] = Tiada] /\ proses' = SetelahHapus(r, proses)
      BY <1>6, <2>2 DEF HapusSesi, Hapus
    <3>2. jalur' # jalur BY <1>1, <2>2, <3>1 DEF Dasar, TipeGerbang, TipeSesiPhp
    <3>3. janji' = janji \ {x} BY <1>6, <3>2 DEF HapusSesi
    <3> QED BY <1>4, <3>1, <3>3
  <2> QED BY <2>1, <2>2
<1> QED BY <1>5, <1>6

LEMMA IkatanAkhiri ==
    ASSUME Dasar, Tunggal, Cermin, Ikatan, NEW r \in Req,
           LoginBenar(r) \/ HabisDiam(r) \/ AkunHilang(r) \/ Keluar(r)
    PROVE  Ikatan'
<1>1. \E c, l : MulaiHapus(r, c, l)
  BY DEF LoginBenar, HabisDiam, AkunHilang, Keluar
<1>2. PICK c, l : MulaiHapus(r, c, l) BY <1>1
<1>3. /\ proses' = [proses EXCEPT ![r].pc = "hapus", ![r].fd = Tiada, ![r].baca = Tiada,
                                  ![r].malas = FALSE, ![r].lanjut = c, ![r].lokal = l]
      /\ berkas' = Bersihkan(berkas, jalur', proses') /\ jalur' = jalur
  BY <1>2 DEF MulaiHapus
<1>4. janji' = janji /\ proses[r].pc \in {"aplikasi", "periksa"}
  BY DEF LoginBenar, HabisDiam, AkunHilang, Keluar, Berjalan, riwayat
<1>5. proses[r] \in Proses BY Satu
<1>6. proses'[r].fd = Tiada BY <1>3, <1>5 DEF Proses, Dasar, TipeGerbang, TipeSesiPhp
<1>7. Setor(r)
  <2> SUFFICES ASSUME NEW i \in janji, proses[r].fd = jalur[i]
               PROVE  berkas'[jalur[i]].isi.user # Tiada
    BY <1>3, <1>4 DEF Setor
  <2>1. i \in Id /\ jalur[i] \in Ino BY JanjiIno
  <2>2. jalur[i] \in Acuan(jalur', proses') BY <1>3, <2>1 DEF Acuan
  <2>3. berkas'[jalur[i]] = berkas[jalur[i]] BY <1>3, <2>1, <2>2 DEF Bersihkan
  <2>4. berkas[jalur[i]].isi.user # Tiada BY <1>4, Isinya DEF Memegang, Menulis
  <2> QED BY <2>3, <2>4
<1>8. Rapi(r) BY SerasiAkhiri DEF Serasi
<1> QED BY <1>3, <1>6, <1>7, <1>8, IkatanTanpaFd

LEMMA IkatanMulai ==
    ASSUME Dasar, Tunggal, Cermin, Ikatan, NEW r \in Req, MulaiSesi(r) PROVE Ikatan'
<1> DEFINE i == IF proses[r].id = Tiada THEN idBaru + 1 ELSE proses[r].id
           k == proses[r].id = Tiada
<1>1. i \in Id /\ proses[r].pc = "buka" /\ janji' = janji
  BY DEF MulaiSesi, Buka, riwayat
<1>2. PICK n \in IF jalur[i] = Tiada THEN InodeBebas ELSE {jalur[i]} :
         /\ jalur' = [jalur EXCEPT ![i] = n]
         /\ proses' = [proses EXCEPT ![r].pc = "kunci", ![r].id = i, ![r].fd = n,
                                     ![r].kuki = k]
  BY DEF MulaiSesi, Buka
<1>3. Rapi(r) /\ Sah(r) BY SerasiMulai DEF Serasi, Rapi
<1>4. proses[r] \in Proses BY Satu
<1> HIDE DEF i, k
<1>5. jalur[i] = n \/ (jalur[i] = Tiada /\ n \notin Acuan(jalur, proses))
  BY <1>2, Bebas
<1>6. proses'[r].pc = "kunci" /\ proses'[r].id = i /\ proses'[r].fd = n
  BY <1>2, <1>4 DEF Proses, Dasar, TipeGerbang, TipeSesiPhp
<1>7. SatuNama' BY <1>1, <1>2, <1>3, <1>5, <1>6, NamaBaru DEF Ikatan
<1>8. AsalSatu(r)' /\ SetiaSatu(r)' BY <1>6 DEF AsalSatu, BerUser, SetiaSatu, Memegang
<1>9. Setor(r)
  <2>1. \A j \in Id : jalur'[j] = IF j = i THEN n ELSE jalur[j]
    BY <1>2 DEF Dasar, TipeGerbang, TipeSesiPhp
  <2>2. \A j \in janji : jalur'[j] = jalur[j] BY <1>5, <2>1, JanjiIno
  <2> QED BY <1>1, <2>2, SetorLuar DEF Memegang
<1> QED BY <1>3, <1>7, <1>8, <1>9, IkatanLangkah

LEMMA IkatanBaca ==
    ASSUME Dasar, Tunggal, Identitas, Cermin, Ikatan, NEW r \in Req, BacaSesi(r)
    PROVE  Ikatan'
<1> DEFINE d == berkas[proses[r].fd].isi
           x == proses[r].id
<1>1. /\ proses[r].pc = "kunci" /\ Pemegang(proses[r].fd) = {}
      /\ jalur' = jalur /\ janji' = janji
  BY DEF BacaSesi, Kunci
<1>2. PICK pc \in {"gc", "aplikasi"} :
         proses' = [proses EXCEPT ![r].pc = pc, ![r].var = d, ![r].baca = d, ![r].malas = TRUE,
                                  ![r].kini = IF pc = "gc" THEN jam ELSE 0]
  BY DEF BacaSesi, Kunci
<1>3. Rapi(r) BY SerasiBaca DEF Serasi
<1>4. proses[r] \in Proses /\ proses[r].fd \in Ino BY <1>1, Satu DEF Tertib, Terpasang
<1> HIDE DEF d
<1>5. /\ proses'[r].fd = proses[r].fd /\ proses'[r].id = x
      /\ proses'[r].var = d /\ proses'[r].baca = d
  BY <1>2, <1>4 DEF Proses, Dasar, TipeGerbang, TipeSesiPhp
<1>6. SatuNama' BY <1>1, <1>3, <1>5, NamaTetap DEF Ikatan, Rapi
<1>7. AsalSatu(r)' BY <1>5 DEF AsalSatu, BerUser
<1>8. SetiaSatu(r)'
  <2>1. ASSUME x \in janji PROVE d.user # Tiada
    <3>1. jalur[x] = proses[r].fd
      BY <1>4, <2>1, JanjiPisah, BedaTiada DEF Identitas, Nama
    <3>2. \A s \in Req : ~Akan(s, x) BY <1>1, <3>1 DEF Akan, BerUser, Pemegang
    <3> HIDE DEF x
    <3> QED BY <2>1, <3>1, <3>2 DEF Ikatan, Ditepati, d
  <2> QED BY <1>1, <1>5, <2>1 DEF SetiaSatu
<1>9. Setor(r) BY <1>1, SetorLuar DEF Memegang
<1> QED BY <1>3, <1>6, <1>7, <1>8, <1>9, IkatanLangkah

LEMMA IkatanKumpulkan ==
    ASSUME Dasar, Tunggal, Cermin, Ikatan, NEW r \in Req, Kumpulkan(r) PROVE Ikatan'
<1>1. Rapi(r) BY SerasiKumpulkan DEF Serasi
<1>2. proses[r] \in Proses /\ Tertib(proses[r]) /\ proses[r].pc \in {"gc", "gcunlink"}
  BY Satu DEF Kumpulkan, GcStat, GcSelesai, GcUnlink
<1>3. /\ proses'[r].fd = proses[r].fd /\ proses'[r].id = proses[r].id
      /\ proses'[r].var = proses[r].var /\ proses'[r].baca = proses[r].baca
  <2>1. CASE GcStat(r)
    BY <1>2, <2>1 DEF GcStat, Proses, Dasar, TipeGerbang, TipeSesiPhp
  <2>2. CASE GcSelesai(r)
    BY <1>2, <2>2 DEF GcSelesai, Proses, Dasar, TipeGerbang, TipeSesiPhp
  <2>3. CASE GcUnlink(r)
    BY <1>2, <2>3 DEF GcUnlink, Proses, Dasar, TipeGerbang, TipeSesiPhp
  <2> QED BY <2>1, <2>2, <2>3 DEF Kumpulkan
<1>4. /\ proses[r].pc \in Memegang \ Menulis /\ proses[r].pc \in Membaca
      /\ proses[r].var # Tiada
  BY <1>2, BedaTiada DEF Tertib, Terpasang, Memegang, Menulis, Membaca
<1>5. CASE GcStat(r) \/ GcSelesai(r)
  <2>1. jalur' = jalur /\ berkas' = berkas /\ janji' = janji
    BY <1>2, <1>5 DEF Kumpulkan, GcStat, GcSelesai, GcUnlink, riwayat
  <2> QED BY <1>1, <1>3, <1>4, <2>1, IkatanTetap
<1>6. CASE GcUnlink(r) /\ janji' = janji \ {proses[r].sasaran}
  <2> DEFINE x == proses[r].sasaran
  <2>1. x \in Id BY <1>2, <1>6 DEF GcUnlink, Tertib
  <2>2. jalur' = [jalur EXCEPT ![x] = Tiada] /\ berkas' = Bersihkan(berkas, jalur', proses')
    BY <1>6 DEF GcUnlink
  <2> HIDE DEF x
  <2>3. \A i \in Id : jalur'[i] = IF i = x THEN Tiada ELSE jalur[i]
    BY <2>2 DEF Dasar, TipeGerbang, TipeSesiPhp
  <2>4. SatuNama' BY <1>1, <1>3, <2>3, NamaTetap DEF Ikatan, Rapi
  <2>5. AsalSatu(r)' BY <1>3, <1>4 DEF Ikatan, AsalSatu, BerUser
  <2>6. SetiaSatu(r)' BY <1>3, <1>4, <1>6 DEF Ikatan, SetiaSatu
  <2>7. Setor(r)
    <3> SUFFICES ASSUME NEW i \in janji, i # x
                 PROVE  /\ jalur'[i] = jalur[i]
                        /\ proses[r].fd = jalur[i] => berkas'[jalur[i]].isi.user # Tiada
      BY <1>6 DEF Setor, x
    <3>1. i \in Id /\ jalur[i] \in Ino BY JanjiIno
    <3>2. jalur'[i] = jalur[i] BY <2>3, <3>1
    <3>3. jalur[i] \in Acuan(jalur', proses') BY <3>1, <3>2 DEF Acuan
    <3>4. berkas'[jalur[i]] = berkas[jalur[i]] BY <2>2, <3>1, <3>3 DEF Bersihkan
    <3>5. proses[r].fd = jalur[i] => berkas[jalur[i]].isi.user # Tiada BY <1>4, Isinya
    <3> QED BY <3>2, <3>4, <3>5
  <2> QED BY <1>1, <2>4, <2>5, <2>6, <2>7, IkatanLangkah
<1> QED BY <1>5, <1>6 DEF Kumpulkan

\* A script that ends with $_SESSION = d.
LEMMA IkatanJalankan ==
    ASSUME Dasar, Tunggal, Ikatan, NEW r \in Req, NEW d, Rapi(r), Jalankan(r, d),
           d.user = proses[r].var.user, proses[r].pc \in {"aplikasi", "periksa"},
           janji' = janji, \A n \in Ino : berkas'[n].isi = berkas[n].isi
    PROVE  Ikatan'
<1>1. proses[r] \in Proses /\ Tertib(proses[r]) BY Satu
<1>2. proses' = [proses EXCEPT ![r].pc = "kirim", ![r].var = d, ![r].lokal = Tiada]
      /\ jalur' = jalur
  BY DEF Jalankan
<1>3. /\ proses'[r].fd = proses[r].fd /\ proses'[r].id = proses[r].id
      /\ proses'[r].baca = proses[r].baca /\ proses'[r].var = d /\ proses'[r].pc = "kirim"
  BY <1>1, <1>2 DEF Proses, Dasar, TipeGerbang, TipeSesiPhp
<1>4. proses[r].pc \in Memegang \ Menulis /\ proses[r].var # Tiada
  BY <1>1, BedaTiada DEF Tertib, Terpasang, Memegang, Menulis
<1>5. proses'[r].pc \notin Membaca BY <1>3 DEF Membaca
<1> QED BY <1>2, <1>3, <1>4, <1>5, IkatanTetap

LEMMA IkatanSkrip ==
    ASSUME Dasar, Tunggal, Cermin, Ikatan, NEW r \in Req,
           \/ Depan(r) \/ TokenDitolak(r) \/ Dibatasi(r) \/ DaftarWarga(r) \/ TanpaLogin(r)
           \/ Tampil(r) \/ Ajax(r)
    PROVE  Ikatan'
<1>1. proses[r].pc \in {"aplikasi", "periksa"}
  BY DEF Depan, TokenDitolak, Dibatasi, DaftarWarga, TanpaLogin, Tampil, Ajax, Berjalan
<1>2. proses[r].var \in IsiGerbang
  BY <1>1, Satu, AsumsiGerbang DEF Tertib, Terpasang
<1>3. \E d : Selesaikan(r, d) /\ d.user = proses[r].var.user
  <2>1. [proses[r].var EXCEPT !.token = TRUE].user = proses[r].var.user
    BY <1>2 DEF IsiGerbang
  <2>2. \A k : [proses[r].var EXCEPT !.aktif = jam, !.kilat = k].user = proses[r].var.user
    BY <1>2 DEF IsiGerbang
  <2> QED BY <2>1, <2>2 DEF Depan, TokenDitolak, Dibatasi, DaftarWarga, TanpaLogin, Tampil, Ajax
<1>4. PICK d : Selesaikan(r, d) /\ d.user = proses[r].var.user BY <1>3
<1>5. Jalankan(r, d) /\ berkas' = berkas /\ janji' = janji
  BY <1>4 DEF Selesaikan, riwayat
<1>6. Rapi(r) BY SerasiSkrip DEF Serasi
<1> QED BY <1>1, <1>4, <1>5, <1>6, IkatanJalankan

LEMMA IkatanGagal ==
    ASSUME Dasar, Tunggal, Cermin, Ikatan, NEW r \in Req, LoginGagal(r) PROVE Ikatan'
<1>1. proses[r].pc = "periksa" /\ Jalankan(r, proses[r].var) /\ janji' = janji
  BY DEF LoginGagal, riwayat
<1>2. \A n \in Ino : berkas'[n].isi = berkas[n].isi
  <2>1. berkas' = [berkas EXCEPT ![proses[r].fd].gagal = @ + 1] BY SahGagal
  <2> QED BY <2>1 DEF Berkas, Dasar, TipeGerbang, TipeSesiPhp
<1>3. Rapi(r) BY SerasiGagal DEF Serasi
<1> QED BY <1>1, <1>2, <1>3, IkatanJalankan

LEMMA IkatanHitung ==
    ASSUME Dasar, Tunggal, Cermin, Ikatan, NEW r \in Req, HitungPercobaan(r) PROVE Ikatan'
<1> DEFINE l == IF percobaan >= Batas THEN "batas" ELSE "bebas"
<1>1. /\ proses[r].pc = "aplikasi" /\ jalur' = jalur /\ berkas' = berkas /\ janji' = janji
      /\ proses' = [proses EXCEPT ![r].pc = "periksa", ![r].lokal = l]
  BY DEF HitungPercobaan, Berjalan, riwayat
<1> HIDE DEF l
<1>2. proses[r] \in Proses /\ Tertib(proses[r]) BY Satu
<1>3. /\ proses'[r].fd = proses[r].fd /\ proses'[r].id = proses[r].id
      /\ proses'[r].baca = proses[r].baca /\ proses'[r].var = proses[r].var
  BY <1>1, <1>2 DEF Proses, Dasar, TipeGerbang, TipeSesiPhp
<1>4. /\ proses[r].pc \in Memegang \ Menulis /\ proses[r].pc \in Membaca
      /\ proses[r].var # Tiada
  BY <1>1, <1>2, BedaTiada DEF Tertib, Terpasang, Memegang, Menulis, Membaca
<1>5. Rapi(r) BY SerasiHitung DEF Serasi
<1> QED BY <1>1, <1>3, <1>4, <1>5, IkatanTetap

LEMMA IkatanMasuk ==
    ASSUME Dasar, Tunggal, Identitas, Cermin, Ikatan, NEW r \in Req, MasukBaru(r)
    PROVE  Ikatan'
<1> DEFINE i == idBaru + 1
           d == SetelahMasuk(proses[r].var, proses[r].lokal)
<1>1. i \in Id /\ proses[r].pc = "baru" /\ janji' = janji
  BY DEF MasukBaru, Baru, riwayat
<1>2. PICK n \in InodeBebas :
         /\ jalur' = [jalur EXCEPT ![i] = n]
         /\ proses' = [proses EXCEPT ![r].pc = "kirim", ![r].id = i, ![r].fd = n,
                                     ![r].var = d, ![r].baca = Kosong, ![r].malas = FALSE,
                                     ![r].kuki = TRUE, ![r].lanjut = Tiada, ![r].lokal = Tiada]
  BY DEF MasukBaru, Baru
<1>3. Rapi(r) /\ Sah(r) BY SerasiMasuk DEF Identitas, Serasi, Rapi
<1>4. proses[r] \in Proses /\ idBaru \in Nat BY Satu DEF Dasar, TipeGerbang, TipeSesiPhp
<1>5. jalur[i] = Tiada /\ n \notin Acuan(jalur, proses)
  <2>1. i \notin 1..idBaru BY <1>4
  <2> QED BY <1>1, <2>1, Bebas DEF Identitas, Segar
<1>6. i \notin janji BY <1>5, JanjiIno
<1> HIDE DEF i, d
<1>7. proses'[r].id = i /\ proses'[r].fd = n /\ proses'[r].baca = Kosong
  BY <1>2, <1>4 DEF Proses, Dasar, TipeGerbang, TipeSesiPhp
<1>8. SatuNama' BY <1>1, <1>2, <1>3, <1>5, <1>7, NamaBaru DEF Ikatan
<1>9. AsalSatu(r)' /\ SetiaSatu(r)' BY <1>1, <1>6, <1>7 DEF AsalSatu, SetiaSatu
<1>10. Setor(r)
  <2>1. \A j \in Id : j # i => jalur'[j] = jalur[j]
    BY <1>2 DEF Dasar, TipeGerbang, TipeSesiPhp
  <2> QED BY <1>1, <1>6, <2>1, JanjiIno, SetorLuar DEF Memegang
<1> QED BY <1>3, <1>8, <1>9, <1>10, IkatanLangkah

\* The promise itself.
LEMMA IkatanJawab ==
    ASSUME Dasar, Tunggal, Identitas, Cermin, Ikatan, NEW r \in Req, Jawab(r)
    PROVE  Ikatan'
<1> DEFINE x == proses[r].id
<1>1. proses[r].pc = "kirim" /\ jalur' = jalur /\ berkas' = berkas BY DEF Jawab, Kirim
<1>2. proses[r] \in Proses /\ Rapi(r) /\ Sah(r) BY Satu, SerasiJawab DEF Serasi, Rapi
<1>3. CASE proses[r].var = Tiada
  <2>1. proses'[r] = Luar BY <1>3 DEF Jawab, Kirim, Dasar, TipeGerbang, TipeSesiPhp
  <2>2. proses'[r].fd = Tiada BY <2>1 DEF Luar
  <2>3. proses[r].fd = Tiada BY <1>1, <1>3 DEF Cermin, CerminSatu
  <2>4. janji' = janji BY <1>3 DEF Jawab
  <2>5. Setor(r) BY <1>1, <2>3, <2>4, SetorLuar
  <2> QED BY <1>1, <1>2, <2>2, <2>5, IkatanTanpaFd
<1>4. CASE proses[r].var # Tiada
  <2>1. proses'[r] = [proses[r] EXCEPT !.pc = "tulis", !.kuki = FALSE]
    BY <1>4 DEF Jawab, Kirim, Dasar, TipeGerbang, TipeSesiPhp
  <2>2. /\ proses'[r].pc = "tulis" /\ proses'[r].fd = proses[r].fd
        /\ proses'[r].id = x /\ proses'[r].var = proses[r].var
        /\ proses'[r].baca = proses[r].baca
    BY <1>2, <2>1 DEF Proses
  <2>3. SatuNama' BY <1>1, <1>2, <2>2, NamaTetap DEF Ikatan
  <2>4. \A s \in Req : /\ proses'[s].fd = proses[s].fd /\ proses'[s].id = proses[s].id
                       /\ proses'[s].var = proses[s].var /\ proses'[s].baca = proses[s].baca
                       /\ proses'[s].pc \in Memegang <=> proses[s].pc \in Memegang
                       /\ proses[s].pc \in Menulis => proses'[s].pc \in Menulis
                       /\ proses'[s].pc \in Membaca => proses[s].pc \in Membaca
    BY <1>1, <1>2, <2>2 DEF Sah, Memegang, Menulis, Membaca
  <2>5. \A s \in Req : AsalSatu(s)' BY <2>4 DEF Ikatan, AsalSatu, BerUser
  <2>6. \A s \in Req, i \in janji : Akan(s, i) => Akan(s, i)'
    BY <1>1, <2>4 DEF Akan, BerUser
  <2>7. CASE janji' = janji
    <3>1. \A s \in Req : SetiaSatu(s)' BY <2>4, <2>7 DEF Ikatan, SetiaSatu
    <3>2. Ditepati' BY <1>1, <2>6, <2>7 DEF Ikatan, Ditepati
    <3> QED BY <2>3, <2>5, <3>1, <3>2 DEF Ikatan
  <2>8. CASE janji' = janji \cup {x} /\ proses[r].var.user # Tiada /\ jalur[x] = proses[r].fd
    <3>1. proses[r].fd \in Ino /\ proses[r].fd # Tiada
      BY <1>1, <1>4, Satu, BedaTiada DEF Tertib
    <3>2. BerUser(r) BY <1>1, <1>4, <2>8, <3>1 DEF BerUser, Memegang
    <3>3. Ditepati'
      <4> SUFFICES ASSUME NEW i \in janji'
                   PROVE  /\ jalur[i] # Tiada
                          /\ \/ berkas[jalur[i]].isi.user # Tiada
                             \/ \E s \in Req : Akan(s, i)'
        BY <1>1 DEF Ditepati
      <4>1. CASE i \in janji BY <2>6, <4>1 DEF Ikatan, Ditepati
      <4>2. CASE i = x
        <5>1. Akan(r, i)'
          BY <1>1, <1>4, <2>2, <2>8, <3>1, <4>2 DEF Akan, BerUser, Memegang, Menulis
        <5> QED BY <2>8, <3>1, <4>2, <5>1
      <4> QED BY <2>8, <4>1, <4>2
    <3>4. ASSUME NEW s \in Req PROVE SetiaSatu(s)'
      <4>1. CASE s = r BY <2>2, <2>8, <4>1 DEF SetiaSatu, Membaca
      <4>2. CASE proses[s].id \in janji BY <2>4, <4>2 DEF Ikatan, SetiaSatu
      <4>3. CASE s # r /\ proses[s].id = x
        <5> SUFFICES ASSUME proses[s].pc \in Memegang, proses[s].fd # Tiada PROVE FALSE
          BY <2>4 DEF SetiaSatu
        <5>1. jalur[x] = proses[s].fd \/ x \in tanpaUser BY <4>3 DEF Identitas, Nama
        <5>2. x \notin tanpaUser BY <2>8, <3>2 DEF Identitas, Pisah
        <5>3. proses[s].fd = proses[r].fd BY <2>8, <5>1, <5>2
        <5> QED BY <3>2, <4>3, <5>3 DEF BerUser, Tunggal
      <4> QED BY <2>4, <2>8, <4>1, <4>2, <4>3 DEF SetiaSatu
    <3> QED BY <2>3, <2>5, <3>3, <3>4 DEF Ikatan
  <2> QED BY <2>7, <2>8 DEF Jawab
<1> QED BY <1>3, <1>4

LEMMA IkatanSimpan ==
    ASSUME Dasar, Tunggal, Cermin, Ikatan, NEW r \in Req, Simpan(r) PROVE Ikatan'
<1>1. jalur' = jalur /\ janji' = janji /\ proses[r].pc \in {"tulis", "potong"}
  BY DEF Simpan, Potong, Tulis, riwayat
<1>2. /\ proses[r] \in Proses /\ proses[r].fd \in Ino /\ proses[r].fd # Tiada
      /\ proses[r].var # Tiada /\ proses[r].pc \in Memegang
  BY <1>1, Satu, BedaTiada DEF Tertib, Terpasang, Memegang
<1>3. Rapi(r) BY SerasiSimpan DEF Serasi
<1>4. CASE Potong(r)
  <2>1. proses'[r] = [proses[r] EXCEPT !.pc = "potong"]
    BY <1>4 DEF Potong, Dasar, TipeGerbang, TipeSesiPhp
  <2>2. /\ proses'[r].pc = "potong" /\ proses'[r].fd = proses[r].fd
        /\ proses'[r].id = proses[r].id /\ proses'[r].var = proses[r].var
        /\ proses'[r].baca = proses[r].baca
    BY <1>2, <2>1 DEF Proses
  <2>3. SatuNama' BY <1>1, <1>3, <2>2, NamaTetap DEF Ikatan, Rapi
  <2>4. AsalSatu(r)' BY <1>2, <2>2 DEF Ikatan, AsalSatu, BerUser
  <2>5. SetiaSatu(r)' BY <1>1, <1>2, <2>2 DEF Ikatan, SetiaSatu, Membaca
  <2>6. Setor(r)
    <3> SUFFICES ASSUME NEW i \in janji, proses[r].fd = jalur[i] PROVE Akan(r, i)'
      BY <1>1 DEF Setor
    <3>1. proses[r].var.user # Tiada BY <1>2, Pemilik
    <3> QED BY <1>1, <1>2, <2>2, <3>1 DEF Akan, BerUser, Memegang, Menulis
  <2> QED BY <1>3, <2>3, <2>4, <2>5, <2>6, IkatanLangkah
<1>5. CASE Tulis(r)
  <2>1. PICK b : b = IF proses[r].pc = "tulis" /\ Malas(r)
                     THEN [berkas EXCEPT ![jalur[proses[r].id]].mtime = jam]
                     ELSE Ditulis(berkas, proses[r].fd, proses[r].var)
    OBVIOUS
  <2>2. proses' = [proses EXCEPT ![r] = Luar] /\ berkas' = Bersihkan(b, jalur', proses')
    BY <1>1, <1>5, <2>1 DEF Tulis
  <2>3. proses'[r].fd = Tiada BY <2>2 DEF Luar, Dasar, TipeGerbang, TipeSesiPhp
  <2>4. Setor(r)
    <3> SUFFICES ASSUME NEW i \in janji, proses[r].fd = jalur[i]
                 PROVE  berkas'[jalur[i]].isi.user # Tiada
      BY <1>1 DEF Setor
    <3>1. i \in Id /\ jalur[i] \in Ino BY JanjiIno
    <3>2. proses[r].var.user # Tiada BY <1>2, Pemilik
    <3>3. b[proses[r].fd].isi = proses[r].var
      <4>1. CASE proses[r].pc = "tulis" /\ Malas(r)
        <5>1. berkas[proses[r].fd].isi = proses[r].var
          BY <1>2, <4>1 DEF Malas, Cermin, CerminSatu, Terlihat
        <5>2. b = [berkas EXCEPT ![jalur[proses[r].id]].mtime = jam] BY <2>1, <4>1
        <5>3. \A n \in Ino : b[n].isi = berkas[n].isi
          BY <5>2 DEF Berkas, Dasar, TipeGerbang, TipeSesiPhp
        <5> QED BY <1>2, <5>1, <5>3
      <4>2. CASE ~(proses[r].pc = "tulis" /\ Malas(r))
        <5>1. proses[r].var # Kosong BY <3>2, KosongUser
        <5>2. b = [berkas EXCEPT ![proses[r].fd].isi = proses[r].var,
                                 ![proses[r].fd].mtime = jam]
          BY <2>1, <4>2, <5>1 DEF Ditulis
        <5> QED BY <1>2, <5>2 DEF Berkas, Dasar, TipeGerbang, TipeSesiPhp
      <4> QED BY <4>1, <4>2
    <3>4. jalur[i] \in Acuan(jalur', proses') BY <1>1, <3>1 DEF Acuan
    <3>5. berkas'[jalur[i]] = b[jalur[i]] BY <2>2, <3>1, <3>4 DEF Bersihkan
    <3> QED BY <3>2, <3>3, <3>5
  <2> QED BY <1>1, <1>3, <2>3, <2>4, IkatanTanpaFd
<1> QED BY <1>4, <1>5 DEF Simpan

\* A process that dies holding the file of a promise had not begun to write.
LEMMA IkatanTerbunuh ==
    ASSUME Dasar, Tunggal, Cermin, Ikatan, NEW r \in Req, Terbunuh(r) PROVE Ikatan'
<1>1. /\ proses' = [proses EXCEPT ![r] = Luar] /\ jalur' = jalur
      /\ berkas' = Bersihkan(berkas, jalur', proses')
      /\ janji' = IF proses[r].baca = Kosong \/ proses[r].pc = "potong"
                  THEN janji \ {proses[r].id} ELSE janji
  BY DEF Terbunuh, Mati
<1>2. proses'[r].fd = Tiada BY <1>1 DEF Luar, Dasar, TipeGerbang, TipeSesiPhp
<1>3. Rapi(r) BY SerasiTerbunuh DEF Serasi
<1>4. Setor(r)
  <2> SUFFICES ASSUME NEW i \in janji', proses[r].pc \in Memegang, proses[r].fd = jalur[i]
               PROVE  berkas'[jalur[i]].isi.user # Tiada
    BY <1>1 DEF Setor
  <2>1. i \in janji BY <1>1
  <2>2. i \in Id /\ jalur[i] \in Ino /\ jalur[i] # Tiada BY <2>1, JanjiIno
  <2>3. i = proses[r].id /\ proses[r].var.user # Tiada BY <2>1, Pemilik
  <2>4. proses[r].baca # Kosong /\ proses[r].pc # "potong" BY <1>1, <2>3
  <2>5. berkas[jalur[i]].isi = proses[r].baca
    BY <2>2, <2>4 DEF Cermin, CerminSatu, Terlihat
  <2>6. proses[r].var # Tiada
    <3>1. CASE proses[r].pc = "kirim" BY <2>2, <3>1 DEF Cermin, CerminSatu
    <3>2. CASE proses[r].pc # "kirim"
      BY <3>2, Satu, BedaTiada DEF Tertib, Terpasang, Memegang
    <3> QED BY <3>1, <3>2
  <2>7. proses[r].baca.user # Tiada
    BY <2>2, <2>3, <2>4, <2>6 DEF Ikatan, AsalSatu, BerUser
  <2>8. jalur[i] \in Acuan(jalur', proses') BY <1>1, <2>2 DEF Acuan
  <2>9. berkas'[jalur[i]] = berkas[jalur[i]] BY <1>1, <2>2, <2>8 DEF Bersihkan
  <2> QED BY <2>5, <2>7, <2>9
<1> QED BY <1>1, <1>2, <1>3, <1>4, IkatanTanpaFd

LEMMA IkatanWaktu == ASSUME Dasar, Ikatan, Waktu PROVE Ikatan'
<1>1. jalur' = jalur /\ proses' = proses /\ janji' = janji BY DEF Waktu, Detik, riwayat
<1>2. \A n \in Ino : berkas'[n].isi = berkas[n].isi
  BY DEF Waktu, Berkas, Dasar, TipeGerbang, TipeSesiPhp
<1>3. SatuNama' /\ \A r \in Req : AsalSatu(r)' /\ SetiaSatu(r)'
  BY <1>1 DEF Ikatan, SatuNama, AsalSatu, SetiaSatu, BerUser
<1>4. \A r \in Req, i \in janji : Akan(r, i)' <=> Akan(r, i) BY <1>1 DEF Akan, BerUser
<1>5. Ditepati' BY <1>1, <1>2, <1>4, JanjiIno DEF Ikatan, Ditepati
<1> QED BY <1>3, <1>5 DEF Ikatan

-----------------------------------------------------------------------------
LEMMA IkatanSatuLangkah ==
    ASSUME Dasar, Tunggal, Identitas, Cermin, Ikatan, NEW r \in Req,
           Kunjungan(r) \/ BacaSesi(r) \/ Langkah(r) \/ Terbunuh(r)
    PROVE  Ikatan'
<1>1. CASE Kunjungan(r) \/ BacaSesi(r) \/ Terbunuh(r)
  BY <1>1, IkatanKunjungan, IkatanBaca, IkatanTerbunuh
<1>2. CASE MulaiSesi(r) \/ Kumpulkan(r) \/ MasukBaru(r)
  BY <1>2, IkatanMulai, IkatanKumpulkan, IkatanMasuk
<1>3. CASE HitungPercobaan(r) \/ LoginGagal(r)
  BY <1>3, IkatanHitung, IkatanGagal
<1>4. CASE \/ Depan(r) \/ TokenDitolak(r) \/ Dibatasi(r) \/ DaftarWarga(r) \/ TanpaLogin(r)
           \/ Tampil(r) \/ Ajax(r)
  BY <1>4, IkatanSkrip
<1>5. CASE LoginBenar(r) \/ HabisDiam(r) \/ AkunHilang(r) \/ Keluar(r)
  BY <1>5, IkatanAkhiri
<1>6. CASE HapusSesi(r) \/ AksesSesi(r) \/ Jawab(r) \/ Simpan(r)
  BY <1>6, IkatanHapus, IkatanJawab, IkatanSimpan
<1> QED BY <1>1, <1>2, <1>3, <1>4, <1>5, <1>6 DEF Langkah

LEMMA IkatanUtuh ==
    Dasar /\ Tunggal /\ Identitas /\ Cermin /\ Ikatan /\ [Next]_vars => Ikatan'
<1> SUFFICES ASSUME Dasar, Tunggal, Identitas, Cermin, Ikatan, [Next]_vars PROVE Ikatan'
  OBVIOUS
<1>1. CASE Next BY <1>1, IkatanSatuLangkah, IkatanWaktu DEF Next
<1>2. CASE UNCHANGED vars
  BY <1>2 DEF vars, sesiVars, riwayat, Ikatan, SatuNama, Ditepati, Akan, AsalSatu, SetiaSatu,
              BerUser
<1> QED BY <1>1, <1>2

LEMMA IkatanAwal == Init => Ikatan
BY DEF Init, InitSesi, Luar, Ikatan, SatuNama, Ditepati, AsalSatu, SetiaSatu, BerUser, Memegang

LEMMA IkatanTampak == Dasar /\ Ikatan => LoginTerlihat
<1> SUFFICES ASSUME Dasar, Ikatan, NEW r \in Req, proses[r].id \in janji,
                    proses[r].pc \in Membaca
             PROVE  proses[r].baca.user # Tiada
  BY DEF LoginTerlihat, Membaca
<1>1. proses[r].pc \in Memegang /\ proses[r].fd # Tiada
  BY Satu, BedaTiada DEF Membaca, Memegang, Tertib, Terpasang
<1> QED BY <1>1 DEF Ikatan, SetiaSatu

(***************************************************************************)
(* The redirect of index.php after a login leaves before the session is    *)
(* saved (main.c:1986 and 1998).  Whatever requests, logouts, collections  *)
(* and lost processes come between, the next request under that id reads a *)
(* user, as long as the session is not ended or lost with its writer.      *)
(***************************************************************************)
THEOREM LoginTampak == Spec => []LoginTerlihat
<1> DEFINE Inv == Dasar /\ Tunggal /\ Identitas /\ Cermin /\ Ikatan
<1>1. Init => Inv BY DasarAwal, TunggalAwal, IdentitasAwal, SerialAwal, IkatanAwal
<1>2. Inv /\ [Next]_vars => Inv'
  BY DasarTetap, TunggalTetap, IdentitasTetap, SerialTetap, IkatanUtuh DEF Identitas
<1>3. Inv => LoginTerlihat BY IkatanTampak
<1> QED BY <1>1, <1>2, <1>3, PTL DEF Spec
=============================================================================
