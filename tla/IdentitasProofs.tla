--------------------------- MODULE IdentitasProofs ---------------------------
(* An id that a visitor has used, or whose session has ended, never names a  *)
(* session with a user: the proof that index.php:117 does what it is for.    *)
EXTENDS GerbangProofs

\* r holds a file and has a user in $_SESSION.
BerUser(r) ==
    /\ proses[r].pc \in Memegang /\ proses[r].fd # Tiada
    /\ proses[r].var # Tiada /\ proses[r].var.user # Tiada

\* Ids that are in use have been created.
Segar ==
    /\ tanpaUser \subseteq 1..idBaru
    /\ \A b \in Peramban : kuki[b] # Tiada => kuki[b] \in 1..idBaru
    /\ \A i \in Id : jalur[i] # Tiada => i \in 1..idBaru
    /\ \A r \in Req : /\ proses[r].id # Tiada => proses[r].id \in 1..idBaru
                      /\ proses[r].sasaran # Tiada => proses[r].sasaran \in 1..idBaru

\* A request has the file of its name open, or the name has lost it.
Nama ==
    \A r \in Req : proses[r].fd # Tiada =>
        jalur[proses[r].id] = proses[r].fd \/ proses[r].id \in tanpaUser

\* No request that would write a user has a file with such a name.
Pisah == \A r \in Req : BerUser(r) => \A i \in tanpaUser : jalur[i] # proses[r].fd

Identitas == Segar /\ Nama /\ Pisah /\ LoginGantiId

-----------------------------------------------------------------------------
(* The steps that give no file a user it did not have *)

HalusProses(r) ==
    /\ Sah(r)
    /\ proses'[r].id \in {Tiada, proses[r].id} \cup {kuki[b] : b \in Peramban}
    /\ proses'[r].sasaran \in {Tiada, proses[r].sasaran} \cup 1..idBaru
    /\ proses'[r].fd # Tiada => proses'[r].fd = proses[r].fd /\ proses'[r].id = proses[r].id
    /\ BerUser(r)' => BerUser(r)

HalusBerkas(r) ==
    \A n \in Ino : berkas'[n].isi.user # Tiada =>
        berkas[n].isi.user # Tiada \/ (BerUser(r) /\ proses[r].fd = n)

HalusNama(r) ==
    /\ idBaru' = idBaru
    /\ \A b \in Peramban : kuki'[b] \in {kuki[b], proses[r].id}
    /\ tanpaUser \subseteq tanpaUser'
    /\ \A i \in tanpaUser' \ tanpaUser : i \in 1..idBaru /\ jalur'[i] = Tiada
    /\ \A i \in Id : jalur'[i] = jalur[i] \/ (jalur'[i] = Tiada /\ i \in tanpaUser')

LEMMA HalusIdentitas ==
    ASSUME Dasar, Identitas, NEW r \in Req, HalusProses(r), HalusBerkas(r), HalusNama(r),
           tanpaUser' \subseteq Id, jalur' \in [Id -> Mungkin(Ino)]
    PROVE  Identitas'
<1>1. Segar'
  <2>1. tanpaUser' \subseteq 1..idBaru' BY DEF Identitas, Segar, HalusNama
  <2>2. \A b \in Peramban : kuki'[b] # Tiada => kuki'[b] \in 1..idBaru'
    BY DEF Identitas, Segar, HalusNama
  <2>3. \A i \in Id : jalur'[i] # Tiada => i \in 1..idBaru'
    BY DEF Identitas, Segar, HalusNama
  <2>4. \A s \in Req : proses'[s].id # Tiada => proses'[s].id \in 1..idBaru'
    BY DEF Identitas, Segar, HalusNama, HalusProses, Sah
  <2>5. \A s \in Req : proses'[s].sasaran # Tiada => proses'[s].sasaran \in 1..idBaru'
    BY DEF Identitas, Segar, HalusNama, HalusProses, Sah
  <2> QED BY <2>1, <2>2, <2>3, <2>4, <2>5 DEF Segar
<1>2. Nama'
  <2> SUFFICES ASSUME NEW s \in Req, proses'[s].fd # Tiada
               PROVE  jalur'[proses'[s].id] = proses'[s].fd \/ proses'[s].id \in tanpaUser'
    BY DEF Nama
  <2>1. proses'[s].fd = proses[s].fd /\ proses'[s].id = proses[s].id
    BY DEF HalusProses, Sah
  <2>2. proses[s].id \in Id
    BY <2>1, Satu, BedaTiada DEF Tertib
  <2>3. jalur[proses[s].id] = proses[s].fd \/ proses[s].id \in tanpaUser
    BY <2>1 DEF Identitas, Nama
  <2> QED BY <2>1, <2>2, <2>3 DEF HalusNama
<1>3. Pisah'
  <2> SUFFICES ASSUME NEW s \in Req, BerUser(s)', NEW i \in tanpaUser'
               PROVE  jalur'[i] # proses'[s].fd
    BY DEF Pisah
  <2>1. BerUser(s) /\ proses'[s].fd = proses[s].fd /\ proses'[s].fd # Tiada
    BY DEF HalusProses, Sah, BerUser
  <2>2. CASE jalur'[i] = Tiada BY <2>1, <2>2
  <2>3. CASE jalur'[i] # Tiada
    BY <2>1, <2>3 DEF HalusNama, Identitas, Pisah
  <2> QED BY <2>2, <2>3
<1>4. LoginGantiId'
  <2> SUFFICES ASSUME NEW i \in tanpaUser', jalur'[i] # Tiada
               PROVE  berkas'[jalur'[i]].isi.user = Tiada
    BY DEF LoginGantiId
  <2>1. i \in tanpaUser /\ jalur'[i] = jalur[i] /\ jalur'[i] \in Ino
    BY DEF HalusNama, Mungkin
  <2>2. berkas[jalur[i]].isi.user = Tiada BY <2>1 DEF Identitas, LoginGantiId
  <2>3. ~(BerUser(r) /\ proses[r].fd = jalur[i]) BY <2>1 DEF Identitas, Pisah
  <2> QED BY <2>1, <2>2, <2>3 DEF HalusBerkas
<1> QED BY <1>1, <1>2, <1>3, <1>4 DEF Identitas

LEMMA TanpaNama ==
    ASSUME Dasar, NEW r \in Req, UNCHANGED <<idBaru, kuki, tanpaUser, jalur>>
    PROVE  HalusNama(r)
BY DEF HalusNama

LEMMA TanpaBerkas == ASSUME NEW r \in Req, berkas' = berkas PROVE HalusBerkas(r)
BY DEF HalusBerkas

LEMMA KosongUser == Kosong.user = Tiada /\ BerkasLepas.isi.user = Tiada
BY AsumsiGerbang DEF KosongGerbang, BerkasLepas

LEMMA BersihUser ==
    ASSUME NEW r \in Req, NEW j, NEW p, NEW b,
           berkas' = Bersihkan(b, j, p),
           \A n \in Ino : b[n].isi.user # Tiada =>
              berkas[n].isi.user # Tiada \/ (BerUser(r) /\ proses[r].fd = n)
    PROVE  HalusBerkas(r)
BY KosongUser DEF Bersihkan, HalusBerkas

\* Steps after which r has no file open.
LEMMA TanpaFd ==
    ASSUME NEW r \in Req, Sah(r), proses'[r].fd = Tiada,
           proses'[r].id \in {Tiada, proses[r].id} \cup {kuki[b] : b \in Peramban},
           proses'[r].sasaran \in {Tiada, proses[r].sasaran}
    PROVE  HalusProses(r)
BY DEF HalusProses, BerUser

\* Steps in which r keeps its file, its id and the user of $_SESSION.
LEMMA TetapFd ==
    ASSUME NEW r \in Req, Sah(r), proses'[r].fd = proses[r].fd, proses'[r].id = proses[r].id,
           proses[r].pc \in Memegang, proses[r].var # Tiada,
           proses'[r].var.user # Tiada => proses[r].var.user # Tiada,
           proses'[r].sasaran \in {Tiada, proses[r].sasaran} \cup 1..idBaru
    PROVE  HalusProses(r)
BY DEF HalusProses, BerUser

\* A step of r of this kind.
Halus(r) == HalusProses(r) /\ HalusBerkas(r) /\ HalusNama(r)

LEMMA HalusKunjungan ==
    ASSUME Dasar, NEW r \in Req, Kunjungan(r) PROVE Halus(r)
<1>1. PICK b \in Peramban : Datang(r, b, kuki[b]) BY DEF Kunjungan
<1>2. /\ proses'[r] = [Luar EXCEPT !.pc = "buka", !.b = b, !.id = kuki[b]]
      /\ UNCHANGED <<idBaru, kuki, tanpaUser, jalur, berkas>>
  BY <1>1 DEF Datang, Kunjungan, riwayat, Dasar, TipeGerbang, TipeSesiPhp
<1>3. proses'[r].fd = Tiada /\ proses'[r].id = kuki[b] /\ proses'[r].sasaran = Tiada
  BY <1>2 DEF Luar
<1>4. Sah(r) BY UmumKunjungan DEF Umum, Wajar
<1> QED BY <1>2, <1>3, <1>4, TanpaNama, TanpaBerkas, TanpaFd DEF Halus

LEMMA HalusKumpulkan ==
    ASSUME Dasar, Segar, NEW r \in Req, Kumpulkan(r) PROVE Halus(r)
<1>1. Sah(r) BY UmumKumpulkan DEF Umum, Wajar
<1>2. proses[r] \in Proses /\ Tertib(proses[r]) /\ proses[r].pc \in {"gc", "gcunlink"}
  BY Satu DEF Kumpulkan, GcStat, GcSelesai, GcUnlink
<1>3. /\ proses'[r].fd = proses[r].fd /\ proses'[r].id = proses[r].id
      /\ proses'[r].var = proses[r].var
      /\ proses'[r].sasaran \in {Tiada, proses[r].sasaran} \cup 1..idBaru
  <2>1. CASE GcStat(r)
    <3>1. PICK i \in Id : /\ Usang(i, proses[r].kini)
                         /\ proses' = [proses EXCEPT ![r].pc = "gcunlink", ![r].sasaran = i]
      BY <2>1 DEF GcStat
    <3>2. i \in 1..idBaru BY <3>1 DEF Usang, Segar
    <3> QED BY <1>2, <3>1, <3>2 DEF Proses, Dasar, TipeGerbang, TipeSesiPhp
  <2>2. CASE GcSelesai(r)
    BY <1>2, <2>2 DEF GcSelesai, Proses, Dasar, TipeGerbang, TipeSesiPhp
  <2>3. CASE GcUnlink(r)
    BY <1>2, <2>3 DEF GcUnlink, Proses, Dasar, TipeGerbang, TipeSesiPhp
  <2> QED BY <2>1, <2>2, <2>3 DEF Kumpulkan
<1>4. HalusProses(r)
  <2>1. proses[r].pc \in Memegang /\ proses[r].var # Tiada
    BY <1>2, BedaTiada DEF Tertib, Terpasang, Memegang
  <2> QED BY <1>1, <1>3, <2>1, TetapFd
<1>5. CASE UNCHANGED <<berkas, jalur, idBaru, kuki, tanpaUser>>
  BY <1>4, <1>5, TanpaNama, TanpaBerkas DEF Halus
<1>6. CASE GcUnlink(r) /\ UNCHANGED <<idBaru, kuki>>
           /\ tanpaUser' = tanpaUser \cup {proses[r].sasaran}
  <2> DEFINE x == proses[r].sasaran
  <2>1. berkas' = Bersihkan(berkas, jalur', proses') /\ jalur' = [jalur EXCEPT ![x] = Tiada]
    BY <1>6 DEF GcUnlink
  <2>2. HalusBerkas(r) BY <2>1, BersihUser
  <2>3. x \in Id BY <1>6, <1>2 DEF GcUnlink, Tertib
  <2>4. x \in 1..idBaru
    <3>1. x # Tiada => x \in 1..idBaru BY DEF Segar
    <3> QED BY <2>3, <3>1, BedaTiada
  <2>5. HalusNama(r)
    <3> HIDE DEF x
    <3> QED BY <1>6, <2>1, <2>3, <2>4 DEF x, HalusNama, Dasar, TipeGerbang, TipeSesiPhp
  <2> QED BY <1>4, <2>2, <2>5 DEF Halus
<1> QED BY <1>5, <1>6 DEF Kumpulkan, GcStat, GcSelesai, GcUnlink, appVars, riwayat

\* A script that ends with $_SESSION = d.
LEMMA HalusJalankan ==
    ASSUME Dasar, NEW r \in Req, NEW d, proses[r].pc \in {"aplikasi", "periksa"},
           Jalankan(r, d), d.user # Tiada => proses[r].var.user # Tiada, Sah(r)
    PROVE  HalusProses(r)
<1>1. proses[r] \in Proses /\ Tertib(proses[r]) BY Satu
<1>2. proses' = [proses EXCEPT ![r].pc = "kirim", ![r].var = d, ![r].lokal = Tiada]
  BY DEF Jalankan
<1>3. /\ proses'[r].fd = proses[r].fd /\ proses'[r].id = proses[r].id
      /\ proses'[r].var = d /\ proses'[r].sasaran = proses[r].sasaran
  BY <1>1, <1>2 DEF Proses, Dasar, TipeGerbang, TipeSesiPhp
<1>4. proses[r].pc \in Memegang /\ proses[r].var # Tiada
  BY <1>1, BedaTiada DEF Tertib, Terpasang, Memegang
<1> QED BY <1>3, <1>4, TetapFd

LEMMA HalusSkrip ==
    ASSUME Dasar, NEW r \in Req,
           \/ Depan(r) \/ TokenDitolak(r) \/ Dibatasi(r) \/ DaftarWarga(r) \/ TanpaLogin(r)
           \/ Tampil(r) \/ Ajax(r)
    PROVE  Halus(r)
<1>1. proses[r].pc \in {"aplikasi", "periksa"}
  BY DEF Depan, TokenDitolak, Dibatasi, DaftarWarga, TanpaLogin, Tampil, Ajax, Berjalan
<1>2. proses[r].var \in IsiGerbang
  BY <1>1, Satu, AsumsiGerbang DEF Tertib, Terpasang
<1>3. \E d : Selesaikan(r, d) /\ d.user = proses[r].var.user
  <2>1. [proses[r].var EXCEPT !.token = TRUE].user = proses[r].var.user
    BY <1>2 DEF IsiGerbang
  <2>2. \A k : [proses[r].var EXCEPT !.aktif = jam, !.kilat = k].user = proses[r].var.user
    BY <1>2 DEF IsiGerbang
  <2> QED BY <2>1, <2>2 DEF Depan, TokenDitolak, Dibatasi, DaftarWarga, TanpaLogin, Tampil, Ajax
<1>4. PICK d : Selesaikan(r, d) /\ d.user = proses[r].var.user BY <1>3
<1>5. Jalankan(r, d) /\ UNCHANGED <<berkas, jalur, idBaru, kuki, tanpaUser>>
  BY <1>4 DEF Selesaikan, Jalankan, appVars, riwayat
<1>6. Sah(r) BY UmumSkrip DEF Umum, Wajar
<1>7. HalusProses(r) BY <1>1, <1>4, <1>5, <1>6, HalusJalankan
<1> QED BY <1>5, <1>7, TanpaNama, TanpaBerkas DEF Halus

LEMMA HalusHitung ==
    ASSUME Dasar, NEW r \in Req, HitungPercobaan(r) PROVE Halus(r)
<1> DEFINE l == IF percobaan >= Batas THEN "batas" ELSE "bebas"
<1>1. /\ proses[r].pc = "aplikasi"
      /\ proses' = [proses EXCEPT ![r].pc = "periksa", ![r].lokal = l]
      /\ UNCHANGED <<berkas, jalur, idBaru, kuki, tanpaUser>>
  BY DEF HitungPercobaan, Berjalan, appVars, riwayat
<1> HIDE DEF l
<1>2. proses[r] \in Proses /\ Tertib(proses[r]) BY Satu
<1>3. /\ proses'[r].fd = proses[r].fd /\ proses'[r].id = proses[r].id
      /\ proses'[r].var = proses[r].var /\ proses'[r].sasaran = proses[r].sasaran
  BY <1>1, <1>2 DEF Proses, Dasar, TipeGerbang, TipeSesiPhp
<1>4. proses[r].pc \in Memegang /\ proses[r].var # Tiada
  BY <1>1, <1>2, BedaTiada DEF Tertib, Terpasang, Memegang
<1>5. HalusProses(r) BY <1>3, <1>4, SahHitung, TetapFd
<1> QED BY <1>1, <1>5, TanpaNama, TanpaBerkas DEF Halus

LEMMA HalusGagal ==
    ASSUME Dasar, NEW r \in Req, LoginGagal(r) PROVE Halus(r)
<1>1. /\ proses[r].pc = "periksa" /\ Jalankan(r, proses[r].var)
      /\ UNCHANGED <<jalur, idBaru, kuki, tanpaUser>>
      /\ berkas' = [berkas EXCEPT ![proses[r].fd].gagal = @ + 1]
  BY DEF LoginGagal, Jalankan, riwayat
<1>2. HalusProses(r) BY <1>1, SahGagal, HalusJalankan
<1>3. \A n \in Ino : berkas'[n].isi = berkas[n].isi
  BY <1>1 DEF Berkas, Dasar, TipeGerbang, TipeSesiPhp
<1>4. HalusBerkas(r) BY <1>3 DEF HalusBerkas
<1> QED BY <1>1, <1>2, <1>4, TanpaNama DEF Halus

LEMMA HalusAkhiri ==
    ASSUME Dasar, NEW r \in Req,
           LoginBenar(r) \/ HabisDiam(r) \/ AkunHilang(r) \/ Keluar(r)
    PROVE  Halus(r)
<1>1. \E c, l : MulaiHapus(r, c, l)
  BY DEF LoginBenar, HabisDiam, AkunHilang, Keluar
<1>2. PICK c, l : MulaiHapus(r, c, l) BY <1>1
<1>3. UNCHANGED <<jalur, idBaru, kuki, tanpaUser>>
  BY <1>2 DEF LoginBenar, HabisDiam, AkunHilang, Keluar, MulaiHapus, appVars, riwayat
<1>4. /\ proses' = [proses EXCEPT ![r].pc = "hapus", ![r].fd = Tiada, ![r].baca = Tiada,
                                  ![r].malas = FALSE, ![r].lanjut = c, ![r].lokal = l]
      /\ berkas' = Bersihkan(berkas, jalur, proses')
  BY <1>2 DEF MulaiHapus
<1>5. proses[r] \in Proses BY Satu
<1>6. /\ proses'[r].fd = Tiada /\ proses'[r].id = proses[r].id
      /\ proses'[r].sasaran = proses[r].sasaran
  BY <1>4, <1>5 DEF Proses, Dasar, TipeGerbang, TipeSesiPhp
<1>7. Sah(r) BY UmumAkhiri DEF Umum, Wajar
<1>8. HalusProses(r) BY <1>6, <1>7, TanpaFd
<1>9. HalusBerkas(r) BY <1>4, BersihUser
<1> QED BY <1>3, <1>8, <1>9, TanpaNama DEF Halus

\* The end of a destruction changes neither the file, the id nor sasaran.
LEMMA UsaiTetap ==
    ASSUME Dasar, NEW r \in Req,
           NEW p \in {proses, [proses EXCEPT ![r].lanjut = Tiada]},
           proses' = SetelahHapus(r, p)
    PROVE  /\ proses'[r].fd = proses[r].fd /\ proses'[r].id = proses[r].id
           /\ proses'[r].sasaran = proses[r].sasaran
<1>1. proses \in [Req -> Proses] BY DEF Dasar, TipeGerbang, TipeSesiPhp
<1>2. /\ p \in [Req -> [pc : Pc, b : Mungkin(Peramban), id : Mungkin(Id),
                        fd : Mungkin(Ino), var : Mungkin(Isi), baca : Mungkin(Isi),
                        malas : BOOLEAN, kuki : BOOLEAN, kini : Jam, sasaran : Mungkin(Id),
                        lanjut : Mungkin({"baru"}), lokal : Mungkin(Lokal)]]
      /\ p[r].fd = proses[r].fd /\ p[r].id = proses[r].id /\ p[r].sasaran = proses[r].sasaran
  BY <1>1 DEF Proses, Mungkin
<1>3. CASE p[r].lanjut = "baru" BY <1>2, <1>3 DEF SetelahHapus
<1>4. CASE p[r].lanjut # "baru" BY <1>2, <1>4 DEF SetelahHapus
<1> QED BY <1>3, <1>4

LEMMA HalusHapus ==
    ASSUME Dasar, Segar, NEW r \in Req, HapusSesi(r) PROVE Halus(r)
<1> DEFINE x == proses[r].id
<1>1. Hapus(r) /\ proses[r].pc = "hapus" /\ UNCHANGED <<idBaru, kuki>>
  BY DEF HapusSesi, Hapus, appVars
<1>2. proses[r] \in Proses /\ Tertib(proses[r]) BY Satu
<1>3. x \in 1..idBaru /\ proses[r].fd = Tiada /\ x \in Id
  BY <1>1, <1>2, BedaTiada DEF Segar, Tertib, Menghapus
<1>4. Sah(r) BY UmumHapusSesi DEF Umum, Wajar
<1>5. CASE jalur[x] = Tiada
  <2>1. proses' = [proses EXCEPT ![r].pc = "akses"] /\ UNCHANGED <<jalur, berkas>>
    BY <1>1, <1>5 DEF Hapus
  <2>2. tanpaUser' = tanpaUser BY <2>1 DEF HapusSesi
  <2>3. /\ proses'[r].fd = Tiada /\ proses'[r].id = x
        /\ proses'[r].sasaran = proses[r].sasaran
    BY <1>2, <1>3, <2>1 DEF Proses, Dasar, TipeGerbang, TipeSesiPhp
  <2>4. HalusProses(r) BY <1>4, <2>3, TanpaFd
  <2> QED BY <1>1, <2>1, <2>2, <2>4, TanpaNama, TanpaBerkas DEF Halus
<1>6. CASE jalur[x] # Tiada
  <2>1. /\ jalur' = [jalur EXCEPT ![x] = Tiada] /\ proses' = SetelahHapus(r, proses)
        /\ berkas' = Bersihkan(berkas, jalur', proses')
    BY <1>1, <1>6 DEF Hapus
  <2>2. tanpaUser' = tanpaUser \cup {x}
    BY <1>3, <1>6, <2>1 DEF HapusSesi, Dasar, TipeGerbang, TipeSesiPhp
  <2>3. /\ proses'[r].fd = Tiada /\ proses'[r].id = x
        /\ proses'[r].sasaran = proses[r].sasaran
    BY <1>3, <2>1, UsaiTetap
  <2>4. HalusProses(r) BY <1>4, <2>3, TanpaFd
  <2>5. HalusBerkas(r) BY <2>1, BersihUser
  <2>6. HalusNama(r)
    <3> HIDE DEF x
    <3> QED BY <1>1, <1>3, <2>1, <2>2 DEF HalusNama, Dasar, TipeGerbang, TipeSesiPhp
  <2> QED BY <2>4, <2>5, <2>6 DEF Halus
<1> QED BY <1>5, <1>6

LEMMA HalusAkses ==
    ASSUME Dasar, NEW r \in Req, AksesSesi(r) PROVE Halus(r)
<1>1. proses[r].pc = "akses" /\ UNCHANGED <<berkas, jalur, idBaru, kuki, tanpaUser>>
  BY DEF AksesSesi, Akses, appVars, riwayat
<1>2. PICK p \in {proses, [proses EXCEPT ![r].lanjut = Tiada]} : proses' = SetelahHapus(r, p)
  BY DEF AksesSesi, Akses
<1>3. proses[r].fd = Tiada BY <1>1, Satu DEF Tertib, Menghapus
<1>4. Sah(r) BY UmumAksesSesi DEF Umum, Wajar
<1>5. HalusProses(r) BY <1>2, <1>3, <1>4, UsaiTetap, TanpaFd
<1> QED BY <1>1, <1>5, TanpaNama, TanpaBerkas DEF Halus

\* A request that is over.
LEMMA HalusLuar ==
    ASSUME Dasar, NEW r \in Req, proses' = [proses EXCEPT ![r] = Luar], Sah(r)
    PROVE  HalusProses(r)
<1>1. proses'[r].fd = Tiada /\ proses'[r].id = Tiada /\ proses'[r].sasaran = Tiada
  BY DEF Luar, Dasar, TipeGerbang, TipeSesiPhp
<1> QED BY <1>1, TanpaFd

LEMMA HalusJawab ==
    ASSUME Dasar, NEW r \in Req, Jawab(r) PROVE Halus(r)
<1>1. proses[r].pc = "kirim" /\ UNCHANGED <<berkas, jalur, idBaru, tanpaUser>>
  BY DEF Jawab, Kirim
<1>2. proses[r] \in Proses /\ Sah(r) BY Satu, UmumJawab DEF Umum, Wajar
<1>3. HalusProses(r)
  <2>1. CASE proses[r].var = Tiada
    <3>1. proses' = [proses EXCEPT ![r] = Luar] BY <2>1 DEF Jawab, Kirim
    <3> QED BY <1>2, <3>1, HalusLuar
  <2>2. CASE proses[r].var # Tiada
    <3> DEFINE q == [proses[r] EXCEPT !.pc = "tulis", !.kuki = FALSE]
    <3>1. proses'[r] = q
      BY <2>2 DEF Jawab, Kirim, Dasar, TipeGerbang, TipeSesiPhp
    <3>2. /\ q.fd = proses[r].fd /\ q.id = proses[r].id
          /\ q.var = proses[r].var /\ q.sasaran = proses[r].sasaran
      BY <1>2 DEF Proses
    <3> HIDE DEF q
    <3>3. proses[r].pc \in Memegang BY <1>1 DEF Memegang
    <3> QED BY <1>2, <2>2, <3>1, <3>2, <3>3, TetapFd
  <2> QED BY <2>1, <2>2
<1>4. \A b \in Peramban : kuki'[b] \in {kuki[b], proses[r].id}
  BY DEF Jawab, Dasar, TipeGerbang
<1>5. HalusNama(r) BY <1>1, <1>4 DEF HalusNama
<1> QED BY <1>1, <1>3, <1>5, TanpaBerkas DEF Halus

LEMMA HalusSimpan ==
    ASSUME Dasar, NEW r \in Req, Simpan(r) PROVE Halus(r)
<1>1. UNCHANGED <<jalur, idBaru, kuki, tanpaUser>> /\ proses[r].pc \in {"tulis", "potong"}
  BY DEF Simpan, Potong, Tulis, appVars, riwayat
<1>2. proses[r] \in Proses /\ Tertib(proses[r]) BY Satu
<1>3. Sah(r) BY UmumSimpan DEF Umum, Wajar
<1>4. proses[r].pc \in Memegang /\ proses[r].var # Tiada /\ proses[r].fd \in Ino
  BY <1>1, <1>2, BedaTiada DEF Tertib, Terpasang, Memegang
<1>5. CASE Potong(r)
  <2> DEFINE q == [proses[r] EXCEPT !.pc = "potong"]
  <2>1. /\ proses'[r] = q
        /\ berkas' = [berkas EXCEPT ![proses[r].fd].isi = Kosong, ![proses[r].fd].mtime = jam]
    BY <1>5 DEF Potong, Dasar, TipeGerbang, TipeSesiPhp
  <2>2. /\ q.fd = proses[r].fd /\ q.id = proses[r].id
        /\ q.var = proses[r].var /\ q.sasaran = proses[r].sasaran
    BY <1>2 DEF Proses
  <2> HIDE DEF q
  <2>3. HalusProses(r) BY <1>3, <1>4, <2>1, <2>2, TetapFd
  <2>4. \A n \in Ino : berkas'[n].isi \in {Kosong, berkas[n].isi}
    BY <2>1 DEF Berkas, Dasar, TipeGerbang, TipeSesiPhp
  <2>5. HalusBerkas(r) BY <2>4, KosongUser DEF HalusBerkas
  <2> QED BY <1>1, <2>3, <2>5, TanpaNama DEF Halus
<1>6. CASE Tulis(r)
  <2> DEFINE b == IF proses[r].pc = "tulis" /\ Malas(r)
                  THEN [berkas EXCEPT ![jalur[proses[r].id]].mtime = jam]
                  ELSE Ditulis(berkas, proses[r].fd, proses[r].var)
  <2>1. proses' = [proses EXCEPT ![r] = Luar] /\ berkas' = Bersihkan(b, jalur, proses')
    BY <1>6 DEF Tulis
  <2>2. HalusProses(r) BY <1>3, <2>1, HalusLuar
  <2>3. \A n \in Ino : \/ b[n].isi = berkas[n].isi
                       \/ n = proses[r].fd /\ b[n].isi = proses[r].var
    BY DEF Ditulis, Berkas, Dasar, TipeGerbang, TipeSesiPhp
  <2> HIDE DEF b
  <2>4. \A n \in Ino : b[n].isi.user # Tiada =>
                          berkas[n].isi.user # Tiada \/ (BerUser(r) /\ proses[r].fd = n)
    BY <1>4, <2>3, BedaTiada DEF BerUser
  <2>5. HalusBerkas(r) BY <2>1, <2>4, BersihUser
  <2> QED BY <1>1, <2>2, <2>5, TanpaNama DEF Halus
<1> QED BY <1>5, <1>6 DEF Simpan

LEMMA HalusTerbunuh ==
    ASSUME Dasar, NEW r \in Req, Terbunuh(r) PROVE Halus(r)
<1>1. /\ proses' = [proses EXCEPT ![r] = Luar] /\ berkas' = Bersihkan(berkas, jalur, proses')
      /\ UNCHANGED <<jalur, idBaru, kuki, tanpaUser>>
  BY DEF Terbunuh, Mati
<1>2. Sah(r) BY UmumTerbunuh DEF Umum, Wajar
<1>3. HalusProses(r) /\ HalusBerkas(r) BY <1>1, <1>2, HalusLuar, BersihUser
<1> QED BY <1>1, <1>3, TanpaNama DEF Halus

-----------------------------------------------------------------------------
(* The steps that open a file under a new name, and the reading of a file *)

\* r opens a file that the name i did not lead to before.
LEMMA Pasang ==
    ASSUME Dasar, Identitas, NEW r \in Req, NEW i \in Id, NEW n \in Ino,
           n \notin Acuan(jalur, proses), jalur[i] = Tiada,
           jalur' = [jalur EXCEPT ![i] = n], berkas' = [berkas EXCEPT ![n] = BerkasBaru],
           Sah(r), proses'[r].fd = n, proses'[r].id = i,
           proses'[r].sasaran = proses[r].sasaran,
           UNCHANGED <<kuki, tanpaUser>>, idBaru' \in {idBaru, idBaru + 1}, i \in 1..idBaru',
           BerUser(r)' => i \notin tanpaUser
    PROVE  Identitas'
<1>1. idBaru \in Nat /\ idBaru' \in Nat
  BY DEF Dasar, TipeGerbang, TipeSesiPhp
<1>2. 1..idBaru \subseteq 1..idBaru' BY <1>1
<1>3. \A j \in Id : jalur'[j] = IF j = i THEN n ELSE jalur[j]
  BY DEF Dasar, TipeGerbang, TipeSesiPhp
<1>4. (\A j \in Id : jalur[j] # n) /\ (\A s \in Req : proses[s].fd # n) BY DEF Acuan
<1>5. tanpaUser \subseteq Id BY DEF Dasar, TipeGerbang
<1>6. Segar'
  <2>1. tanpaUser' \subseteq 1..idBaru' BY <1>2 DEF Identitas, Segar
  <2>2. \A b \in Peramban : kuki'[b] # Tiada => kuki'[b] \in 1..idBaru'
    BY <1>2 DEF Identitas, Segar
  <2>3. \A j \in Id : jalur'[j] # Tiada => j \in 1..idBaru'
    BY <1>2, <1>3 DEF Identitas, Segar
  <2>4. \A s \in Req : /\ proses'[s].id # Tiada => proses'[s].id \in 1..idBaru'
                       /\ proses'[s].sasaran # Tiada => proses'[s].sasaran \in 1..idBaru'
    BY <1>2 DEF Identitas, Segar, Sah
  <2> QED BY <2>1, <2>2, <2>3, <2>4 DEF Segar
<1>7. Nama'
  <2> SUFFICES ASSUME NEW s \in Req, proses'[s].fd # Tiada
               PROVE  jalur'[proses'[s].id] = proses'[s].fd \/ proses'[s].id \in tanpaUser'
    BY DEF Nama
  <2>1. CASE s = r BY <2>1, <1>3
  <2>2. CASE s # r
    <3>1. proses'[s] = proses[s] BY <2>2 DEF Sah
    <3>2. proses[s].id \in Id BY <3>1, Satu, BedaTiada DEF Tertib
    <3>3. jalur[proses[s].id] = proses[s].fd \/ proses[s].id \in tanpaUser
      BY <3>1 DEF Identitas, Nama
    <3> QED BY <3>1, <3>2, <3>3, <1>3
  <2> QED BY <2>1, <2>2
<1>8. Pisah'
  <2> SUFFICES ASSUME NEW s \in Req, BerUser(s)', NEW j \in tanpaUser'
               PROVE  jalur'[j] # proses'[s].fd
    BY DEF Pisah
  <2>1. j \in tanpaUser /\ j \in Id BY <1>5
  <2>2. CASE s = r BY <2>1, <2>2, <1>3, <1>4
  <2>3. CASE s # r
    <3>1. proses'[s] = proses[s] BY <2>3 DEF Sah
    <3>2. BerUser(s) BY <3>1 DEF BerUser
    <3>3. jalur[j] # proses[s].fd BY <2>1, <3>2 DEF Identitas, Pisah
    <3> QED BY <2>1, <3>1, <3>3, <1>3, <1>4
  <2> QED BY <2>2, <2>3
<1>9. LoginGantiId'
  <2> SUFFICES ASSUME NEW j \in tanpaUser', jalur'[j] # Tiada
               PROVE  berkas'[jalur'[j]].isi.user = Tiada
    BY DEF LoginGantiId
  <2>1. j \in tanpaUser /\ j \in Id BY <1>5
  <2>2. CASE j = i
    <3>1. BerkasBaru.isi.user = Tiada BY KosongUser DEF BerkasBaru
    <3>2. berkas'[n] = BerkasBaru BY DEF Dasar, TipeGerbang, TipeSesiPhp
    <3> QED BY <2>1, <2>2, <3>1, <3>2, <1>3
  <2>3. CASE j # i
    <3>1. jalur'[j] = jalur[j] /\ jalur[j] # n /\ jalur[j] \in Ino
      BY <2>1, <2>3, <1>3, <1>4 DEF Mungkin, Dasar, TipeGerbang, TipeSesiPhp
    <3>2. berkas'[jalur[j]] = berkas[jalur[j]] BY <3>1 DEF Dasar, TipeGerbang, TipeSesiPhp
    <3> QED BY <2>1, <3>1, <3>2 DEF Identitas, LoginGantiId
  <2> QED BY <2>2, <2>3
<1> QED BY <1>6, <1>7, <1>8, <1>9 DEF Identitas

LEMMA IdentitasMulai ==
    ASSUME Dasar, Identitas, NEW r \in Req, MulaiSesi(r) PROVE Identitas'
<1> DEFINE i == IF proses[r].id = Tiada THEN idBaru + 1 ELSE proses[r].id
           k == proses[r].id = Tiada
<1>1. /\ i \in Id /\ proses[r].pc = "buka" /\ UNCHANGED <<kuki, tanpaUser>>
      /\ idBaru' = IF proses[r].id = Tiada THEN i ELSE idBaru
  BY DEF MulaiSesi, Buka, appVars, riwayat
<1>2. PICK n \in IF jalur[i] = Tiada THEN InodeBebas ELSE {jalur[i]} :
         /\ jalur' = [jalur EXCEPT ![i] = n]
         /\ berkas' = IF jalur[i] = Tiada THEN [berkas EXCEPT ![n] = BerkasBaru] ELSE berkas
         /\ proses' = [proses EXCEPT ![r].pc = "kunci", ![r].id = i, ![r].fd = n,
                                     ![r].kuki = k]
  BY DEF MulaiSesi, Buka
<1>3. Sah(r) BY UmumMulaiSesi DEF Umum, Wajar
<1>4. proses[r] \in Proses /\ idBaru \in Nat
  BY Satu DEF Dasar, TipeGerbang, TipeSesiPhp
<1>5. idBaru' \in {idBaru, idBaru + 1} /\ i \in 1..idBaru'
  BY <1>1, <1>4 DEF Identitas, Segar
<1>6. jalur[i] # Tiada => idBaru' = idBaru BY <1>1, <1>4 DEF Identitas, Segar
<1> HIDE DEF i, k
<1>7. /\ proses'[r].pc = "kunci" /\ proses'[r].id = i /\ proses'[r].fd = n
      /\ proses'[r].sasaran = proses[r].sasaran
  BY <1>2, <1>4 DEF Proses, Dasar, TipeGerbang, TipeSesiPhp
<1>8. ~BerUser(r)' BY <1>7 DEF BerUser, Memegang
<1>9. CASE jalur[i] = Tiada
  BY <1>1, <1>2, <1>3, <1>5, <1>7, <1>8, <1>9, Bebas, Pasang
<1>10. CASE jalur[i] # Tiada
  <2>1. jalur' = jalur /\ berkas' = berkas /\ idBaru' = idBaru /\ n = jalur[i]
    BY <1>2, <1>6, <1>10 DEF Dasar, TipeGerbang, TipeSesiPhp
  <2>2. Segar'
    BY <1>1, <1>3, <1>5, <1>7, <2>1 DEF Identitas, Segar, Sah
  <2>3. Nama'
    <3> SUFFICES ASSUME NEW s \in Req, proses'[s].fd # Tiada
                 PROVE  jalur'[proses'[s].id] = proses'[s].fd \/ proses'[s].id \in tanpaUser'
      BY DEF Nama
    <3>1. CASE s = r BY <3>1, <1>7, <2>1
    <3>2. CASE s # r BY <3>2, <1>1, <1>3, <2>1 DEF Sah, Identitas, Nama
    <3> QED BY <3>1, <3>2
  <2>4. \A s \in Req : BerUser(s)' => BerUser(s) /\ proses'[s].fd = proses[s].fd
    BY <1>3, <1>8 DEF Sah, BerUser
  <2>5. Pisah' BY <1>1, <2>1, <2>4 DEF Identitas, Pisah
  <2>6. LoginGantiId' BY <1>1, <2>1 DEF Identitas, LoginGantiId
  <2> QED BY <2>2, <2>3, <2>5, <2>6 DEF Identitas
<1> QED BY <1>9, <1>10

LEMMA IdentitasMasuk ==
    ASSUME Dasar, Identitas, NEW r \in Req, MasukBaru(r) PROVE Identitas'
<1> DEFINE i == idBaru + 1
           d == SetelahMasuk(proses[r].var, proses[r].lokal)
<1>1. i \in Id /\ idBaru' = i /\ UNCHANGED <<kuki, tanpaUser>>
  BY DEF MasukBaru, Baru, appVars, riwayat
<1>2. PICK n \in InodeBebas :
         /\ jalur' = [jalur EXCEPT ![i] = n]
         /\ berkas' = [berkas EXCEPT ![n] = BerkasBaru]
         /\ proses' = [proses EXCEPT ![r].pc = "kirim", ![r].id = i, ![r].fd = n,
                                     ![r].var = d, ![r].baca = Kosong, ![r].malas = FALSE,
                                     ![r].kuki = TRUE, ![r].lanjut = Tiada, ![r].lokal = Tiada]
  BY DEF MasukBaru, Baru
<1>3. Sah(r) BY UmumMasukBaru DEF Umum, Wajar
<1>4. proses[r] \in Proses /\ idBaru \in Nat
  BY Satu DEF Dasar, TipeGerbang, TipeSesiPhp
<1>5. i \notin 1..idBaru /\ i \in 1..idBaru' BY <1>1, <1>4
<1>6. i \notin tanpaUser /\ jalur[i] = Tiada BY <1>1, <1>5 DEF Identitas, Segar
<1>7. idBaru' \in {idBaru, idBaru + 1} BY <1>1
<1> HIDE DEF i, d
<1>8. /\ proses'[r].id = i /\ proses'[r].fd = n
      /\ proses'[r].sasaran = proses[r].sasaran
  BY <1>2, <1>4 DEF Proses, Dasar, TipeGerbang, TipeSesiPhp
<1> QED BY <1>1, <1>2, <1>3, <1>5, <1>6, <1>7, <1>8, Bebas, Pasang

LEMMA IdentitasBaca ==
    ASSUME Dasar, Identitas, NEW r \in Req, BacaSesi(r) PROVE Identitas'
<1> DEFINE d == berkas[proses[r].fd].isi
           x == proses[r].id
<1>1. /\ proses[r].pc = "kunci" /\ Pemegang(proses[r].fd) = {}
      /\ UNCHANGED <<jalur, berkas, idBaru, kuki>>
  BY DEF BacaSesi, Kunci, appVars
<1>2. PICK pc \in {"gc", "aplikasi"} :
         proses' = [proses EXCEPT ![r].pc = pc, ![r].var = d, ![r].baca = d, ![r].malas = TRUE,
                                  ![r].kini = IF pc = "gc" THEN jam ELSE 0]
  BY DEF BacaSesi, Kunci
<1>3. Sah(r) BY UmumBacaSesi DEF Umum, Wajar
<1>4. proses[r] \in Proses /\ Tertib(proses[r]) BY Satu
<1>5. x \in Id /\ x \in 1..idBaru /\ proses[r].fd \in Ino
  BY <1>1, <1>4, BedaTiada DEF Tertib, Terpasang, Identitas, Segar
<1> HIDE DEF d
<1>6. /\ proses'[r].id = x /\ proses'[r].fd = proses[r].fd /\ proses'[r].var = d
      /\ proses'[r].sasaran = proses[r].sasaran /\ proses'[r].baca = d
  BY <1>2, <1>4 DEF Proses, Dasar, TipeGerbang, TipeSesiPhp
<1>7. tanpaUser' = IF d.user = Tiada THEN tanpaUser \cup {x} ELSE tanpaUser
  BY <1>6 DEF BacaSesi
<1>8. jalur[x] = proses[r].fd \/ x \in tanpaUser
  BY <1>5, BedaTiada DEF Identitas, Nama
<1> HIDE DEF x
<1>9. Segar'
  BY <1>1, <1>3, <1>5, <1>6, <1>7 DEF Identitas, Segar, Sah
<1>10. Nama' BY <1>1, <1>3, <1>6, <1>7 DEF x, Identitas, Nama, Sah
<1>11. Pisah'
  <2> SUFFICES ASSUME NEW s \in Req, BerUser(s)', NEW j \in tanpaUser'
               PROVE  jalur[j] # proses'[s].fd
    BY <1>1 DEF Pisah
  <2>1. CASE s = r
    <3>1. d.user # Tiada BY <2>1, <1>6 DEF BerUser
    <3>2. j \in tanpaUser BY <3>1, <1>7
    <3>3. jalur[j] # Tiada => berkas[jalur[j]].isi.user = Tiada
      BY <3>2 DEF Identitas, LoginGantiId
    <3> QED BY <2>1, <3>1, <3>3, <1>5, <1>6, BedaTiada DEF d
  <2>2. CASE s # r
    <3>1. proses'[s] = proses[s] BY <2>2, <1>3 DEF Sah
    <3>2. BerUser(s) BY <3>1 DEF BerUser
    <3>3. proses[s].fd # proses[r].fd BY <1>1, <3>2 DEF BerUser, Pemegang
    <3>4. CASE j \in tanpaUser BY <3>1, <3>2, <3>4 DEF Identitas, Pisah
    <3>5. CASE j \notin tanpaUser
      <4>1. j = x BY <3>5, <1>7
      <4> QED BY <3>1, <3>3, <3>5, <4>1, <1>8
    <3> QED BY <3>4, <3>5
  <2> QED BY <2>1, <2>2
<1>12. LoginGantiId'
  <2> SUFFICES ASSUME NEW j \in tanpaUser', jalur[j] # Tiada
               PROVE  berkas[jalur[j]].isi.user = Tiada
    BY <1>1 DEF LoginGantiId
  <2>1. CASE j \in tanpaUser BY <2>1 DEF Identitas, LoginGantiId
  <2>2. CASE j \notin tanpaUser
    <3>1. j = x /\ d.user = Tiada BY <2>2, <1>7
    <3> QED BY <2>2, <3>1, <1>8 DEF d
  <2> QED BY <2>1, <2>2
<1> QED BY <1>9, <1>10, <1>11, <1>12 DEF Identitas

LEMMA IdentitasWaktu ==
    ASSUME Dasar, Identitas, Waktu PROVE Identitas'
<1>1. UNCHANGED <<proses, jalur, idBaru, kuki, tanpaUser>>
  BY DEF Waktu, Detik, riwayat
<1>2. \A n \in Ino : berkas'[n].isi = berkas[n].isi
  BY DEF Waktu, Berkas, Dasar, TipeGerbang, TipeSesiPhp
<1>3. \A i \in tanpaUser : jalur[i] \in Mungkin(Ino)
  BY DEF Dasar, TipeGerbang, TipeSesiPhp
<1>4. Segar' /\ Nama' BY <1>1 DEF Identitas, Segar, Nama
<1>5. Pisah' BY <1>1 DEF Identitas, Pisah, BerUser
<1>6. LoginGantiId' BY <1>1, <1>2, <1>3 DEF Identitas, LoginGantiId, Mungkin
<1> QED BY <1>4, <1>5, <1>6 DEF Identitas

-----------------------------------------------------------------------------
LEMMA IdentitasHalus ==
    ASSUME Dasar, Identitas, NEW r \in Req, Halus(r), Dasar' PROVE Identitas'
BY HalusIdentitas DEF Halus, Dasar, TipeGerbang, TipeSesiPhp

LEMMA IdentitasLangkah ==
    ASSUME Dasar, Identitas, NEW r \in Req, Dasar',
           Kunjungan(r) \/ BacaSesi(r) \/ Langkah(r) \/ Terbunuh(r)
    PROVE  Identitas'
<1>1. Segar BY DEF Identitas
<1>2. CASE Kunjungan(r) BY <1>2, HalusKunjungan, IdentitasHalus
<1>3. CASE BacaSesi(r) BY <1>3, IdentitasBaca
<1>4. CASE Terbunuh(r) BY <1>4, HalusTerbunuh, IdentitasHalus
<1>5. CASE Langkah(r)
  <2>1. CASE MulaiSesi(r) BY <2>1, IdentitasMulai
  <2>2. CASE MasukBaru(r) BY <2>2, IdentitasMasuk
  <2>3. CASE Kumpulkan(r) BY <1>1, <2>3, HalusKumpulkan, IdentitasHalus
  <2>4. CASE HapusSesi(r) \/ AksesSesi(r)
    BY <1>1, <2>4, HalusHapus, HalusAkses, IdentitasHalus
  <2>5. CASE Jawab(r) \/ Simpan(r) BY <2>5, HalusJawab, HalusSimpan, IdentitasHalus
  <2>6. CASE HitungPercobaan(r) \/ LoginGagal(r)
    BY <2>6, HalusHitung, HalusGagal, IdentitasHalus
  <2>7. CASE \/ Depan(r) \/ TokenDitolak(r) \/ Dibatasi(r) \/ DaftarWarga(r) \/ TanpaLogin(r)
             \/ Tampil(r) \/ Ajax(r)
    BY <2>7, HalusSkrip, IdentitasHalus
  <2>8. CASE LoginBenar(r) \/ HabisDiam(r) \/ AkunHilang(r) \/ Keluar(r)
    BY <2>8, HalusAkhiri, IdentitasHalus
  <2> QED BY <1>5, <2>1, <2>2, <2>3, <2>4, <2>5, <2>6, <2>7, <2>8 DEF Langkah
<1> QED BY <1>2, <1>3, <1>4, <1>5

LEMMA IdentitasTetap == Dasar /\ Identitas /\ [Next]_vars => Identitas'
<1> SUFFICES ASSUME Dasar, Identitas, [Next]_vars PROVE Identitas' OBVIOUS
<1>1. Dasar' BY DasarTetap
<1>2. CASE Next BY <1>1, <1>2, IdentitasLangkah, IdentitasWaktu DEF Next
<1>3. CASE UNCHANGED vars
  BY <1>3 DEF vars, sesiVars, Identitas, Segar, Nama, Pisah, BerUser, LoginGantiId
<1> QED BY <1>2, <1>3

LEMMA IdentitasAwal == Init => Identitas
BY DEF Init, InitSesi, Luar, Identitas, Segar, Nama, Pisah, BerUser, LoginGantiId

(***************************************************************************)
(* index.php:117 regenerates the id at login: whatever requests of the     *)
(* same id, collections and lost processes come between its steps, an id   *)
(* that was a visitor's, or whose session has ended, gets no user.         *)
(***************************************************************************)
THEOREM IdentitasBaru == Spec => []LoginGantiId
<1>1. Init => Dasar /\ Identitas BY DasarAwal, IdentitasAwal
<1>2. Dasar /\ Identitas /\ [Next]_vars => (Dasar /\ Identitas)'
  BY DasarTetap, IdentitasTetap
<1>3. Dasar /\ Identitas => LoginGantiId BY DEF Identitas
<1> QED BY <1>1, <1>2, <1>3, PTL DEF Spec
=============================================================================
