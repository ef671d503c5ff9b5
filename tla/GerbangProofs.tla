---------------------------- MODULE GerbangProofs ----------------------------
(* The gate over the session files, for any number of processes, browsers,   *)
(* accounts and requests: types, the lock, and the rate limit.               *)
EXTENDS GerbangLogin, FiniteSetTheorems, TLAPS

-----------------------------------------------------------------------------
(* Types and control *)

\* Where the file of the session is open, besides while a request answers.
Terpasang == {"kunci", "gc", "gcunlink", "aplikasi", "periksa", "tulis", "potong"}

\* Where a session is being destroyed.
Menghapus == {"hapus", "akses", "baru"}

\* A request has an id once it has opened a file; it has the file open and
\* $_SESSION filled where the code uses them, and not while it destroys them.
Tertib(p) ==
    /\ p.pc \notin {"luar", "buka"} => p.id \in Id
    /\ p.pc \in Terpasang => p.fd \in Ino
    /\ p.pc \in {"luar", "buka"} \cup Menghapus => p.fd = Tiada
    /\ p.pc \in (Terpasang \ {"kunci"}) \cup Menghapus => p.var \in Isi
    /\ p.pc = "kirim" /\ p.var # Tiada => p.fd \in Ino
    /\ p.pc = "gcunlink" => p.sasaran \in Id
    /\ p.pc \notin Menghapus => p.lanjut = Tiada
    /\ p.pc = "baru" => p.lanjut = "baru"
    /\ p.lanjut = "baru" => p.lokal \in Akun

Dasar == TipeGerbang /\ \A r \in Req : Tertib(proses[r])

LEMMA BedaTiada ==
    /\ Tiada \notin Ino /\ Tiada \notin Id /\ Tiada \notin Isi /\ Tiada # "baru"
    /\ Tiada \notin Akun /\ Tiada # "bebas" /\ Tiada # "batas"
BY AsumsiSesi, AsumsiGerbang, FS_CardinalityType DEF Ino, Id, LokalGerbang

\* A step of one process that leaves the others alone.
Sah(r) ==
    /\ proses' \in [Req -> Proses]
    /\ \A s \in Req \ {r} : proses'[s] = proses[s]
    /\ Tertib(proses'[r])

LEMMA SahTertib ==
    ASSUME Dasar, NEW r \in Req, Sah(r) PROVE \A s \in Req : Tertib(proses'[s])
BY DEF Dasar, Sah

\* It takes no lock that another process holds.
Jujur(r) ==
    proses'[r].pc \in Memegang =>
        \/ proses'[r].fd = Tiada
        \/ proses[r].pc \in Memegang /\ proses'[r].fd = proses[r].fd
        \/ Pemegang(proses'[r].fd) = {}

\* The failed logins of a session stay or are forgotten with it.
Susut == \A n \in Ino : berkas'[n].gagal \in {0, berkas[n].gagal}

\* All steps but HitungPercobaan and LoginGagal.
Wajar(r) ==
    /\ Sah(r) /\ Jujur(r) /\ proses'[r].pc # "periksa"
    /\ berkas' \in [Ino -> Berkas] /\ Susut

LEMMA Ganti ==
    ASSUME Dasar, NEW r \in Req, NEW q \in Proses, Tertib(q), q.pc # "periksa",
           proses' = [proses EXCEPT ![r] = q],
           q.pc \in Memegang =>
              \/ q.fd = Tiada
              \/ proses[r].pc \in Memegang /\ q.fd = proses[r].fd
              \/ Pemegang(q.fd) = {},
           berkas' \in [Ino -> Berkas], Susut
    PROVE  Wajar(r) /\ proses'[r] = q
BY DEF Dasar, TipeGerbang, TipeSesiPhp, Sah, Jujur, Wajar

LEMMA Tetap ==
    ASSUME Dasar, UNCHANGED berkas PROVE berkas' \in [Ino -> Berkas] /\ Susut
BY DEF Dasar, TipeGerbang, TipeSesiPhp, Susut

LEMMA Satu ==
    ASSUME Dasar, NEW r \in Req PROVE proses[r] \in Proses /\ Tertib(proses[r])
BY DEF Dasar, TipeGerbang, TipeSesiPhp

LEMMA BersihTipe ==
    ASSUME NEW b \in [Ino -> Berkas], NEW j, NEW p
    PROVE  /\ Bersihkan(b, j, p) \in [Ino -> Berkas]
           /\ \A n \in Ino : Bersihkan(b, j, p)[n].gagal \in {0, b[n].gagal}
<1>1. BerkasLepas \in Berkas
  BY AsumsiSesi DEF BerkasLepas, Berkas, Jam
<1> QED BY <1>1 DEF Bersihkan, BerkasLepas

LEMMA Bebas ==
    ASSUME NEW n \in InodeBebas
    PROVE  n \in Ino /\ n \notin Acuan(jalur, proses)
BY DEF InodeBebas

LEMMA LuarTipe == Luar \in Proses /\ Tertib(Luar)
BY AsumsiSesi, BedaTiada
   DEF Luar, Proses, Pc, Memegang, Mungkin, Jam, Tertib, Terpasang, Menghapus

LEMMA KosongTipe == Kosong \in Isi
BY AsumsiSesi

LEMMA BersihSusut ==
    ASSUME Dasar, NEW j, NEW p, NEW b \in [Ino -> Berkas],
           \A n \in Ino : b[n].gagal \in {0, berkas[n].gagal},
           berkas' = Bersihkan(b, j, p)
    PROVE  berkas' \in [Ino -> Berkas] /\ Susut
BY BersihTipe DEF Susut

-----------------------------------------------------------------------------
(* The operations of the session extension *)

LEMMA WajarDatang ==
    ASSUME Dasar, NEW r \in Req, NEW b \in Peramban, NEW c \in Mungkin(Id), Datang(r, b, c)
    PROVE  Wajar(r)
<1> DEFINE q == [Luar EXCEPT !.pc = "buka", !.b = b, !.id = c]
<1>1. q \in Proses
  BY LuarTipe DEF Proses, Pc, Mungkin
<1>2. q.pc = "buka" /\ q.fd = Tiada /\ q.lanjut = Tiada
  BY DEF Luar
<1>3. Tertib(q)
  BY <1>2, BedaTiada DEF Tertib, Terpasang, Menghapus
<1>4. proses' = [proses EXCEPT ![r] = q] /\ UNCHANGED berkas BY DEF Datang
<1> QED BY <1>1, <1>2, <1>3, <1>4, Tetap, Ganti DEF Memegang

LEMMA WajarBuka ==
    ASSUME Dasar, NEW r \in Req, Buka(r)
    PROVE  Wajar(r) /\ jalur' \in [Id -> Mungkin(Ino)] /\ idBaru' \in 0..MaxId
<1> DEFINE i == IF proses[r].id = Tiada THEN idBaru + 1 ELSE proses[r].id
           k == proses[r].id = Tiada
<1>1. PICK n \in IF jalur[i] = Tiada THEN InodeBebas ELSE {jalur[i]} :
         /\ jalur' = [jalur EXCEPT ![i] = n]
         /\ berkas' = IF jalur[i] = Tiada THEN [berkas EXCEPT ![n] = BerkasBaru] ELSE berkas
         /\ proses' = [proses EXCEPT ![r].pc = "kunci", ![r].id = i, ![r].fd = n,
                                     ![r].kuki = (proses[r].id = Tiada)]
  BY DEF Buka
<1>2. i \in Id /\ proses[r].pc = "buka" /\ idBaru' = IF proses[r].id = Tiada THEN i ELSE idBaru
  BY DEF Buka
<1>3. n \in Ino BY <1>1, <1>2, Bebas DEF Dasar, TipeGerbang, TipeSesiPhp, Mungkin
<1>4. jalur' \in [Id -> Mungkin(Ino)] /\ idBaru' \in 0..MaxId
  BY <1>1, <1>2, <1>3, AsumsiSesi DEF Id, Mungkin, Dasar, TipeGerbang, TipeSesiPhp
<1>5. berkas' \in [Ino -> Berkas] /\ Susut
  BY <1>1, <1>3, AsumsiSesi DEF BerkasBaru, Berkas, Susut, Dasar, TipeGerbang, TipeSesiPhp
<1>6. k \in BOOLEAN OBVIOUS
<1> DEFINE q == [proses[r] EXCEPT !.pc = "kunci", !.id = i, !.fd = n, !.kuki = k]
<1>7. proses' = [proses EXCEPT ![r] = q] BY <1>1
<1> HIDE DEF i, k
<1>8. q \in Proses
  <2>1. proses[r] \in Proses /\ i \in Id BY <1>2, Satu
  <2> QED BY <2>1, <1>3, <1>6 DEF Proses, Pc, Mungkin
<1>9. q.pc = "kunci" /\ q.fd = n /\ q.id = i /\ q.lanjut = proses[r].lanjut
  BY Satu DEF Proses
<1>10. Tertib(q)
  BY <1>2, <1>3, <1>9, Satu, BedaTiada DEF Tertib, Terpasang, Menghapus
<1> QED BY <1>4, <1>5, <1>7, <1>8, <1>9, <1>10, Ganti DEF Memegang

LEMMA WajarKunci ==
    ASSUME Dasar, NEW r \in Req, Kunci(r) PROVE Wajar(r)
<1> DEFINE d == berkas[proses[r].fd].isi
<1>1. proses[r].pc = "kunci" /\ Pemegang(proses[r].fd) = {} /\ UNCHANGED berkas BY DEF Kunci
<1>2. PICK pc \in {"gc", "aplikasi"} :
         proses' = [proses EXCEPT ![r].pc = pc, ![r].var = d, ![r].baca = d, ![r].malas = TRUE,
                                  ![r].kini = IF pc = "gc" THEN jam ELSE 0]
  BY DEF Kunci
<1>3. d \in Isi
  BY <1>1, Satu DEF Tertib, Terpasang, Dasar, TipeGerbang, TipeSesiPhp, Berkas
<1> DEFINE k == IF pc = "gc" THEN jam ELSE 0
           q == [proses[r] EXCEPT !.pc = pc, !.var = d, !.baca = d, !.malas = TRUE, !.kini = k]
<1>4. k \in Jam BY AsumsiSesi DEF Jam, Dasar, TipeGerbang, TipeSesiPhp
<1>5. proses' = [proses EXCEPT ![r] = q] BY <1>2
<1> HIDE DEF d, k
<1>6. q \in Proses BY <1>3, <1>4, Satu DEF Proses, Pc, Memegang, Mungkin
<1>7. /\ q.pc = pc /\ q.var = d /\ q.fd = proses[r].fd /\ q.id = proses[r].id
      /\ q.lanjut = proses[r].lanjut
  BY Satu DEF Proses
<1>8. Tertib(q)
  BY <1>1, <1>3, <1>7, Satu, BedaTiada DEF Tertib, Terpasang, Menghapus
<1> QED BY <1>1, <1>5, <1>6, <1>7, <1>8, Tetap, Ganti

LEMMA WajarGcStat ==
    ASSUME Dasar, NEW r \in Req, GcStat(r) PROVE Wajar(r)
<1>1. PICK i \in Id : proses' = [proses EXCEPT ![r].pc = "gcunlink", ![r].sasaran = i]
  BY DEF GcStat
<1>2. proses[r].pc = "gc" /\ UNCHANGED berkas BY DEF GcStat
<1> DEFINE q == [proses[r] EXCEPT !.pc = "gcunlink", !.sasaran = i]
<1>3. q \in Proses BY Satu DEF Proses, Pc, Memegang, Mungkin
<1>4. /\ q.pc = "gcunlink" /\ q.sasaran = i /\ q.var = proses[r].var /\ q.fd = proses[r].fd
      /\ q.id = proses[r].id /\ q.lanjut = proses[r].lanjut
  BY Satu DEF Proses
<1>5. Tertib(q)
  BY <1>2, <1>4, Satu, BedaTiada DEF Tertib, Terpasang, Menghapus
<1>6. proses' = [proses EXCEPT ![r] = q] BY <1>1
<1> QED BY <1>2, <1>3, <1>4, <1>5, <1>6, Tetap, Ganti DEF Memegang

LEMMA WajarGcUnlink ==
    ASSUME Dasar, NEW r \in Req, GcUnlink(r)
    PROVE  Wajar(r) /\ jalur' \in [Id -> Mungkin(Ino)] /\ proses[r].sasaran \in Id
<1>1. /\ proses[r].pc = "gcunlink" /\ jalur' = [jalur EXCEPT ![proses[r].sasaran] = Tiada]
      /\ proses' = [proses EXCEPT ![r].pc = "gc", ![r].sasaran = Tiada]
      /\ berkas' = Bersihkan(berkas, jalur', proses')
  BY DEF GcUnlink
<1> DEFINE q == [proses[r] EXCEPT !.pc = "gc", !.sasaran = Tiada]
<1>2. q \in Proses BY Satu DEF Proses, Pc, Memegang, Mungkin
<1>3. /\ q.pc = "gc" /\ q.var = proses[r].var /\ q.fd = proses[r].fd
      /\ q.id = proses[r].id /\ q.lanjut = proses[r].lanjut
  BY Satu DEF Proses
<1>4. Tertib(q)
  BY <1>1, <1>3, Satu, BedaTiada DEF Tertib, Terpasang, Menghapus
<1>5. proses' = [proses EXCEPT ![r] = q] BY <1>1
<1>6. berkas' \in [Ino -> Berkas] /\ Susut
  BY <1>1, BersihSusut DEF Dasar, TipeGerbang, TipeSesiPhp
<1>7. jalur' \in [Id -> Mungkin(Ino)] /\ proses[r].sasaran \in Id
  BY <1>1, Satu DEF Tertib, Mungkin, Dasar, TipeGerbang, TipeSesiPhp
<1> QED BY <1>1, <1>2, <1>3, <1>4, <1>5, <1>6, <1>7, Ganti DEF Memegang

LEMMA WajarGcSelesai ==
    ASSUME Dasar, NEW r \in Req, GcSelesai(r) PROVE Wajar(r)
<1>1. /\ proses[r].pc = "gc" /\ proses' = [proses EXCEPT ![r].pc = "aplikasi", ![r].kini = 0]
      /\ UNCHANGED berkas
  BY DEF GcSelesai
<1> DEFINE q == [proses[r] EXCEPT !.pc = "aplikasi", !.kini = 0]
<1>2. 0 \in Jam BY AsumsiSesi DEF Jam
<1>3. q \in Proses BY <1>2, Satu DEF Proses, Pc, Memegang, Mungkin
<1>4. /\ q.pc = "aplikasi" /\ q.var = proses[r].var /\ q.fd = proses[r].fd
      /\ q.id = proses[r].id /\ q.lanjut = proses[r].lanjut
  BY Satu DEF Proses
<1>5. Tertib(q)
  BY <1>1, <1>4, Satu, BedaTiada DEF Tertib, Terpasang, Menghapus
<1>6. proses' = [proses EXCEPT ![r] = q] BY <1>1
<1> QED BY <1>1, <1>3, <1>4, <1>5, <1>6, Tetap, Ganti DEF Memegang

LEMMA WajarJalankan ==
    ASSUME Dasar, NEW r \in Req, NEW d \in Isi, proses[r].pc \in {"aplikasi", "periksa"},
           Jalankan(r, d), berkas' \in [Ino -> Berkas], Susut
    PROVE  Wajar(r)
<1> DEFINE q == [proses[r] EXCEPT !.pc = "kirim", !.var = d, !.lokal = Tiada]
<1>0. proses[r] \in Proses BY Satu
<1>1. q \in Proses BY <1>0 DEF Proses, Pc, Memegang, Mungkin
<1>2. /\ q.pc = "kirim" /\ q.var = d /\ q.fd = proses[r].fd
      /\ q.id = proses[r].id /\ q.lanjut = proses[r].lanjut
  BY Satu DEF Proses
<1>3. Tertib(q)
  BY <1>2, Satu, BedaTiada DEF Tertib, Terpasang, Menghapus
<1>4. proses' = [proses EXCEPT ![r] = q] BY DEF Jalankan
<1> QED BY <1>1, <1>2, <1>3, <1>4, Ganti DEF Memegang

LEMMA WajarMulaiHapus ==
    ASSUME Dasar, NEW r \in Req, NEW c \in Mungkin({"baru"}), NEW l \in Mungkin(Lokal),
           c = "baru" => l \in Akun, proses[r].pc \in {"aplikasi", "periksa"},
           MulaiHapus(r, c, l)
    PROVE  Wajar(r)
<1> DEFINE q == [proses[r] EXCEPT !.pc = "hapus", !.fd = Tiada, !.baca = Tiada,
                                  !.malas = FALSE, !.lanjut = c, !.lokal = l]
<1>1. proses[r] \in Proses BY Satu
<1>2. q \in Proses BY <1>1 DEF Proses, Pc, Mungkin
<1>3. /\ q.pc = "hapus" /\ q.fd = Tiada /\ q.var = proses[r].var /\ q.id = proses[r].id
      /\ q.lanjut = c /\ q.lokal = l
  BY <1>1 DEF Proses
<1>4. Tertib(q)
  BY <1>3, Satu, BedaTiada DEF Tertib, Terpasang, Menghapus
<1>5. proses' = [proses EXCEPT ![r] = q] BY DEF MulaiHapus
<1>6. berkas' \in [Ino -> Berkas] /\ Susut
  BY BersihSusut DEF MulaiHapus, Dasar, TipeGerbang, TipeSesiPhp
<1> QED BY <1>2, <1>3, <1>4, <1>5, <1>6, Ganti DEF Memegang

\* The end of a destruction, successful or not; p has given up or not.
LEMMA UsaiHapus ==
    ASSUME Dasar, NEW r \in Req, proses[r].pc \in {"hapus", "akses"},
           NEW p \in {proses, [proses EXCEPT ![r].lanjut = Tiada]},
           proses' = SetelahHapus(r, p), berkas' \in [Ino -> Berkas], Susut
    PROVE  Wajar(r)
<1>1. proses[r] \in Proses /\ Tertib(proses[r]) BY Satu
<1>2. CASE p[r].lanjut = "baru"
  <2> DEFINE q == [proses[r] EXCEPT !.pc = "baru"]
  <2>1. p = proses /\ proses[r].lanjut = "baru"
    BY <1>1, <1>2, BedaTiada DEF Dasar, TipeGerbang, TipeSesiPhp, Proses
  <2>2. proses' = [proses EXCEPT ![r] = q] BY <1>2, <2>1 DEF SetelahHapus
  <2>3. q \in Proses BY <1>1 DEF Proses, Pc
  <2>4. /\ q.pc = "baru" /\ q.fd = proses[r].fd /\ q.var = proses[r].var
        /\ q.id = proses[r].id /\ q.lanjut = proses[r].lanjut /\ q.lokal = proses[r].lokal
    BY <1>1 DEF Proses
  <2>5. Tertib(q) BY <1>1, <2>1, <2>4 DEF Tertib, Terpasang, Menghapus
  <2> QED BY <2>2, <2>3, <2>4, <2>5, Ganti DEF Memegang
<1>3. CASE p[r].lanjut # "baru"
  <2> DEFINE q == [proses[r] EXCEPT !.pc = "kirim", !.var = Tiada, !.lokal = Tiada,
                                    !.lanjut = Tiada]
  <2>1. proses[r].lanjut = Tiada \/ p = [proses EXCEPT ![r].lanjut = Tiada]
    BY <1>1, <1>3 DEF Proses, Mungkin
  <2>2. proses' = [p EXCEPT ![r].pc = "kirim", ![r].var = Tiada, ![r].lokal = Tiada]
    BY <1>3 DEF SetelahHapus
  <2>3. proses' = [proses EXCEPT ![r] = q]
    <3>1. CASE p = [proses EXCEPT ![r].lanjut = Tiada]
      BY <2>2, <3>1, <1>1 DEF Proses, Dasar, TipeGerbang, TipeSesiPhp
    <3>2. CASE p = proses /\ proses[r].lanjut = Tiada
      <4>1. [proses[r] EXCEPT !.pc = "kirim", !.var = Tiada, !.lokal = Tiada] = q
        BY <3>2, <1>1 DEF Proses
      <4>2. proses' = [proses EXCEPT ![r] = [proses[r] EXCEPT !.pc = "kirim", !.var = Tiada,
                                                              !.lokal = Tiada]]
        BY <2>2, <3>2
      <4> HIDE DEF q
      <4> QED BY <4>1, <4>2
    <3> QED BY <2>1, <3>1, <3>2
  <2>4. q \in Proses BY <1>1 DEF Proses, Pc, Memegang, Mungkin
  <2>5. /\ q.pc = "kirim" /\ q.fd = proses[r].fd /\ q.var = Tiada
        /\ q.id = proses[r].id /\ q.lanjut = Tiada
    BY <1>1 DEF Proses
  <2>6. Tertib(q) /\ q.fd = Tiada
    BY <1>1, <2>5, BedaTiada DEF Tertib, Terpasang, Menghapus
  <2> QED BY <2>3, <2>4, <2>5, <2>6, Ganti
<1> QED BY <1>2, <1>3

LEMMA WajarHapus ==
    ASSUME Dasar, NEW r \in Req, Hapus(r)
    PROVE  Wajar(r) /\ jalur' \in [Id -> Mungkin(Ino)] /\ proses[r].id \in Id
<1>1. proses[r].pc = "hapus" BY DEF Hapus
<1>2. proses[r] \in Proses /\ Tertib(proses[r]) BY Satu
<1>3. CASE jalur[proses[r].id] = Tiada
  <2> DEFINE q == [proses[r] EXCEPT !.pc = "akses"]
  <2>1. proses' = [proses EXCEPT ![r] = q] /\ UNCHANGED <<jalur, berkas>> BY <1>3 DEF Hapus
  <2>2. q \in Proses BY <1>2 DEF Proses, Pc
  <2>3. /\ q.pc = "akses" /\ q.fd = proses[r].fd /\ q.var = proses[r].var
        /\ q.id = proses[r].id /\ q.lanjut = proses[r].lanjut /\ q.lokal = proses[r].lokal
    BY <1>2 DEF Proses
  <2>4. Tertib(q) BY <1>1, <1>2, <2>3 DEF Tertib, Terpasang, Menghapus
  <2>5. Wajar(r) BY <2>1, <2>2, <2>3, <2>4, Tetap, Ganti DEF Memegang
  <2> QED BY <1>1, <1>2, <2>1, <2>5 DEF Tertib, Dasar, TipeGerbang, TipeSesiPhp
<1>4. CASE jalur[proses[r].id] # Tiada
  <2>1. /\ jalur' = [jalur EXCEPT ![proses[r].id] = Tiada]
        /\ proses' = SetelahHapus(r, proses)
        /\ berkas' = Bersihkan(berkas, jalur', proses')
    BY <1>4 DEF Hapus
  <2>2. berkas' \in [Ino -> Berkas] /\ Susut
    BY <2>1, BersihSusut DEF Dasar, TipeGerbang, TipeSesiPhp
  <2>3. jalur' \in [Id -> Mungkin(Ino)]
    BY <2>1 DEF Mungkin, Dasar, TipeGerbang, TipeSesiPhp
  <2>4. Wajar(r) BY <1>1, <2>1, <2>2, UsaiHapus
  <2> QED BY <1>1, <1>2, <2>3, <2>4 DEF Tertib
<1> QED BY <1>3, <1>4

LEMMA WajarAkses ==
    ASSUME Dasar, NEW r \in Req, Akses(r) PROVE Wajar(r)
<1>1. proses[r].pc = "akses" /\ UNCHANGED berkas BY DEF Akses
<1>2. PICK p \in {proses, [proses EXCEPT ![r].lanjut = Tiada]} : proses' = SetelahHapus(r, p)
  BY DEF Akses
<1> QED BY <1>1, <1>2, Tetap, UsaiHapus

LEMMA WajarBaru ==
    ASSUME Dasar, NEW r \in Req, NEW d \in Isi, Baru(r, d)
    PROVE  Wajar(r) /\ jalur' \in [Id -> Mungkin(Ino)] /\ idBaru' \in 0..MaxId
<1>1. /\ proses[r].pc = "baru" /\ idBaru + 1 \in Id /\ idBaru' = idBaru + 1
  BY DEF Baru
<1>2. PICK n \in InodeBebas :
         /\ jalur' = [jalur EXCEPT ![idBaru + 1] = n]
         /\ berkas' = [berkas EXCEPT ![n] = BerkasBaru]
         /\ proses' = [proses EXCEPT ![r].pc = "kirim", ![r].id = idBaru + 1, ![r].fd = n,
                                     ![r].var = d, ![r].baca = Kosong, ![r].malas = FALSE,
                                     ![r].kuki = TRUE, ![r].lanjut = Tiada, ![r].lokal = Tiada]
  BY DEF Baru
<1>3. n \in Ino /\ Pemegang(n) = {} BY Bebas DEF Acuan, Pemegang
<1>4. jalur' \in [Id -> Mungkin(Ino)] /\ idBaru' \in 0..MaxId
  BY <1>1, <1>2, <1>3, AsumsiSesi DEF Id, Mungkin, Dasar, TipeGerbang, TipeSesiPhp
<1>5. berkas' \in [Ino -> Berkas] /\ Susut
  BY <1>2, <1>3, AsumsiSesi DEF BerkasBaru, Berkas, Susut, Dasar, TipeGerbang, TipeSesiPhp
<1> DEFINE i == idBaru + 1
           q == [proses[r] EXCEPT !.pc = "kirim", !.id = i, !.fd = n, !.var = d, !.baca = Kosong,
                                  !.malas = FALSE, !.kuki = TRUE, !.lanjut = Tiada,
                                  !.lokal = Tiada]
<1>6. proses' = [proses EXCEPT ![r] = q] BY <1>2
<1>7. proses[r] \in Proses /\ i \in Id BY <1>1, Satu
<1> HIDE DEF i
<1>8. q \in Proses BY <1>3, <1>7, KosongTipe DEF Proses, Pc, Memegang, Mungkin
<1>9. q.pc = "kirim" /\ q.id = i /\ q.fd = n /\ q.lanjut = Tiada
  BY <1>7 DEF Proses
<1>10. Tertib(q)
  BY <1>3, <1>7, <1>9, BedaTiada DEF Tertib, Terpasang, Menghapus
<1> QED BY <1>3, <1>4, <1>5, <1>6, <1>8, <1>9, <1>10, Ganti

LEMMA WajarLuar ==
    ASSUME Dasar, NEW r \in Req, proses' = [proses EXCEPT ![r] = Luar],
           berkas' \in [Ino -> Berkas], Susut
    PROVE  Wajar(r)
<1>1. Luar.pc = "luar" BY DEF Luar
<1> QED BY <1>1, LuarTipe, Ganti DEF Memegang

LEMMA WajarKirim ==
    ASSUME Dasar, NEW r \in Req, Kirim(r)
    PROVE  Wajar(r) /\ proses[r].id \in Id
<1>1. proses[r].pc = "kirim" /\ UNCHANGED berkas BY DEF Kirim
<1>2. proses[r] \in Proses /\ Tertib(proses[r]) BY Satu
<1>3. CASE proses[r].var = Tiada
  <2>1. proses' = [proses EXCEPT ![r] = Luar] BY <1>3 DEF Kirim
  <2> QED BY <1>1, <1>2, <2>1, Tetap, WajarLuar DEF Tertib
<1>4. CASE proses[r].var # Tiada
  <2> DEFINE q == [proses[r] EXCEPT !.pc = "tulis", !.kuki = FALSE]
  <2>1. proses' = [proses EXCEPT ![r] = q] BY <1>4 DEF Kirim
  <2>2. q \in Proses BY <1>2 DEF Proses, Pc, Memegang
  <2>3. /\ q.pc = "tulis" /\ q.fd = proses[r].fd /\ q.var = proses[r].var
        /\ q.id = proses[r].id /\ q.lanjut = proses[r].lanjut
    BY <1>2 DEF Proses
  <2>4. proses[r].var \in Isi BY <1>2, <1>4 DEF Proses, Mungkin
  <2>5. Tertib(q)
    BY <1>1, <1>2, <1>4, <2>3, <2>4, BedaTiada DEF Tertib, Terpasang, Menghapus
  <2>6. Wajar(r) BY <1>1, <2>1, <2>2, <2>3, <2>5, Tetap, Ganti DEF Memegang
  <2> QED BY <1>1, <1>2, <2>6 DEF Tertib
<1> QED BY <1>3, <1>4

LEMMA WajarPotong ==
    ASSUME Dasar, NEW r \in Req, Potong(r) PROVE Wajar(r)
<1>1. /\ proses[r].pc = "tulis"
      /\ berkas' = [berkas EXCEPT ![proses[r].fd].isi = Kosong, ![proses[r].fd].mtime = jam]
  BY DEF Potong
<1>2. proses[r] \in Proses /\ Tertib(proses[r]) BY Satu
<1> DEFINE q == [proses[r] EXCEPT !.pc = "potong"]
<1>3. proses' = [proses EXCEPT ![r] = q] BY DEF Potong
<1>4. q \in Proses BY <1>2 DEF Proses, Pc, Memegang
<1>5. /\ q.pc = "potong" /\ q.fd = proses[r].fd /\ q.var = proses[r].var
      /\ q.id = proses[r].id /\ q.lanjut = proses[r].lanjut
  BY <1>2 DEF Proses
<1>6. Tertib(q) BY <1>1, <1>2, <1>5, BedaTiada DEF Tertib, Terpasang, Menghapus
<1>7. berkas' \in [Ino -> Berkas] /\ Susut
  BY <1>1, KosongTipe DEF Berkas, Susut, Dasar, TipeGerbang, TipeSesiPhp
<1> QED BY <1>1, <1>3, <1>4, <1>5, <1>6, <1>7, Ganti DEF Memegang

LEMMA WajarTulis ==
    ASSUME Dasar, NEW r \in Req, Tulis(r) PROVE Wajar(r)
<1> DEFINE b == IF proses[r].pc = "tulis" /\ Malas(r)
                THEN [berkas EXCEPT ![jalur[proses[r].id]].mtime = jam]
                ELSE Ditulis(berkas, proses[r].fd, proses[r].var)
<1>1. /\ proses[r].pc \in {"tulis", "potong"} /\ proses' = [proses EXCEPT ![r] = Luar]
      /\ berkas' = Bersihkan(b, jalur, proses')
  BY DEF Tulis
<1>2. proses[r].var \in Isi BY <1>1, Satu DEF Tertib, Terpasang
<1>3. b \in [Ino -> Berkas] /\ \A n \in Ino : b[n].gagal \in {0, berkas[n].gagal}
  BY <1>2 DEF Ditulis, Berkas, Dasar, TipeGerbang, TipeSesiPhp
<1> HIDE DEF b
<1>4. berkas' \in [Ino -> Berkas] /\ Susut BY <1>1, <1>3, BersihSusut
<1> QED BY <1>1, <1>4, WajarLuar

LEMMA WajarMati ==
    ASSUME Dasar, NEW r \in Req, Mati(r) PROVE Wajar(r)
<1>1. proses' = [proses EXCEPT ![r] = Luar] /\ berkas' = Bersihkan(berkas, jalur, proses')
  BY DEF Mati
<1>2. berkas' \in [Ino -> Berkas] /\ Susut
  BY <1>1, BersihSusut DEF Dasar, TipeGerbang, TipeSesiPhp
<1> QED BY <1>1, <1>2, WajarLuar

-----------------------------------------------------------------------------
(* The operations of the gate *)

\* What a step that is neither HitungPercobaan nor LoginGagal does to the rest.
Sisa ==
    /\ jam' \in Jam /\ idBaru' \in 0..MaxId /\ jalur' \in [Id -> Mungkin(Ino)]
    /\ kuki' \in [Peramban -> Mungkin(Id)] /\ datang' \in 0..MaxReq
    /\ percobaan' = percobaan
    /\ tanpaUser' \subseteq Id /\ janji' \subseteq Id

Umum(r) == Wajar(r) /\ Sisa

LEMMA TetapSisa ==
    ASSUME Dasar, UNCHANGED <<jam, jalur, idBaru, appVars, riwayat>> PROVE Sisa
BY DEF Dasar, TipeGerbang, TipeSesiPhp, appVars, riwayat, Sisa

LEMMA UmumKunjungan ==
    ASSUME Dasar, NEW r \in Req, Kunjungan(r) PROVE Umum(r)
<1>1. PICK b \in Peramban : Datang(r, b, kuki[b]) BY DEF Kunjungan
<1>2. kuki[b] \in Mungkin(Id) BY DEF Dasar, TipeGerbang
<1>3. Wajar(r) BY <1>1, <1>2, WajarDatang
<1>4. Sisa
  BY <1>1, AsumsiGerbang
     DEF Kunjungan, Datang, Sisa, riwayat, Dasar, TipeGerbang, TipeSesiPhp
<1> QED BY <1>3, <1>4 DEF Umum

LEMMA UmumMulaiSesi ==
    ASSUME Dasar, NEW r \in Req, MulaiSesi(r) PROVE Umum(r)
<1>1. Buka(r) /\ UNCHANGED <<jam, appVars, riwayat>> BY DEF MulaiSesi, Buka
<1>2. Wajar(r) /\ jalur' \in [Id -> Mungkin(Ino)] /\ idBaru' \in 0..MaxId
  BY <1>1, WajarBuka
<1> QED BY <1>1, <1>2
        DEF Umum, Sisa, appVars, riwayat, Dasar, TipeGerbang, TipeSesiPhp

LEMMA UmumBacaSesi ==
    ASSUME Dasar, NEW r \in Req, BacaSesi(r) PROVE Umum(r)
<1>1. Wajar(r) BY WajarKunci DEF BacaSesi
<1>2. proses[r].id \in Id BY Satu DEF BacaSesi, Kunci, Tertib
<1>3. tanpaUser' \subseteq Id BY <1>2 DEF BacaSesi, Dasar, TipeGerbang
<1> QED BY <1>1, <1>3
        DEF Umum, Sisa, BacaSesi, Kunci, appVars, Dasar, TipeGerbang, TipeSesiPhp

LEMMA UmumKumpulkan ==
    ASSUME Dasar, NEW r \in Req, Kumpulkan(r) PROVE Umum(r)
<1>1. CASE (GcStat(r) \/ GcSelesai(r)) /\ UNCHANGED <<appVars, riwayat>>
  <2>1. Wajar(r) BY <1>1, WajarGcStat, WajarGcSelesai
  <2>2. UNCHANGED <<jam, jalur, idBaru>> BY <1>1 DEF GcStat, GcSelesai
  <2> QED BY <1>1, <2>1, <2>2, TetapSisa DEF Umum
<1>2. CASE GcUnlink(r) /\ UNCHANGED appVars
           /\ tanpaUser' = tanpaUser \cup {proses[r].sasaran}
           /\ janji' = janji \ {proses[r].sasaran}
  <2>1. Wajar(r) /\ jalur' \in [Id -> Mungkin(Ino)] /\ proses[r].sasaran \in Id
    BY <1>2, WajarGcUnlink
  <2>2. UNCHANGED <<jam, idBaru>> BY <1>2 DEF GcUnlink
  <2> QED BY <1>2, <2>1, <2>2
          DEF Umum, Sisa, appVars, Dasar, TipeGerbang, TipeSesiPhp
<1> QED BY <1>1, <1>2 DEF Kumpulkan

\* A script that ends with $_SESSION = d.
LEMMA UmumSelesaikan ==
    ASSUME Dasar, NEW r \in Req, NEW d \in Isi, proses[r].pc \in {"aplikasi", "periksa"},
           Selesaikan(r, d)
    PROVE  Umum(r)
<1>1. Jalankan(r, d) /\ UNCHANGED <<berkas, appVars, riwayat>> BY DEF Selesaikan
<1>2. Wajar(r) BY <1>1, Tetap, WajarJalankan
<1>3. UNCHANGED <<jam, jalur, idBaru>> BY <1>1 DEF Jalankan
<1> QED BY <1>1, <1>2, <1>3, TetapSisa DEF Umum

\* A script that begins to destroy the session.
LEMMA UmumMulaiHapus ==
    ASSUME Dasar, NEW r \in Req, NEW c \in Mungkin({"baru"}), NEW l \in Mungkin(Lokal),
           c = "baru" => l \in Akun, proses[r].pc \in {"aplikasi", "periksa"},
           MulaiHapus(r, c, l), UNCHANGED <<appVars, riwayat>>
    PROVE  Umum(r)
<1>1. Wajar(r) BY WajarMulaiHapus
<1>2. UNCHANGED <<jam, jalur, idBaru>> BY DEF MulaiHapus
<1> QED BY <1>1, <1>2, TetapSisa DEF Umum

LEMMA UmumSkrip ==
    ASSUME Dasar, NEW r \in Req,
           \/ Depan(r) \/ TokenDitolak(r) \/ Dibatasi(r) \/ DaftarWarga(r) \/ TanpaLogin(r)
           \/ Tampil(r) \/ Ajax(r)
    PROVE  Umum(r)
<1>1. proses[r].pc \in {"aplikasi", "periksa"}
  BY DEF Depan, TokenDitolak, Dibatasi, DaftarWarga, TanpaLogin, Tampil, Ajax, Berjalan
<1>2. proses[r].var \in IsiGerbang /\ Isi = IsiGerbang
  BY <1>1, Satu, AsumsiGerbang DEF Tertib, Terpasang
<1>3. CASE Depan(r) \/ TokenDitolak(r)
  <2>1. [proses[r].var EXCEPT !.token = TRUE] \in Isi BY <1>2 DEF IsiGerbang
  <2> QED BY <1>1, <1>3, <2>1, UmumSelesaikan DEF Depan, TokenDitolak
<1>4. CASE Dibatasi(r) \/ DaftarWarga(r) \/ TanpaLogin(r) \/ Ajax(r)
  BY <1>1, <1>2, <1>4, UmumSelesaikan DEF Dibatasi, DaftarWarga, TanpaLogin, Ajax
<1>5. CASE Tampil(r)
  <2>1. PICK k \in BOOLEAN :
           Selesaikan(r, [proses[r].var EXCEPT !.aktif = jam, !.kilat = k])
    BY <1>5 DEF Tampil
  <2>2. jam \in Mungkin(Jam) BY DEF Mungkin, Dasar, TipeGerbang, TipeSesiPhp
  <2>3. [proses[r].var EXCEPT !.aktif = jam, !.kilat = k] \in Isi
    BY <1>2, <2>2 DEF IsiGerbang
  <2> QED BY <1>1, <2>1, <2>3, UmumSelesaikan
<1> QED BY <1>3, <1>4, <1>5

LEMMA UmumAkhiri ==
    ASSUME Dasar, NEW r \in Req,
           LoginBenar(r) \/ HabisDiam(r) \/ AkunHilang(r) \/ Keluar(r)
    PROVE  Umum(r)
<1>1. proses[r].pc \in {"aplikasi", "periksa"} /\ UNCHANGED <<appVars, riwayat>>
  BY DEF LoginBenar, HabisDiam, AkunHilang, Keluar, Berjalan
<1>2. CASE LoginBenar(r)
  <2>1. PICK u \in Akun : MulaiHapus(r, "baru", u) BY <1>2 DEF LoginBenar
  <2>2. "baru" \in Mungkin({"baru"}) /\ u \in Mungkin(Lokal)
    BY AsumsiGerbang DEF Mungkin, LokalGerbang
  <2> QED BY <1>1, <2>1, <2>2, UmumMulaiHapus
<1>3. CASE HabisDiam(r) \/ AkunHilang(r) \/ Keluar(r)
  <2>1. MulaiHapus(r, Tiada, Tiada) BY <1>3 DEF HabisDiam, AkunHilang, Keluar
  <2>2. Tiada \in Mungkin({"baru"}) /\ Tiada \in Mungkin(Lokal) BY DEF Mungkin
  <2> QED BY <1>1, <2>1, <2>2, BedaTiada, UmumMulaiHapus
<1> QED BY <1>2, <1>3

LEMMA UmumMasukBaru ==
    ASSUME Dasar, NEW r \in Req, MasukBaru(r) PROVE Umum(r)
<1> DEFINE d == SetelahMasuk(proses[r].var, proses[r].lokal)
<1>1. Baru(r, d) /\ UNCHANGED <<appVars, riwayat>> /\ jam' = jam BY DEF MasukBaru, Baru
<1>2. proses[r].var \in IsiGerbang /\ proses[r].lokal \in Mungkin(Akun)
  BY <1>1, Satu, AsumsiGerbang DEF Baru, Tertib, Menghapus, Mungkin
<1>3. d \in Isi BY <1>2, AsumsiGerbang DEF SetelahMasuk, IsiGerbang
<1> HIDE DEF d
<1>4. Wajar(r) /\ jalur' \in [Id -> Mungkin(Ino)] /\ idBaru' \in 0..MaxId
  BY <1>1, <1>3, WajarBaru
<1> QED BY <1>1, <1>4 DEF Umum, Sisa, appVars, riwayat, Dasar, TipeGerbang, TipeSesiPhp

LEMMA UmumHapusSesi ==
    ASSUME Dasar, NEW r \in Req, HapusSesi(r) PROVE Umum(r)
<1>1. Hapus(r) /\ UNCHANGED <<jam, idBaru, appVars>> BY DEF HapusSesi, Hapus
<1>2. Wajar(r) /\ jalur' \in [Id -> Mungkin(Ino)] /\ proses[r].id \in Id BY <1>1, WajarHapus
<1>3. tanpaUser' \subseteq Id /\ janji' \subseteq Id
  BY <1>2 DEF HapusSesi, Dasar, TipeGerbang
<1> QED BY <1>1, <1>2, <1>3 DEF Umum, Sisa, appVars, Dasar, TipeGerbang, TipeSesiPhp

LEMMA UmumAksesSesi ==
    ASSUME Dasar, NEW r \in Req, AksesSesi(r) PROVE Umum(r)
BY WajarAkses, TetapSisa DEF AksesSesi, Akses, Umum

LEMMA UmumJawab ==
    ASSUME Dasar, NEW r \in Req, Jawab(r) PROVE Umum(r)
<1>1. Kirim(r) /\ UNCHANGED <<jam, jalur, idBaru, datang, percobaan, tanpaUser>>
  BY DEF Jawab, Kirim
<1>2. Wajar(r) /\ proses[r].id \in Id BY <1>1, WajarKirim
<1>3. kuki' \in [Peramban -> Mungkin(Id)]
  BY <1>2 DEF Jawab, Mungkin, Dasar, TipeGerbang
<1>4. janji' \subseteq Id BY <1>2 DEF Jawab, Dasar, TipeGerbang
<1> QED BY <1>1, <1>2, <1>3, <1>4 DEF Umum, Sisa, Dasar, TipeGerbang, TipeSesiPhp

LEMMA UmumSimpan ==
    ASSUME Dasar, NEW r \in Req, Simpan(r) PROVE Umum(r)
<1>1. Wajar(r) BY WajarPotong, WajarTulis DEF Simpan
<1>2. UNCHANGED <<jam, jalur, idBaru>> BY DEF Simpan, Potong, Tulis
<1> QED BY <1>1, <1>2, TetapSisa DEF Simpan, Umum

LEMMA UmumTerbunuh ==
    ASSUME Dasar, NEW r \in Req, Terbunuh(r) PROVE Umum(r)
<1>1. Wajar(r) BY WajarMati DEF Terbunuh
<1>2. UNCHANGED <<jam, jalur, idBaru, kuki, percobaan, tanpaUser>>
  BY DEF Terbunuh, Mati
<1>3. janji' \subseteq Id /\ datang' \in 0..MaxReq
  BY AsumsiGerbang DEF Terbunuh, Dasar, TipeGerbang
<1> QED BY <1>1, <1>2, <1>3 DEF Umum, Sisa, Dasar, TipeGerbang, TipeSesiPhp

\* The two steps of the rate limit.
LEMMA SahHitung ==
    ASSUME Dasar, NEW r \in Req, HitungPercobaan(r)
    PROVE  /\ Sah(r) /\ Jujur(r) /\ Dasar'
           /\ proses'[r].fd = proses[r].fd
           /\ proses'[r].lokal = "bebas" => percobaan < Batas
<1> DEFINE l == IF percobaan >= Batas THEN "batas" ELSE "bebas"
           q == [proses[r] EXCEPT !.pc = "periksa", !.lokal = l]
<1>1. /\ proses[r].pc = "aplikasi" /\ proses' = [proses EXCEPT ![r] = q]
      /\ UNCHANGED <<jam, jalur, berkas, idBaru, appVars, riwayat>>
  BY DEF HitungPercobaan, Berjalan
<1>2. proses[r] \in Proses /\ Tertib(proses[r]) BY Satu
<1>3. l \in Lokal /\ (l = "bebas" => percobaan < Batas)
  BY AsumsiGerbang DEF LokalGerbang, Dasar, TipeGerbang
<1> HIDE DEF l
<1>4. q \in Proses BY <1>2, <1>3 DEF Proses, Pc, Memegang, Mungkin
<1>5. /\ q.pc = "periksa" /\ q.fd = proses[r].fd /\ q.var = proses[r].var
      /\ q.id = proses[r].id /\ q.lanjut = proses[r].lanjut /\ q.lokal = l
  BY <1>2 DEF Proses
<1>6. Tertib(q) BY <1>1, <1>2, <1>5, BedaTiada DEF Tertib, Terpasang, Menghapus
<1> HIDE DEF q
<1>7. proses'[r] = q /\ Sah(r) BY <1>1, <1>4, <1>6 DEF Sah, Dasar, TipeGerbang, TipeSesiPhp
<1>8. Jujur(r) BY <1>1, <1>5, <1>7 DEF Jujur, Memegang
<1>9. Dasar'
  <2>1. \A s \in Req : Tertib(proses'[s]) BY <1>7, SahTertib
  <2>2. TipeGerbang'
    BY <1>1, <1>7 DEF Sah, Dasar, TipeGerbang, TipeSesiPhp, appVars, riwayat
  <2> QED BY <2>1, <2>2 DEF Dasar
<1> QED BY <1>3, <1>5, <1>7, <1>8, <1>9

LEMMA SahGagal ==
    ASSUME Dasar, NEW r \in Req, LoginGagal(r)
    PROVE  /\ Sah(r) /\ Jujur(r) /\ proses'[r].pc = "kirim" /\ Dasar'
           /\ proses[r].fd \in Ino /\ percobaan' = percobaan + 1
           /\ berkas' = [berkas EXCEPT ![proses[r].fd].gagal = @ + 1]
<1> DEFINE q == [proses[r] EXCEPT !.pc = "kirim", !.var = proses[r].var, !.lokal = Tiada]
<1>1. /\ proses[r].pc = "periksa" /\ proses' = [proses EXCEPT ![r] = q]
      /\ UNCHANGED <<jam, jalur, idBaru, kuki, datang, riwayat>>
      /\ percobaan' = percobaan + 1
      /\ berkas' = [berkas EXCEPT ![proses[r].fd].gagal = @ + 1]
  BY DEF LoginGagal, Jalankan
<1>2. proses[r] \in Proses /\ Tertib(proses[r]) BY Satu
<1>3. proses[r].fd \in Ino /\ proses[r].var \in Isi
  BY <1>1, <1>2 DEF Tertib, Terpasang
<1>4. q \in Proses BY <1>2, <1>3 DEF Proses, Pc, Memegang, Mungkin
<1>5. /\ q.pc = "kirim" /\ q.fd = proses[r].fd /\ q.var = proses[r].var
      /\ q.id = proses[r].id /\ q.lanjut = proses[r].lanjut
  BY <1>2 DEF Proses
<1>6. Tertib(q) BY <1>1, <1>2, <1>5, BedaTiada DEF Tertib, Terpasang, Menghapus
<1> HIDE DEF q
<1>7. proses'[r] = q /\ Sah(r) BY <1>1, <1>4, <1>6 DEF Sah, Dasar, TipeGerbang, TipeSesiPhp
<1>8. Jujur(r) BY <1>1, <1>5, <1>7 DEF Jujur, Memegang
<1>9. berkas' \in [Ino -> Berkas]
  BY <1>1, <1>3 DEF Berkas, Dasar, TipeGerbang, TipeSesiPhp
<1>10. Dasar'
  <2>1. \A s \in Req : Tertib(proses'[s]) BY <1>7, SahTertib
  <2>2. TipeGerbang'
    BY <1>1, <1>7, <1>9 DEF Sah, Dasar, TipeGerbang, TipeSesiPhp, riwayat
  <2> QED BY <2>1, <2>2 DEF Dasar
<1> QED BY <1>1, <1>3, <1>5, <1>7, <1>8, <1>10

LEMMA DasarWaktu ==
    ASSUME Dasar, Waktu PROVE Dasar' /\ UNCHANGED proses
<1>1. berkas' \in [Ino -> Berkas] BY DEF Waktu, Berkas, Dasar, TipeGerbang, TipeSesiPhp
<1> QED BY <1>1, AsumsiSesi
        DEF Waktu, Detik, Jam, riwayat, Dasar, TipeGerbang, TipeSesiPhp, Tertib

\* Every step is one of four kinds.
LEMMA Ragam ==
    ASSUME Dasar, Next
    PROVE  \/ \E r \in Req : Umum(r) \/ HitungPercobaan(r) \/ LoginGagal(r)
           \/ Waktu
BY UmumKunjungan, UmumMulaiSesi, UmumBacaSesi, UmumKumpulkan, UmumSkrip, UmumAkhiri,
   UmumMasukBaru, UmumHapusSesi, UmumAksesSesi, UmumJawab, UmumSimpan, UmumTerbunuh
   DEF Next, Langkah

LEMMA DasarUmum ==
    ASSUME Dasar, NEW r \in Req, Umum(r) PROVE Dasar'
<1>1. \A s \in Req : Tertib(proses'[s]) BY SahTertib DEF Umum, Wajar
<1>2. TipeGerbang'
  BY DEF Umum, Wajar, Sah, Sisa, Dasar, TipeGerbang, TipeSesiPhp
<1> QED BY <1>1, <1>2 DEF Dasar

LEMMA DasarAwal == Init => Dasar
<1> SUFFICES ASSUME Init PROVE Dasar OBVIOUS
<1>1. \A r \in Req : proses[r] = Luar BY DEF Init, InitSesi
<1>2. BerkasLepas \in Berkas
  BY AsumsiSesi DEF BerkasLepas, Berkas, Jam
<1>3. TipeGerbang
  BY <1>2, LuarTipe, AsumsiSesi, AsumsiGerbang
     DEF Init, InitSesi, TipeGerbang, TipeSesiPhp, Jam, Mungkin
<1> QED BY <1>1, <1>3, LuarTipe DEF Dasar

LEMMA DasarTetap == Dasar /\ [Next]_vars => Dasar'
<1> SUFFICES ASSUME Dasar, [Next]_vars PROVE Dasar' OBVIOUS
<1>1. CASE Next BY <1>1, Ragam, DasarUmum, SahHitung, SahGagal, DasarWaktu
<1>2. CASE UNCHANGED vars
  BY <1>2 DEF vars, sesiVars, Dasar, TipeGerbang, TipeSesiPhp
<1> QED BY <1>1, <1>2

(***************************************************************************)
(* Types and control of the session files and of the gate: a request that  *)
(* writes a session has its file open (mod_files.c:232), writes a content  *)
(* the scripts produce, and ends a login with the account that logged in.  *)
(***************************************************************************)
THEOREM TipeSesi == Spec => [](TipeGerbang /\ \A r \in Req : Tertib(proses[r]))
<1>1. Dasar => TipeGerbang /\ \A r \in Req : Tertib(proses[r]) BY DEF Dasar
<1> QED BY <1>1, DasarAwal, DasarTetap, PTL DEF Spec

-----------------------------------------------------------------------------
(* The lock *)

\* Two processes that are past the wait have different files open, or none.
Tunggal ==
    \A r, s \in Req :
        r # s /\ proses[r].pc \in Memegang /\ proses[s].pc \in Memegang
        => proses[r].fd # proses[s].fd \/ proses[r].fd = Tiada

LEMMA TunggalLangkah ==
    ASSUME Dasar, Tunggal, NEW p \in Req, Sah(p), Jujur(p)
    PROVE  Tunggal'
<1> SUFFICES ASSUME NEW r \in Req, NEW s \in Req, r # s,
                    proses'[r].pc \in Memegang, proses'[s].pc \in Memegang
             PROVE  proses'[r].fd # proses'[s].fd \/ proses'[r].fd = Tiada
  BY DEF Tunggal
<1>1. CASE r # p /\ s # p BY <1>1 DEF Tunggal, Sah
<1>2. CASE r = p BY <1>2 DEF Tunggal, Sah, Jujur, Pemegang
<1>3. CASE s = p BY <1>3 DEF Tunggal, Sah, Jujur, Pemegang
<1> QED BY <1>1, <1>2, <1>3

LEMMA TunggalTetap == Dasar /\ Tunggal /\ [Next]_vars => Tunggal'
<1> SUFFICES ASSUME Dasar, Tunggal, [Next]_vars PROVE Tunggal' OBVIOUS
<1>1. CASE Next
  BY <1>1, Ragam, TunggalLangkah, SahHitung, SahGagal, DasarWaktu
     DEF Umum, Wajar, Tunggal
<1>2. CASE UNCHANGED vars BY <1>2 DEF vars, sesiVars, Tunggal
<1> QED BY <1>1, <1>2

LEMMA TunggalAwal == Init => Tunggal
BY DEF Init, InitSesi, Luar, Memegang, Tunggal

LEMMA TunggalKunci == Tunggal => KunciTunggal
<1> SUFFICES ASSUME Tunggal, NEW n \in Ino PROVE Cardinality(Pemegang(n)) <= 1
  BY DEF KunciTunggal
<1>1. \A r, s \in Pemegang(n) : r = s BY BedaTiada DEF Tunggal, Pemegang
<1>2. CASE Pemegang(n) = {} BY <1>2, FS_EmptySet
<1>3. CASE Pemegang(n) # {}
  <2>1. PICK r \in Pemegang(n) : TRUE BY <1>3
  <2>2. Pemegang(n) = {r} BY <1>1, <2>1
  <2> QED BY <2>2, FS_Singleton
<1> QED BY <1>2, <1>3

(***************************************************************************)
(* At most one request is past the wait for a session file, though files   *)
(* are unlinked, created anew and closed by others meanwhile               *)
(* (mod_files.c:210, 603).                                                 *)
(***************************************************************************)
THEOREM KunciSesi == Spec => []KunciTunggal
<1>1. Init => Dasar /\ Tunggal BY DasarAwal, TunggalAwal
<1>2. Dasar /\ Tunggal /\ [Next]_vars => (Dasar /\ Tunggal)'
  BY DasarTetap, TunggalTetap
<1>3. Dasar /\ Tunggal => KunciTunggal BY TunggalKunci
<1> QED BY <1>1, <1>2, <1>3, PTL DEF Spec

-----------------------------------------------------------------------------
(* The rate limit *)

\* Processes between the COUNT and the INSERT of the rate limit.
DiPeriksa(r) == proses[r].pc = "periksa" /\ proses[r].lokal = "bebas"
Periksa == {r \in Req : DiPeriksa(r)}

\* A session has no more failed logins than its address, and a request of it
\* that was let through finds one attempt left.
Anggaran ==
    /\ \A n \in Ino : berkas[n].gagal <= Batas /\ berkas[n].gagal <= percobaan
    /\ \A r \in Periksa : berkas[proses[r].fd].gagal < Batas

LEMMA AnggaranUmum ==
    ASSUME Dasar, Anggaran, NEW p \in Req, Umum(p) PROVE Anggaran'
<1>1. \A n \in Ino : /\ berkas[n].gagal \in Nat /\ berkas'[n].gagal \in Nat
                     /\ berkas'[n].gagal <= berkas[n].gagal
  BY DEF Umum, Wajar, Susut, Berkas, Dasar, TipeGerbang, TipeSesiPhp
<1>2. percobaan' = percobaan /\ percobaan \in Nat /\ Batas \in Nat
  BY AsumsiGerbang DEF Umum, Sisa, Dasar, TipeGerbang
<1>3. \A n \in Ino : berkas'[n].gagal <= Batas /\ berkas'[n].gagal <= percobaan'
  BY <1>1, <1>2 DEF Anggaran
<1>4. ASSUME NEW r \in Periksa' PROVE berkas'[proses'[r].fd].gagal < Batas
  <2>1. r \in Req /\ r # p /\ proses'[r] = proses[r] /\ r \in Periksa
    BY DEF Periksa, DiPeriksa, Umum, Wajar, Sah
  <2>2. proses[r].fd \in Ino BY <2>1, Satu DEF Periksa, DiPeriksa, Tertib, Terpasang
  <2> QED BY <1>1, <1>2, <2>1, <2>2 DEF Anggaran
<1> QED BY <1>3, <1>4 DEF Anggaran

LEMMA AnggaranHitung ==
    ASSUME Dasar, Anggaran, NEW p \in Req, HitungPercobaan(p) PROVE Anggaran'
<1>1. UNCHANGED <<berkas, percobaan>> BY DEF HitungPercobaan, appVars
<1>2. ASSUME NEW r \in Periksa' PROVE berkas'[proses'[r].fd].gagal < Batas
  <2>1. CASE r = p
    <3>1. proses[p].fd \in Ino
      BY Satu DEF HitungPercobaan, Berjalan, Tertib, Terpasang
    <3>2. percobaan < Batas /\ proses'[p].fd = proses[p].fd
      BY <2>1, SahHitung DEF Periksa, DiPeriksa
    <3>3. berkas[proses[p].fd].gagal \in Nat /\ percobaan \in Nat /\ Batas \in Nat
      BY <3>1, AsumsiGerbang DEF Berkas, Dasar, TipeGerbang, TipeSesiPhp
    <3> QED BY <1>1, <2>1, <3>1, <3>2, <3>3 DEF Anggaran
  <2>2. CASE r # p
    BY <1>1, <2>2, SahHitung DEF Sah, Periksa, DiPeriksa, Anggaran
  <2> QED BY <2>1, <2>2
<1> QED BY <1>1, <1>2 DEF Anggaran

LEMMA AnggaranGagal ==
    ASSUME Dasar, Anggaran, Tunggal, NEW p \in Req, LoginGagal(p) PROVE Anggaran'
<1> DEFINE f == proses[p].fd
<1>1. /\ f \in Ino /\ percobaan' = percobaan + 1 /\ Sah(p) /\ proses'[p].pc = "kirim"
      /\ berkas' = [berkas EXCEPT ![f].gagal = @ + 1]
  BY SahGagal
<1>2. p \in Periksa BY DEF LoginGagal, Periksa, DiPeriksa
<1>3. percobaan \in Nat /\ Batas \in Nat /\ \A n \in Ino : berkas[n].gagal \in Nat
  BY AsumsiGerbang DEF Berkas, Dasar, TipeGerbang, TipeSesiPhp
<1>4. /\ berkas'[f].gagal = berkas[f].gagal + 1
      /\ \A n \in Ino \ {f} : berkas'[n] = berkas[n]
  BY <1>1 DEF Berkas, Dasar, TipeGerbang, TipeSesiPhp
<1> HIDE DEF f
<1>5. berkas[f].gagal < Batas BY <1>2 DEF f, Anggaran
<1>6. \A n \in Ino : berkas'[n].gagal <= Batas /\ berkas'[n].gagal <= percobaan'
  BY <1>1, <1>3, <1>4, <1>5 DEF Anggaran
<1>7. ASSUME NEW r \in Periksa' PROVE berkas'[proses'[r].fd].gagal < Batas
  <2>1. r \in Req /\ r # p /\ proses'[r] = proses[r] /\ r \in Periksa
    BY <1>1 DEF Periksa, DiPeriksa, Sah
  <2>2. proses[r].fd \in Ino BY <2>1, Satu DEF Periksa, DiPeriksa, Tertib, Terpasang
  <2>3. proses[r].fd # f
    BY <1>2, <2>1, <2>2, BedaTiada DEF f, Tunggal, Periksa, DiPeriksa, Memegang
  <2> QED BY <1>4, <2>1, <2>2, <2>3 DEF Anggaran
<1> QED BY <1>6, <1>7 DEF Anggaran

LEMMA AnggaranWaktu ==
    ASSUME Dasar, Anggaran, Waktu PROVE Anggaran'
<1>1. UNCHANGED proses /\ percobaan' = 0 /\ \A n \in Ino : berkas'[n].gagal = 0
  BY DasarWaktu DEF Waktu, Berkas, Dasar, TipeGerbang, TipeSesiPhp
<1>2. Batas \in Nat \ {0} BY AsumsiGerbang
<1>3. \A r \in Periksa : proses[r].fd \in Ino
  BY Satu DEF Periksa, DiPeriksa, Tertib, Terpasang
<1> QED BY <1>1, <1>2, <1>3 DEF Anggaran, Periksa, DiPeriksa

LEMMA AnggaranTetap == Dasar /\ Tunggal /\ Anggaran /\ [Next]_vars => Anggaran'
<1> SUFFICES ASSUME Dasar, Tunggal, Anggaran, [Next]_vars PROVE Anggaran' OBVIOUS
<1>1. CASE Next
  BY <1>1, Ragam, AnggaranUmum, AnggaranHitung, AnggaranGagal, AnggaranWaktu
<1>2. CASE UNCHANGED vars BY <1>2 DEF vars, sesiVars, Anggaran, Periksa, DiPeriksa
<1> QED BY <1>1, <1>2

LEMMA AnggaranAwal == Init => Anggaran
BY AsumsiGerbang DEF Init, InitSesi, BerkasLepas, Luar, Anggaran, Periksa, DiPeriksa

(***************************************************************************)
(* Within one session the rate limit of index.php:22 is exact, for any     *)
(* number of parallel requests: they wait for each other.                  *)
(***************************************************************************)
THEOREM BatasDalamSesi == Spec => []BatasSatuSesi
<1> DEFINE Inv == Dasar /\ Tunggal /\ Anggaran
<1>1. Init => Inv BY DasarAwal, TunggalAwal, AnggaranAwal
<1>2. Inv /\ [Next]_vars => Inv'
  BY DasarTetap, TunggalTetap, AnggaranTetap
<1>3. Inv => BatasSatuSesi BY DEF Anggaran, BatasSatuSesi
<1> QED BY <1>1, <1>2, <1>3, PTL DEF Spec

-----------------------------------------------------------------------------
(* The rate limit over several sessions *)

\* Each request that was let through may still add one failed attempt.
Lewat == percobaan + Cardinality(Periksa) < Batas + Cardinality(Req)

LEMMA PeriksaHingga ==
    /\ IsFiniteSet(Periksa) /\ Cardinality(Periksa) \in Nat
    /\ Cardinality(Req) \in Nat /\ Cardinality(Periksa) <= Cardinality(Req)
BY AsumsiSesi, FS_Subset, FS_CardinalityType DEF Periksa

LEMMA LewatUmum ==
    ASSUME Dasar, Lewat, NEW p \in Req, Umum(p) PROVE Lewat'
<1>1. Periksa' \subseteq Periksa BY DEF Umum, Wajar, Sah, Periksa, DiPeriksa
<1>2. Cardinality(Periksa') \in Nat /\ Cardinality(Periksa') <= Cardinality(Periksa)
  BY <1>1, PeriksaHingga, FS_Subset, FS_CardinalityType
<1>3. percobaan' = percobaan /\ percobaan \in Nat BY DEF Umum, Sisa, Dasar, TipeGerbang
<1> QED BY <1>2, <1>3, PeriksaHingga, AsumsiGerbang DEF Lewat

LEMMA LewatHitung ==
    ASSUME Dasar, Lewat, NEW p \in Req, HitungPercobaan(p) PROVE Lewat'
<1>1. percobaan' = percobaan /\ percobaan \in Nat /\ Batas \in Nat
  BY AsumsiGerbang DEF HitungPercobaan, appVars, Dasar, TipeGerbang
<1>2. CASE DiPeriksa(p)'
  <2>1. percobaan < Batas BY <1>2, SahHitung DEF DiPeriksa
  <2>2. Cardinality(Periksa') \in Nat /\ Cardinality(Periksa') <= Cardinality(Req)
    BY AsumsiSesi, FS_Subset, FS_CardinalityType DEF Periksa
  <2> QED BY <1>1, <2>1, <2>2, PeriksaHingga DEF Lewat
<1>3. CASE ~DiPeriksa(p)'
  <2>1. Periksa' \subseteq Periksa BY <1>3, SahHitung DEF Sah, Periksa, DiPeriksa
  <2>2. Cardinality(Periksa') \in Nat /\ Cardinality(Periksa') <= Cardinality(Periksa)
    BY <2>1, PeriksaHingga, FS_Subset, FS_CardinalityType
  <2> QED BY <1>1, <2>2, PeriksaHingga DEF Lewat
<1> QED BY <1>2, <1>3

LEMMA LewatGagal ==
    ASSUME Dasar, Lewat, NEW p \in Req, LoginGagal(p) PROVE Lewat'
<1>1. percobaan' = percobaan + 1 /\ percobaan \in Nat /\ Batas \in Nat
  BY AsumsiGerbang DEF LoginGagal, Dasar, TipeGerbang
<1>2. p \in Periksa BY DEF LoginGagal, Periksa, DiPeriksa
<1>3. Periksa' = Periksa \ {p} BY SahGagal DEF Sah, Periksa, DiPeriksa
<1>4. Cardinality(Periksa') = Cardinality(Periksa) - 1
  BY <1>2, <1>3, PeriksaHingga, FS_RemoveElement
<1> QED BY <1>1, <1>4, PeriksaHingga DEF Lewat

LEMMA LewatWaktu ==
    ASSUME Dasar, Lewat, Waktu PROVE Lewat'
<1>1. percobaan' = 0 /\ Periksa' = Periksa BY DasarWaktu DEF Waktu, Periksa, DiPeriksa
<1> QED BY <1>1, PeriksaHingga, AsumsiGerbang DEF Lewat, Dasar, TipeGerbang

LEMMA LewatTetap == Dasar /\ Lewat /\ [Next]_vars => Lewat'
<1> SUFFICES ASSUME Dasar, Lewat, [Next]_vars PROVE Lewat' OBVIOUS
<1>1. CASE Next BY <1>1, Ragam, LewatUmum, LewatHitung, LewatGagal, LewatWaktu
<1>2. CASE UNCHANGED vars BY <1>2 DEF vars, sesiVars, Lewat, Periksa, DiPeriksa
<1> QED BY <1>1, <1>2

LEMMA LewatAwal == Init => Lewat
<1> SUFFICES ASSUME Init PROVE Lewat OBVIOUS
<1>1. percobaan = 0 /\ Periksa = {}
  BY DEF Init, InitSesi, Luar, Periksa, DiPeriksa
<1> QED BY <1>1, FS_EmptySet, PeriksaHingga, AsumsiGerbang DEF Lewat

(***************************************************************************)
(* Over all sessions of an address the limit of index.php:22 is exceeded   *)
(* by less than the number of processes: only a request that was past the  *)
(* COUNT when the limit was reached still looks at a password.             *)
(***************************************************************************)
THEOREM BatasAntarSesi == Spec => []BatasLewat
<1>1. Init => Dasar /\ Lewat BY DasarAwal, LewatAwal
<1>2. Dasar /\ Lewat /\ [Next]_vars => (Dasar /\ Lewat)' BY DasarTetap, LewatTetap
<1>3. Dasar /\ Lewat => BatasLewat
  BY PeriksaHingga, AsumsiGerbang DEF Lewat, BatasLewat, Dasar, TipeGerbang
<1> QED BY <1>1, <1>2, <1>3, PTL DEF Spec
=============================================================================
