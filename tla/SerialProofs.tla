---------------------------- MODULE SerialProofs ----------------------------
(* The session files implement SesiSerial: every step of a request is a step *)
(* of the abstract store or leaves it as it is.                              *)
EXTENDS IdentitasProofs

-----------------------------------------------------------------------------
(* What ties the files to what requests have read *)

\* What the abstract store says r has seen.
Terlihat(r) == IF proses[r].pc \notin Memegang THEN Tiada
               ELSE IF proses[r].pc = "potong" THEN Kosong ELSE proses[r].baca

\* A request without a file has read nothing; one that holds a file has read
\* what is in it; one that has given its session up has no file.
CerminSatu(r) ==
    /\ proses[r].fd = Tiada => proses[r].baca = Tiada
    /\ proses[r].pc = "kirim" /\ proses[r].var = Tiada => proses[r].fd = Tiada
    /\ proses[r].pc \in Memegang /\ proses[r].fd # Tiada
       => berkas[proses[r].fd].isi = Terlihat(r)

\* A file that nothing refers to is empty.
Hampa == \A n \in Ino : n \notin Acuan(jalur, proses) => berkas[n].isi = Kosong

Cermin == Hampa /\ \A r \in Req : CerminSatu(r)

\* Contents change in the file r holds, in a new file or in one that is freed.
Rapi(r) ==
    /\ Sah(r)
    /\ \A n \in Ino :
          \/ berkas'[n].isi = berkas[n].isi
          \/ n \notin Acuan(jalur, proses)
          \/ n \notin Acuan(jalur', proses')
          \/ (proses[r].pc \in Memegang /\ proses[r].fd = n)
    /\ Hampa'
    /\ CerminSatu(r)'

LEMMA CerminLangkah ==
    ASSUME Dasar, Tunggal, Cermin, NEW r \in Req, Rapi(r) PROVE Cermin'
<1> SUFFICES ASSUME NEW s \in Req, s # r PROVE CerminSatu(s)'
  BY DEF Cermin, Rapi
<1>1. proses'[s] = proses[s] /\ CerminSatu(s) BY DEF Rapi, Sah, Cermin
<1>2. CASE ~(proses[s].pc \in Memegang /\ proses[s].fd # Tiada)
  BY <1>1, <1>2 DEF CerminSatu
<1>3. CASE proses[s].pc \in Memegang /\ proses[s].fd # Tiada
  <2> DEFINE n == proses[s].fd
  <2>1. n \in Ino BY <1>3, Satu DEF Proses, Mungkin
  <2>2. n \in Acuan(jalur, proses) /\ n \in Acuan(jalur', proses') BY <1>1 DEF Acuan
  <2>3. ~(proses[r].pc \in Memegang /\ proses[r].fd = n) BY <1>3 DEF Tunggal
  <2>4. berkas'[n].isi = berkas[n].isi
    <3> HIDE DEF n
    <3> QED BY <2>1, <2>2, <2>3 DEF Rapi
  <2> QED BY <1>1, <1>3, <2>4 DEF CerminSatu, Terlihat
<1> QED BY <1>2, <1>3

-----------------------------------------------------------------------------
(* The steps of the abstract store *)

\* What a step of r leaves alone in the abstract store.
LEMMA SamaLain ==
    ASSUME NEW r \in Req, Sah(r)
    PROVE  \A s \in Req \ {r} : proses'[s].fd = proses[s].fd /\ Terlihat(s)' = Terlihat(s)
BY DEF Sah, Terlihat

\* A stutter.
LEMMA SerialDiam ==
    ASSUME jalur' = jalur, \A n \in Ino : berkas'[n].isi = berkas[n].isi,
           \A s \in Req : proses'[s].fd = proses[s].fd /\ Terlihat(s)' = Terlihat(s)
    PROVE  UNCHANGED Serial!vars
<1>1. [n \in Ino |-> berkas[n].isi]' = [n \in Ino |-> berkas[n].isi] OBVIOUS
<1>2. [s \in Req |-> proses[s].fd]' = [s \in Req |-> proses[s].fd] OBVIOUS
<1>3. [s \in Req |-> Terlihat(s)]' = [s \in Req |-> Terlihat(s)] OBVIOUS
<1> QED BY <1>1, <1>2, <1>3 DEF Serial!vars, Terlihat

LEMMA SerialTinggal ==
    ASSUME NEW r \in Req, Sah(r), proses[r].fd # Tiada, jalur' = jalur,
           proses'[r].fd = Tiada, Terlihat(r)' = Tiada,
           berkas' = Bersihkan(berkas, jalur', proses')
    PROVE  Serial!Tinggalkan(r)
<1>1. \A s \in Req \ {r} : proses'[s].fd = proses[s].fd /\ Terlihat(s)' = Terlihat(s)
  BY SamaLain
<1>2. [s \in Req |-> proses[s].fd]' = [[s \in Req |-> proses[s].fd] EXCEPT ![r] = Tiada]
  BY <1>1
<1>3. [s \in Req |-> Terlihat(s)]' = [[s \in Req |-> Terlihat(s)] EXCEPT ![r] = Tiada]
  BY <1>1
<1>4. [n \in Ino |-> berkas[n].isi]' = Serial!Lepaskan([n \in Ino |-> berkas[n].isi])
  BY DEF Serial!Lepaskan, Bersihkan, BerkasLepas, Acuan
<1> QED BY <1>2, <1>3, <1>4 DEF Serial!Tinggalkan, Terlihat

LEMMA SerialCabut ==
    ASSUME NEW r \in Req, Sah(r), NEW i \in Id, jalur' = [jalur EXCEPT ![i] = Tiada],
           proses'[r].fd = proses[r].fd, Terlihat(r)' = Terlihat(r),
           berkas' = Bersihkan(berkas, jalur', proses')
    PROVE  Serial!Cabut(i)
<1>1. \A s \in Req : proses'[s].fd = proses[s].fd /\ Terlihat(s)' = Terlihat(s)
  BY SamaLain
<1>2. [s \in Req |-> proses[s].fd]' = [s \in Req |-> proses[s].fd] BY <1>1
<1>3. [s \in Req |-> Terlihat(s)]' = [s \in Req |-> Terlihat(s)]
  <2> SUFFICES [s \in Req |-> Terlihat(s)'] = [s \in Req |-> Terlihat(s)] OBVIOUS
  <2> QED BY <1>1
<1>4. [n \in Ino |-> berkas[n].isi]' = Serial!Lepaskan([n \in Ino |-> berkas[n].isi])
  BY DEF Serial!Lepaskan, Bersihkan, BerkasLepas, Acuan
<1> QED BY <1>2, <1>3, <1>4 DEF Serial!Cabut, Terlihat

LEMMA SerialGabung ==
    ASSUME Hampa, NEW r \in Req, Sah(r), NEW i \in Id, NEW n \in Ino,
           jalur[i] = n \/ (jalur[i] = Tiada /\ n \notin Acuan(jalur, proses)),
           jalur' = [jalur EXCEPT ![i] = n], \A m \in Ino : berkas'[m].isi = berkas[m].isi,
           proses[r].fd = Tiada, proses'[r].fd = n, Terlihat(r) = Tiada,
           Terlihat(r)' = Tiada \/ (jalur[i] = Tiada /\ Terlihat(r)' = Kosong)
    PROVE  Serial!Gabung(r)
<1> DEFINE fd == [s \in Req |-> proses[s].fd]
           lihat == [s \in Req |-> Terlihat(s)]
<1>1. \A s \in Req \ {r} : proses'[s].fd = proses[s].fd /\ Terlihat(s)' = Terlihat(s)
  BY SamaLain
<1>2. fd' = [fd EXCEPT ![r] = n] /\ fd[r] = Tiada BY <1>1
<1>3. lihat' = lihat \/ (jalur[i] = Tiada /\ lihat' = [lihat EXCEPT ![r] = Kosong])
  <2>1. CASE Terlihat(r)' = Tiada BY <1>1, <2>1
  <2>2. CASE jalur[i] = Tiada /\ Terlihat(r)' = Kosong
    <3>1. lihat' = [s \in Req |-> IF s = r THEN Kosong ELSE Terlihat(s)] BY <1>1, <2>2
    <3> QED BY <2>2, <3>1
  <2> QED BY <2>1, <2>2
<1>4. [m \in Ino |-> berkas[m].isi]' = [m \in Ino |-> berkas[m].isi] OBVIOUS
<1>5. jalur[i] = n \/ (jalur[i] = Tiada /\ n \notin Serial!Dipakai)
  BY DEF Serial!Dipakai, Acuan
<1> QED BY <1>2, <1>3, <1>4, <1>5 DEF Serial!Gabung, Terlihat

LEMMA SerialLihat ==
    ASSUME NEW r \in Req, Sah(r), jalur' = jalur, berkas' = berkas,
           proses[r].fd \in Ino, proses'[r].fd = proses[r].fd, Terlihat(r) = Tiada,
           Terlihat(r)' = berkas[proses[r].fd].isi
    PROVE  Serial!Lihat(r)
<1> DEFINE fd == [s \in Req |-> proses[s].fd]
           lihat == [s \in Req |-> Terlihat(s)]
           isi == [m \in Ino |-> berkas[m].isi]
<1>1. \A s \in Req \ {r} : proses'[s].fd = proses[s].fd /\ Terlihat(s)' = Terlihat(s)
  BY SamaLain
<1>2. fd' = fd /\ fd[r] # Tiada BY <1>1, BedaTiada
<1>3. lihat' = [lihat EXCEPT ![r] = isi[fd[r]]] /\ lihat[r] = Tiada BY <1>1
<1>4. isi' = isi OBVIOUS
<1> QED BY <1>2, <1>3, <1>4 DEF Serial!Lihat, Terlihat

LEMMA SerialKosongkan ==
    ASSUME NEW r \in Req, Sah(r), jalur' = jalur, proses[r].fd \in Ino,
           proses'[r].fd = proses[r].fd, Terlihat(r) = berkas[proses[r].fd].isi,
           Terlihat(r)' = Kosong,
           \A m \in Ino : berkas'[m].isi = IF m = proses[r].fd THEN Kosong ELSE berkas[m].isi
    PROVE  Serial!Kosongkan(r)
<1> DEFINE fd == [s \in Req |-> proses[s].fd]
           lihat == [s \in Req |-> Terlihat(s)]
           isi == [m \in Ino |-> berkas[m].isi]
<1>1. \A s \in Req \ {r} : proses'[s].fd = proses[s].fd /\ Terlihat(s)' = Terlihat(s)
  BY SamaLain
<1>2. fd' = fd /\ fd[r] # Tiada BY <1>1, BedaTiada
<1>3. lihat' = [lihat EXCEPT ![r] = Kosong] /\ lihat[r] = isi[fd[r]] BY <1>1
<1>4. isi' = [isi EXCEPT ![fd[r]] = Kosong] OBVIOUS
<1> QED BY <1>2, <1>3, <1>4 DEF Serial!Kosongkan, Terlihat

LEMMA SerialGanti ==
    ASSUME NEW r \in Req, Sah(r), jalur' = jalur, proses[r].fd \in Ino, NEW d, NEW b,
           proses'[r].fd = Tiada, Terlihat(r)' = Tiada,
           Terlihat(r) = berkas[proses[r].fd].isi,
           \A m \in Ino : b[m].isi = IF m = proses[r].fd THEN d ELSE berkas[m].isi,
           berkas' = Bersihkan(b, jalur', proses')
    PROVE  Serial!Ganti(r, d)
<1> DEFINE fd == [s \in Req |-> proses[s].fd]
           lihat == [s \in Req |-> Terlihat(s)]
           isi == [m \in Ino |-> berkas[m].isi]
<1>1. \A s \in Req \ {r} : proses'[s].fd = proses[s].fd /\ Terlihat(s)' = Terlihat(s)
  BY SamaLain
<1>2. fd' = [fd EXCEPT ![r] = Tiada] /\ fd[r] # Tiada BY <1>1, BedaTiada
<1>3. lihat' = [lihat EXCEPT ![r] = Tiada] /\ lihat[r] = isi[fd[r]] BY <1>1
<1>4. [isi EXCEPT ![fd[r]] = d] = [m \in Ino |-> b[m].isi]
  <2>1. fd[r] = proses[r].fd OBVIOUS
  <2> QED BY <2>1
<1>5. isi' = Serial!Lepaskan([isi EXCEPT ![fd[r]] = d])
  <2>1. isi' = Serial!Lepaskan([m \in Ino |-> b[m].isi])
    BY DEF Serial!Lepaskan, Bersihkan, BerkasLepas, Acuan
  <2> QED BY <1>4, <2>1 DEF Serial!Lepaskan
<1> QED BY <1>2, <1>3, <1>5 DEF Serial!Ganti, Serial!Lepaskan, Terlihat

-----------------------------------------------------------------------------
(* The steps of the gate *)

\* A step of r that the abstract store allows.
Serasi(r) ==
    /\ Rapi(r)
    /\ \/ UNCHANGED Serial!vars
       \/ Serial!Gabung(r) \/ Serial!Lihat(r) \/ Serial!Kosongkan(r)
       \/ Serial!Tinggalkan(r)
       \/ \E d \in Isi : Serial!Ganti(r, d)
       \/ \E i \in Id : Serial!Cabut(i)

LEMMA HampaBersih ==
    ASSUME NEW b, berkas' = Bersihkan(b, jalur', proses') PROVE Hampa'
BY DEF Hampa, Bersihkan, BerkasLepas

\* A step that changes neither a name, a content, nor the file of r.
LEMMA SerasiDiam ==
    ASSUME Dasar, Cermin, NEW r \in Req, Sah(r), jalur' = jalur,
           \A n \in Ino : berkas'[n].isi = berkas[n].isi,
           proses'[r].fd = proses[r].fd, Terlihat(r)' = Terlihat(r),
           proses'[r].baca = proses[r].baca,
           proses'[r].pc \in Memegang => proses[r].pc \in Memegang \/ proses[r].fd = Tiada,
           proses'[r].pc = "kirim" /\ proses'[r].var = Tiada => proses[r].fd = Tiada
    PROVE  Serasi(r)
<1>1. \A s \in Req : proses'[s].fd = proses[s].fd /\ Terlihat(s)' = Terlihat(s)
  BY SamaLain
<1>2. Hampa' BY <1>1 DEF Cermin, Hampa, Acuan
<1>3. CerminSatu(r) /\ proses[r] \in Proses BY Satu DEF Cermin
<1>4. CerminSatu(r)'
  <2>1. CASE proses[r].fd = Tiada BY <1>3, <2>1 DEF CerminSatu
  <2>2. CASE proses[r].fd # Tiada
    <3>1. proses[r].fd \in Ino BY <1>3, <2>2 DEF Proses, Mungkin
    <3> QED BY <1>3, <2>2, <3>1 DEF CerminSatu
  <2> QED BY <2>1, <2>2
<1>5. Rapi(r) BY <1>2, <1>4 DEF Rapi
<1>6. UNCHANGED Serial!vars BY <1>1, SerialDiam
<1> QED BY <1>5, <1>6 DEF Serasi

\* r closes its file without writing.
LEMMA SerasiTinggal ==
    ASSUME Dasar, Cermin, NEW r \in Req, Sah(r), proses[r].fd # Tiada, jalur' = jalur,
           proses'[r].fd = Tiada, proses'[r].baca = Tiada, proses'[r].pc # "potong",
           berkas' = Bersihkan(berkas, jalur', proses')
    PROVE  Serasi(r)
<1>1. Terlihat(r)' = Tiada BY DEF Terlihat
<1>2. CerminSatu(r)' BY DEF CerminSatu
<1>3. \A n \in Ino : berkas'[n].isi = berkas[n].isi \/ n \notin Acuan(jalur', proses')
  BY DEF Bersihkan
<1>4. Rapi(r) BY <1>2, <1>3, HampaBersih DEF Rapi
<1> QED BY <1>1, <1>4, SerialTinggal DEF Serasi

\* A name is cut.
LEMMA SerasiCabut ==
    ASSUME Dasar, Cermin, NEW r \in Req, NEW i \in Id, Sah(r),
           jalur' = [jalur EXCEPT ![i] = Tiada],
           proses'[r].fd = proses[r].fd, Terlihat(r)' = Terlihat(r),
           proses'[r].baca = proses[r].baca,
           proses'[r].pc \in Memegang => proses[r].pc \in Memegang \/ proses[r].fd = Tiada,
           proses'[r].pc = "kirim" /\ proses'[r].var = Tiada => proses[r].fd = Tiada,
           berkas' = Bersihkan(berkas, jalur', proses')
    PROVE  Serasi(r)
<1>1. \A n \in Ino : berkas'[n].isi = berkas[n].isi \/ n \notin Acuan(jalur', proses')
  BY DEF Bersihkan
<1>2. CerminSatu(r) /\ proses[r] \in Proses BY Satu DEF Cermin
<1>3. CerminSatu(r)'
  <2>1. CASE proses[r].fd = Tiada BY <1>2, <2>1 DEF CerminSatu
  <2>2. CASE proses[r].fd # Tiada
    <3>1. proses[r].fd \in Ino BY <1>2, <2>2 DEF Proses, Mungkin
    <3>2. berkas'[proses[r].fd].isi = berkas[proses[r].fd].isi
      BY <1>1, <3>1 DEF Acuan
    <3> QED BY <1>2, <2>2, <3>2 DEF CerminSatu
  <2> QED BY <2>1, <2>2
<1>4. Rapi(r) BY <1>1, <1>3, HampaBersih DEF Rapi
<1> QED BY <1>4, SerialCabut DEF Serasi

\* A request that has read nothing, in terms of the abstract store.
LEMMA BelumBaca ==
    ASSUME Dasar, Cermin, NEW r \in Req,
           proses[r].pc \in {"luar", "buka"} \cup Menghapus
    PROVE  proses[r].fd = Tiada /\ proses[r].baca = Tiada /\ Terlihat(r) = Tiada
<1>1. proses[r].fd = Tiada BY Satu DEF Tertib
<1> QED BY <1>1 DEF Cermin, CerminSatu, Terlihat, Menghapus, Memegang

LEMMA SerasiKunjungan ==
    ASSUME Dasar, Cermin, NEW r \in Req, Kunjungan(r) PROVE Serasi(r)
<1>1. PICK b \in Peramban : Datang(r, b, kuki[b]) BY DEF Kunjungan
<1>2. /\ proses'[r] = [Luar EXCEPT !.pc = "buka", !.b = b, !.id = kuki[b]]
      /\ jalur' = jalur /\ berkas' = berkas /\ proses[r].pc = "luar"
  BY <1>1 DEF Datang, Dasar, TipeGerbang, TipeSesiPhp
<1>3. proses'[r].fd = Tiada /\ proses'[r].baca = Tiada /\ proses'[r].pc = "buka"
  BY <1>2 DEF Luar
<1>4. Terlihat(r)' = Tiada BY <1>3 DEF Terlihat, Memegang
<1>5. proses[r].fd = Tiada /\ proses[r].baca = Tiada /\ Terlihat(r) = Tiada
  BY <1>2, BelumBaca
<1>6. Sah(r) BY UmumKunjungan DEF Umum, Wajar
<1> QED BY <1>2, <1>3, <1>4, <1>5, <1>6, SerasiDiam DEF Memegang

\* A name that led nowhere, or to n, leads to n; r, which had none, opens n.
LEMMA AcuanTumbuh ==
    ASSUME Dasar, NEW r \in Req, Sah(r), NEW i \in Id, NEW n,
           jalur[i] = n \/ jalur[i] = Tiada, jalur' = [jalur EXCEPT ![i] = n], proses[r].fd = Tiada
    PROVE  Acuan(jalur, proses) \ {Tiada} \subseteq Acuan(jalur', proses')
<1> SUFFICES ASSUME NEW m \in Acuan(jalur, proses), m # Tiada
             PROVE  m \in Acuan(jalur', proses')
  OBVIOUS
<1>1. CASE \E j \in Id : m = jalur[j]
  <2>1. PICK j \in Id : m = jalur[j] BY <1>1
  <2>2. jalur'[j] = m BY <2>1 DEF Dasar, TipeGerbang, TipeSesiPhp
  <2> QED BY <2>2 DEF Acuan
<1>2. CASE \E s \in Req : m = proses[s].fd
  <2>1. PICK s \in Req : m = proses[s].fd BY <1>2
  <2>2. proses'[s].fd = m BY <2>1 DEF Sah
  <2> QED BY <2>2 DEF Acuan
<1> QED BY <1>1, <1>2 DEF Acuan

LEMMA SerasiMulai ==
    ASSUME Dasar, Cermin, NEW r \in Req, MulaiSesi(r) PROVE Serasi(r)
<1> DEFINE i == IF proses[r].id = Tiada THEN idBaru + 1 ELSE proses[r].id
           k == proses[r].id = Tiada
<1>1. i \in Id /\ proses[r].pc = "buka" BY DEF MulaiSesi, Buka
<1>2. PICK n \in IF jalur[i] = Tiada THEN InodeBebas ELSE {jalur[i]} :
         /\ jalur' = [jalur EXCEPT ![i] = n]
         /\ berkas' = IF jalur[i] = Tiada THEN [berkas EXCEPT ![n] = BerkasBaru] ELSE berkas
         /\ proses' = [proses EXCEPT ![r].pc = "kunci", ![r].id = i, ![r].fd = n,
                                     ![r].kuki = k]
  BY DEF MulaiSesi, Buka
<1>3. Sah(r) BY UmumMulaiSesi DEF Umum, Wajar
<1>4. proses[r] \in Proses BY Satu
<1> HIDE DEF i, k
<1>5. n \in Ino /\ (jalur[i] = n \/ (jalur[i] = Tiada /\ n \notin Acuan(jalur, proses)))
  <2>1. CASE jalur[i] = Tiada BY <1>2, <2>1, Bebas
  <2>2. CASE jalur[i] # Tiada
    BY <1>1, <1>2, <2>2 DEF Mungkin, Dasar, TipeGerbang, TipeSesiPhp
  <2> QED BY <2>1, <2>2
<1>6. /\ proses'[r].pc = "kunci" /\ proses'[r].fd = n /\ proses'[r].baca = proses[r].baca
  BY <1>2, <1>4 DEF Proses, Dasar, TipeGerbang, TipeSesiPhp
<1>7. proses[r].fd = Tiada /\ proses[r].baca = Tiada /\ Terlihat(r) = Tiada
  BY <1>1, BelumBaca
<1>8. Terlihat(r)' = Tiada BY <1>6 DEF Terlihat, Memegang
<1>9. \A m \in Ino : berkas'[m].isi = berkas[m].isi
  <2>1. CASE jalur[i] = Tiada
    <3>1. berkas[n].isi = Kosong /\ BerkasBaru.isi = Kosong
      BY <1>2, <2>1, Bebas DEF Cermin, Hampa, BerkasBaru
    <3> QED BY <1>2, <2>1, <3>1 DEF Dasar, TipeGerbang, TipeSesiPhp
  <2>2. CASE jalur[i] # Tiada BY <1>2, <2>2
  <2> QED BY <2>1, <2>2
<1>10. Hampa'
  <2>1. Acuan(jalur, proses) \ {Tiada} \subseteq Acuan(jalur', proses')
    BY <1>1, <1>2, <1>3, <1>5, <1>7, AcuanTumbuh
  <2> QED BY <1>9, <2>1, BedaTiada DEF Cermin, Hampa
<1>11. CerminSatu(r)' BY <1>5, <1>6, BedaTiada DEF CerminSatu, Memegang
<1>12. Rapi(r) BY <1>3, <1>9, <1>10, <1>11 DEF Rapi
<1>13. Serial!Gabung(r)
  BY <1>1, <1>2, <1>3, <1>5, <1>6, <1>7, <1>8, <1>9, SerialGabung DEF Cermin
<1> QED BY <1>12, <1>13 DEF Serasi

LEMMA SerasiBaca ==
    ASSUME Dasar, Cermin, NEW r \in Req, BacaSesi(r) PROVE Serasi(r)
<1> DEFINE d == berkas[proses[r].fd].isi
<1>1. proses[r].pc = "kunci" /\ jalur' = jalur /\ berkas' = berkas BY DEF BacaSesi, Kunci
<1>2. PICK pc \in {"gc", "aplikasi"} :
         proses' = [proses EXCEPT ![r].pc = pc, ![r].var = d, ![r].baca = d, ![r].malas = TRUE,
                                  ![r].kini = IF pc = "gc" THEN jam ELSE 0]
  BY DEF BacaSesi, Kunci
<1>3. Sah(r) BY UmumBacaSesi DEF Umum, Wajar
<1>4. proses[r] \in Proses /\ proses[r].fd \in Ino
  BY <1>1, Satu DEF Tertib, Terpasang
<1> HIDE DEF d
<1>5. proses'[r].pc = pc /\ proses'[r].fd = proses[r].fd /\ proses'[r].baca = d
  BY <1>2, <1>4 DEF Proses, Dasar, TipeGerbang, TipeSesiPhp
<1>6. Terlihat(r) = Tiada /\ Terlihat(r)' = d BY <1>1, <1>5 DEF Terlihat, Memegang
<1>7. Hampa'
  <2>1. \A s \in Req : proses'[s].fd = proses[s].fd BY <1>3, <1>5 DEF Sah
  <2> QED BY <1>1, <2>1 DEF Cermin, Hampa, Acuan
<1>8. CerminSatu(r)' BY <1>1, <1>4, <1>5, <1>6, BedaTiada DEF CerminSatu, d
<1>9. Rapi(r) BY <1>1, <1>3, <1>7, <1>8 DEF Rapi
<1>10. Serial!Lihat(r) BY <1>1, <1>3, <1>4, <1>5, <1>6, SerialLihat DEF d
<1> QED BY <1>9, <1>10 DEF Serasi

LEMMA SerasiKumpulkan ==
    ASSUME Dasar, Cermin, NEW r \in Req, Kumpulkan(r) PROVE Serasi(r)
<1>1. Sah(r) BY UmumKumpulkan DEF Umum, Wajar
<1>2. proses[r] \in Proses /\ Tertib(proses[r]) /\ proses[r].pc \in {"gc", "gcunlink"}
  BY Satu DEF Kumpulkan, GcStat, GcSelesai, GcUnlink
<1>3. /\ proses'[r].fd = proses[r].fd /\ proses'[r].baca = proses[r].baca
      /\ proses'[r].pc \in {"gc", "gcunlink", "aplikasi"}
  <2>1. CASE GcStat(r)
    BY <1>2, <2>1 DEF GcStat, Proses, Dasar, TipeGerbang, TipeSesiPhp
  <2>2. CASE GcSelesai(r)
    BY <1>2, <2>2 DEF GcSelesai, Proses, Dasar, TipeGerbang, TipeSesiPhp
  <2>3. CASE GcUnlink(r)
    BY <1>2, <2>3 DEF GcUnlink, Proses, Dasar, TipeGerbang, TipeSesiPhp
  <2> QED BY <2>1, <2>2, <2>3 DEF Kumpulkan
<1>4. Terlihat(r)' = Terlihat(r) /\ proses[r].pc \in Memegang
  BY <1>2, <1>3 DEF Terlihat, Memegang
<1>5. CASE jalur' = jalur /\ berkas' = berkas
  BY <1>1, <1>3, <1>4, <1>5, SerasiDiam
<1>6. CASE GcUnlink(r)
  <2>1. proses[r].sasaran \in Id BY <1>2, <1>6 DEF GcUnlink, Tertib
  <2>2. /\ jalur' = [jalur EXCEPT ![proses[r].sasaran] = Tiada]
        /\ berkas' = Bersihkan(berkas, jalur', proses')
    BY <1>6 DEF GcUnlink
  <2> QED BY <1>1, <1>3, <1>4, <2>1, <2>2, SerasiCabut
<1> QED BY <1>5, <1>6 DEF Kumpulkan, GcStat, GcSelesai

\* A script that ends with $_SESSION = d.
LEMMA SerasiJalankan ==
    ASSUME Dasar, Cermin, NEW r \in Req, NEW d, d # Tiada,
           proses[r].pc \in {"aplikasi", "periksa"},
           Jalankan(r, d), \A n \in Ino : berkas'[n].isi = berkas[n].isi, Sah(r)
    PROVE  Serasi(r)
<1>1. proses[r] \in Proses BY Satu
<1>2. proses' = [proses EXCEPT ![r].pc = "kirim", ![r].var = d, ![r].lokal = Tiada]
      /\ jalur' = jalur
  BY DEF Jalankan
<1>3. /\ proses'[r].fd = proses[r].fd /\ proses'[r].baca = proses[r].baca
      /\ proses'[r].var = d /\ proses'[r].pc = "kirim"
  BY <1>1, <1>2 DEF Proses, Dasar, TipeGerbang, TipeSesiPhp
<1>4. Terlihat(r)' = Terlihat(r) /\ proses[r].pc \in Memegang
  BY <1>3 DEF Terlihat, Memegang
<1> QED BY <1>2, <1>3, <1>4, SerasiDiam

LEMMA SerasiSkrip ==
    ASSUME Dasar, Cermin, NEW r \in Req,
           \/ Depan(r) \/ TokenDitolak(r) \/ Dibatasi(r) \/ DaftarWarga(r) \/ TanpaLogin(r)
           \/ Tampil(r) \/ Ajax(r)
    PROVE  Serasi(r)
<1>1. proses[r].pc \in {"aplikasi", "periksa"}
  BY DEF Depan, TokenDitolak, Dibatasi, DaftarWarga, TanpaLogin, Tampil, Ajax, Berjalan
<1>2. proses[r].var \in IsiGerbang /\ jam \in Jam
  BY <1>1, Satu, AsumsiGerbang DEF Tertib, Terpasang, Dasar, TipeGerbang, TipeSesiPhp
<1>3. \E d \in IsiGerbang : Selesaikan(r, d)
  <2>1. [proses[r].var EXCEPT !.token = TRUE] \in IsiGerbang BY <1>2 DEF IsiGerbang
  <2>2. \A k \in BOOLEAN :
           [proses[r].var EXCEPT !.aktif = jam, !.kilat = k] \in IsiGerbang
    BY <1>2 DEF IsiGerbang, Mungkin
  <2> QED BY <1>2, <2>1, <2>2
          DEF Depan, TokenDitolak, Dibatasi, DaftarWarga, TanpaLogin, Tampil, Ajax
<1>4. PICK d \in IsiGerbang : Selesaikan(r, d) BY <1>3
<1>5. Jalankan(r, d) /\ berkas' = berkas BY <1>4 DEF Selesaikan
<1>6. d # Tiada BY AsumsiGerbang, BedaTiada
<1>7. Sah(r) BY UmumSkrip DEF Umum, Wajar
<1> QED BY <1>1, <1>5, <1>6, <1>7, SerasiJalankan

LEMMA SerasiHitung ==
    ASSUME Dasar, Cermin, NEW r \in Req, HitungPercobaan(r) PROVE Serasi(r)
<1> DEFINE l == IF percobaan >= Batas THEN "batas" ELSE "bebas"
<1>1. /\ proses[r].pc = "aplikasi" /\ jalur' = jalur /\ berkas' = berkas
      /\ proses' = [proses EXCEPT ![r].pc = "periksa", ![r].lokal = l]
  BY DEF HitungPercobaan, Berjalan
<1> HIDE DEF l
<1>2. proses[r] \in Proses BY Satu
<1>3. /\ proses'[r].fd = proses[r].fd /\ proses'[r].baca = proses[r].baca
      /\ proses'[r].pc = "periksa"
  BY <1>1, <1>2 DEF Proses, Dasar, TipeGerbang, TipeSesiPhp
<1>4. Terlihat(r)' = Terlihat(r) /\ proses[r].pc \in Memegang
  BY <1>1, <1>3 DEF Terlihat, Memegang
<1> QED BY <1>1, <1>3, <1>4, SahHitung, SerasiDiam

LEMMA SerasiGagal ==
    ASSUME Dasar, Cermin, NEW r \in Req, LoginGagal(r) PROVE Serasi(r)
<1>1. proses[r].pc = "periksa" /\ Jalankan(r, proses[r].var) BY DEF LoginGagal
<1>2. \A n \in Ino : berkas'[n].isi = berkas[n].isi
  <2>1. berkas' = [berkas EXCEPT ![proses[r].fd].gagal = @ + 1] BY SahGagal
  <2> QED BY <2>1 DEF Berkas, Dasar, TipeGerbang, TipeSesiPhp
<1>3. proses[r].var # Tiada BY <1>1, Satu, BedaTiada DEF Tertib, Terpasang
<1> QED BY <1>1, <1>2, <1>3, SahGagal, SerasiJalankan

LEMMA SerasiAkhiri ==
    ASSUME Dasar, Cermin, NEW r \in Req,
           LoginBenar(r) \/ HabisDiam(r) \/ AkunHilang(r) \/ Keluar(r)
    PROVE  Serasi(r)
<1>1. \E c, l : MulaiHapus(r, c, l)
  BY DEF LoginBenar, HabisDiam, AkunHilang, Keluar
<1>2. PICK c, l : MulaiHapus(r, c, l) BY <1>1
<1>3. /\ proses' = [proses EXCEPT ![r].pc = "hapus", ![r].fd = Tiada, ![r].baca = Tiada,
                                  ![r].malas = FALSE, ![r].lanjut = c, ![r].lokal = l]
      /\ berkas' = Bersihkan(berkas, jalur', proses') /\ jalur' = jalur
  BY <1>2 DEF MulaiHapus
<1>4. proses[r].pc \in {"aplikasi", "periksa"}
  BY DEF LoginBenar, HabisDiam, AkunHilang, Keluar, Berjalan
<1>5. proses[r] \in Proses /\ proses[r].fd \in Ino BY <1>4, Satu DEF Tertib, Terpasang
<1>6. proses'[r].fd = Tiada /\ proses'[r].baca = Tiada /\ proses'[r].pc = "hapus"
  BY <1>3, <1>5 DEF Proses, Dasar, TipeGerbang, TipeSesiPhp
<1>7. Sah(r) BY UmumAkhiri DEF Umum, Wajar
<1> QED BY <1>3, <1>5, <1>6, <1>7, BedaTiada, SerasiTinggal

LEMMA SerasiMasuk ==
    ASSUME Dasar, Cermin, Segar, NEW r \in Req, MasukBaru(r) PROVE Serasi(r)
<1> DEFINE i == idBaru + 1
           d == SetelahMasuk(proses[r].var, proses[r].lokal)
<1>1. i \in Id /\ proses[r].pc = "baru" BY DEF MasukBaru, Baru
<1>2. PICK n \in InodeBebas :
         /\ jalur' = [jalur EXCEPT ![i] = n]
         /\ berkas' = [berkas EXCEPT ![n] = BerkasBaru]
         /\ proses' = [proses EXCEPT ![r].pc = "kirim", ![r].id = i, ![r].fd = n,
                                     ![r].var = d, ![r].baca = Kosong, ![r].malas = FALSE,
                                     ![r].kuki = TRUE, ![r].lanjut = Tiada, ![r].lokal = Tiada]
  BY DEF MasukBaru, Baru
<1>3. Sah(r) BY UmumMasukBaru DEF Umum, Wajar
<1>4. proses[r] \in Proses BY Satu
<1>5. jalur[i] = Tiada
  <2>1. idBaru \in Nat /\ i \notin 1..idBaru BY DEF Dasar, TipeGerbang, TipeSesiPhp
  <2> QED BY <1>1, <2>1 DEF Segar
<1> HIDE DEF i, d
<1>6. n \in Ino /\ n \notin Acuan(jalur, proses) BY Bebas
<1>7. proses'[r].pc = "kirim" /\ proses'[r].fd = n /\ proses'[r].baca = Kosong
  BY <1>2, <1>4 DEF Proses, Dasar, TipeGerbang, TipeSesiPhp
<1>8. proses[r].fd = Tiada /\ Terlihat(r) = Tiada BY <1>1, BelumBaca DEF Menghapus
<1>9. Terlihat(r)' = Kosong BY <1>7 DEF Terlihat, Memegang
<1>10. berkas'[n].isi = Kosong /\ \A m \in Ino : berkas'[m].isi = berkas[m].isi
  <2>1. berkas[n].isi = Kosong /\ BerkasBaru.isi = Kosong
    BY <1>6 DEF Cermin, Hampa, BerkasBaru
  <2> QED BY <1>2, <1>6, <2>1 DEF Dasar, TipeGerbang, TipeSesiPhp
<1>11. Hampa'
  <2>1. Acuan(jalur, proses) \ {Tiada} \subseteq Acuan(jalur', proses')
    BY <1>1, <1>2, <1>3, <1>5, <1>8, AcuanTumbuh
  <2> QED BY <1>10, <2>1, BedaTiada DEF Cermin, Hampa
<1>12. CerminSatu(r)'
  <2>1. proses[r].var \in IsiGerbang /\ proses[r].lokal \in Mungkin(Akun)
    BY <1>1, Satu, AsumsiGerbang DEF Tertib, Menghapus, Mungkin
  <2>2. d \in Isi BY <2>1, AsumsiGerbang DEF d, SetelahMasuk, IsiGerbang
  <2>3. proses'[r].var = d BY <1>2, <1>4 DEF Proses, Dasar, TipeGerbang, TipeSesiPhp
  <2> QED BY <1>6, <1>7, <1>9, <1>10, <2>2, <2>3, BedaTiada DEF CerminSatu
<1>13. Rapi(r) BY <1>3, <1>10, <1>11, <1>12 DEF Rapi
<1>14. Serial!Gabung(r)
  BY <1>1, <1>2, <1>3, <1>5, <1>6, <1>7, <1>8, <1>9, <1>10, SerialGabung DEF Cermin
<1> QED BY <1>13, <1>14 DEF Serasi

\* The end of a destruction leaves what was read, and holds no file.
LEMMA UsaiBaca ==
    ASSUME Dasar, NEW r \in Req,
           NEW p \in {proses, [proses EXCEPT ![r].lanjut = Tiada]},
           proses' = SetelahHapus(r, p)
    PROVE  proses'[r].baca = proses[r].baca /\ proses'[r].pc \in {"baru", "kirim"}
<1>1. proses \in [Req -> Proses] BY DEF Dasar, TipeGerbang, TipeSesiPhp
<1>2. /\ p \in [Req -> [pc : Pc, b : Mungkin(Peramban), id : Mungkin(Id),
                        fd : Mungkin(Ino), var : Mungkin(Isi), baca : Mungkin(Isi),
                        malas : BOOLEAN, kuki : BOOLEAN, kini : Jam, sasaran : Mungkin(Id),
                        lanjut : Mungkin({"baru"}), lokal : Mungkin(Lokal)]]
      /\ p[r].baca = proses[r].baca
  BY <1>1 DEF Proses, Mungkin
<1>3. CASE p[r].lanjut = "baru" BY <1>2, <1>3 DEF SetelahHapus
<1>4. CASE p[r].lanjut # "baru" BY <1>2, <1>4 DEF SetelahHapus
<1> QED BY <1>3, <1>4

LEMMA SerasiHapus ==
    ASSUME Dasar, Cermin, NEW r \in Req, HapusSesi(r) PROVE Serasi(r)
<1> DEFINE x == proses[r].id
<1>1. Hapus(r) /\ proses[r].pc = "hapus" BY DEF HapusSesi, Hapus
<1>2. proses[r] \in Proses /\ x \in Id BY <1>1, Satu DEF Tertib
<1>3. Sah(r) BY UmumHapusSesi DEF Umum, Wajar
<1>4. proses[r].fd = Tiada /\ proses[r].baca = Tiada /\ Terlihat(r) = Tiada
  BY <1>1, BelumBaca DEF Menghapus
<1>5. CASE jalur[x] = Tiada
  <2>1. proses' = [proses EXCEPT ![r].pc = "akses"] /\ jalur' = jalur /\ berkas' = berkas
    BY <1>1, <1>5 DEF Hapus
  <2>2. proses'[r].fd = Tiada /\ proses'[r].baca = Tiada /\ proses'[r].pc = "akses"
    BY <1>2, <1>4, <2>1 DEF Proses, Dasar, TipeGerbang, TipeSesiPhp
  <2>3. Terlihat(r)' = Tiada BY <2>2 DEF Terlihat, Memegang
  <2> QED BY <1>3, <1>4, <2>1, <2>2, <2>3, SerasiDiam
<1>6. CASE jalur[x] # Tiada
  <2>1. /\ jalur' = [jalur EXCEPT ![x] = Tiada] /\ proses' = SetelahHapus(r, proses)
        /\ berkas' = Bersihkan(berkas, jalur', proses')
    BY <1>1, <1>6 DEF Hapus
  <2>2. /\ proses'[r].fd = Tiada /\ proses'[r].baca = Tiada
        /\ proses'[r].pc \in {"baru", "kirim"}
    BY <1>4, <2>1, UsaiTetap, UsaiBaca
  <2>3. Terlihat(r)' = Tiada BY <2>2 DEF Terlihat
  <2> QED BY <1>2, <1>3, <1>4, <2>1, <2>2, <2>3, SerasiCabut
<1> QED BY <1>5, <1>6

LEMMA SerasiAkses ==
    ASSUME Dasar, Cermin, NEW r \in Req, AksesSesi(r) PROVE Serasi(r)
<1>1. proses[r].pc = "akses" /\ jalur' = jalur /\ berkas' = berkas
  BY DEF AksesSesi, Akses
<1>2. PICK p \in {proses, [proses EXCEPT ![r].lanjut = Tiada]} : proses' = SetelahHapus(r, p)
  BY DEF AksesSesi, Akses
<1>3. proses[r].fd = Tiada /\ proses[r].baca = Tiada /\ Terlihat(r) = Tiada
  BY <1>1, BelumBaca DEF Menghapus
<1>4. proses'[r].fd = Tiada /\ proses'[r].baca = Tiada /\ proses'[r].pc \in {"baru", "kirim"}
  BY <1>2, <1>3, UsaiTetap, UsaiBaca
<1>5. Terlihat(r)' = Tiada BY <1>4 DEF Terlihat
<1>6. Sah(r) BY UmumAksesSesi DEF Umum, Wajar
<1> QED BY <1>1, <1>3, <1>4, <1>5, <1>6, SerasiDiam

\* A request that is over without having written anything.
LEMMA SerasiLuar ==
    ASSUME Dasar, Cermin, NEW r \in Req, proses' = [proses EXCEPT ![r] = Luar], Sah(r),
           jalur' = jalur, berkas' = Bersihkan(berkas, jalur', proses')
    PROVE  Serasi(r)
<1>1. proses'[r].fd = Tiada /\ proses'[r].baca = Tiada /\ proses'[r].pc = "luar"
  BY DEF Luar, Dasar, TipeGerbang, TipeSesiPhp
<1>2. CASE proses[r].fd # Tiada BY <1>1, <1>2, SerasiTinggal
<1>3. CASE proses[r].fd = Tiada
  <2>1. \A s \in Req : proses'[s].fd = proses[s].fd BY <1>1, <1>3 DEF Sah
  <2>2. \A n \in Ino : berkas'[n].isi = berkas[n].isi
    BY <2>1 DEF Cermin, Hampa, Acuan, Bersihkan, BerkasLepas
  <2>3. proses[r].pc # "potong"
    BY <1>3, Satu, BedaTiada DEF Tertib, Terpasang
  <2>4. proses[r].baca = Tiada BY <1>3 DEF Cermin, CerminSatu
  <2>5. Terlihat(r) = Tiada /\ Terlihat(r)' = Tiada BY <1>1, <2>3, <2>4 DEF Terlihat
  <2> QED BY <1>1, <1>3, <2>2, <2>4, <2>5, SerasiDiam DEF Memegang
<1> QED BY <1>2, <1>3

LEMMA SerasiTerbunuh ==
    ASSUME Dasar, Cermin, NEW r \in Req, Terbunuh(r) PROVE Serasi(r)
<1>1. Sah(r) BY UmumTerbunuh DEF Umum, Wajar
<1> QED BY <1>1, SerasiLuar DEF Terbunuh, Mati

LEMMA SerasiJawab ==
    ASSUME Dasar, Cermin, NEW r \in Req, Jawab(r) PROVE Serasi(r)
<1>1. proses[r].pc = "kirim" /\ jalur' = jalur /\ berkas' = berkas BY DEF Jawab, Kirim
<1>2. proses[r] \in Proses /\ Sah(r) BY Satu, UmumJawab DEF Umum, Wajar
<1>3. CASE proses[r].var = Tiada
  <2>1. proses'[r] = Luar BY <1>3 DEF Jawab, Kirim, Dasar, TipeGerbang, TipeSesiPhp
  <2>2. proses'[r].fd = Tiada /\ proses'[r].baca = Tiada /\ proses'[r].pc = "luar"
    BY <2>1 DEF Luar
  <2>3. proses[r].fd = Tiada /\ proses[r].baca = Tiada
    BY <1>1, <1>3 DEF Cermin, CerminSatu
  <2>4. Terlihat(r) = Tiada /\ Terlihat(r)' = Tiada BY <1>1, <2>2, <2>3 DEF Terlihat
  <2> QED BY <1>1, <1>2, <2>2, <2>3, <2>4, SerasiDiam
<1>4. CASE proses[r].var # Tiada
  <2> DEFINE q == [proses[r] EXCEPT !.pc = "tulis", !.kuki = FALSE]
  <2>1. proses'[r] = q BY <1>4 DEF Jawab, Kirim, Dasar, TipeGerbang, TipeSesiPhp
  <2>2. q.fd = proses[r].fd /\ q.baca = proses[r].baca /\ q.pc = "tulis"
    BY <1>2 DEF Proses
  <2> HIDE DEF q
  <2>3. Terlihat(r)' = Terlihat(r) /\ proses[r].pc \in Memegang
    BY <1>1, <2>1, <2>2 DEF Terlihat, Memegang
  <2> QED BY <1>1, <1>2, <2>1, <2>2, <2>3, SerasiDiam
<1> QED BY <1>3, <1>4

LEMMA SerasiSimpan ==
    ASSUME Dasar, Cermin, NEW r \in Req, Simpan(r) PROVE Serasi(r)
<1>1. jalur' = jalur /\ proses[r].pc \in {"tulis", "potong"}
  BY DEF Simpan, Potong, Tulis
<1>2. /\ proses[r] \in Proses /\ proses[r].fd \in Ino /\ proses[r].fd # Tiada
      /\ proses[r].var \in Isi /\ proses[r].pc \in Memegang
  BY <1>1, Satu, BedaTiada DEF Tertib, Terpasang, Memegang
<1>3. Sah(r) BY UmumSimpan DEF Umum, Wajar
<1>4. Terlihat(r) = berkas[proses[r].fd].isi BY <1>2 DEF Cermin, CerminSatu
<1>5. CASE Potong(r)
  <2> DEFINE q == [proses[r] EXCEPT !.pc = "potong"]
  <2>1. /\ proses'[r] = q
        /\ berkas' = [berkas EXCEPT ![proses[r].fd].isi = Kosong, ![proses[r].fd].mtime = jam]
    BY <1>5 DEF Potong, Dasar, TipeGerbang, TipeSesiPhp
  <2>2. q.fd = proses[r].fd /\ q.pc = "potong" BY <1>2 DEF Proses
  <2> HIDE DEF q
  <2>3. \A m \in Ino : berkas'[m].isi = IF m = proses[r].fd THEN Kosong ELSE berkas[m].isi
    BY <2>1 DEF Berkas, Dasar, TipeGerbang, TipeSesiPhp
  <2>4. Terlihat(r)' = Kosong BY <2>1, <2>2 DEF Terlihat, Memegang
  <2>5. Hampa'
    <3>1. \A s \in Req : proses'[s].fd = proses[s].fd BY <1>3, <2>1, <2>2 DEF Sah
    <3> QED BY <1>1, <2>3, <3>1 DEF Cermin, Hampa, Acuan
  <2>6. CerminSatu(r)' BY <1>2, <2>1, <2>2, <2>3, <2>4 DEF CerminSatu
  <2>7. Rapi(r) BY <1>2, <1>3, <2>3, <2>5, <2>6 DEF Rapi
  <2>8. Serial!Kosongkan(r)
    BY <1>1, <1>2, <1>3, <1>4, <2>1, <2>2, <2>3, <2>4, SerialKosongkan
  <2> QED BY <2>7, <2>8 DEF Serasi
<1>6. CASE Tulis(r)
  <2>1. PICK b : b = IF proses[r].pc = "tulis" /\ Malas(r)
                     THEN [berkas EXCEPT ![jalur[proses[r].id]].mtime = jam]
                     ELSE Ditulis(berkas, proses[r].fd, proses[r].var)
    OBVIOUS
  <2>2. proses' = [proses EXCEPT ![r] = Luar] /\ berkas' = Bersihkan(b, jalur', proses')
    BY <1>1, <1>6, <2>1 DEF Tulis
  <2>3. PICK d \in Isi : \A m \in Ino : b[m].isi = IF m = proses[r].fd THEN d ELSE berkas[m].isi
    <3>1. b[proses[r].fd].isi \in Isi
      BY <1>2, <2>1 DEF Ditulis, Berkas, Dasar, TipeGerbang, TipeSesiPhp
    <3>2. \A m \in Ino \ {proses[r].fd} : b[m].isi = berkas[m].isi
      BY <1>2, <2>1 DEF Ditulis, Berkas, Dasar, TipeGerbang, TipeSesiPhp
    <3> QED BY <3>1, <3>2
  <2>4. proses'[r].fd = Tiada /\ proses'[r].baca = Tiada /\ proses'[r].pc = "luar"
    BY <2>2 DEF Luar, Dasar, TipeGerbang, TipeSesiPhp
  <2>5. Terlihat(r)' = Tiada BY <2>4 DEF Terlihat, Memegang
  <2>6. CerminSatu(r)' BY <2>4 DEF CerminSatu
  <2>7. \A n \in Ino : \/ berkas'[n].isi = berkas[n].isi
                       \/ n \notin Acuan(jalur', proses')
                       \/ proses[r].fd = n
    BY <2>2, <2>3 DEF Bersihkan
  <2>8. Rapi(r)
    BY <1>2, <1>3, <2>2, <2>6, <2>7, HampaBersih DEF Rapi
  <2>9. Serial!Ganti(r, d)
    BY <1>1, <1>2, <1>3, <1>4, <2>2, <2>3, <2>4, <2>5, SerialGanti
  <2> QED BY <2>8, <2>9 DEF Serasi
<1> QED BY <1>5, <1>6 DEF Simpan

-----------------------------------------------------------------------------
LEMMA SerasiLangkah ==
    ASSUME Dasar, Cermin, Segar, NEW r \in Req,
           Kunjungan(r) \/ BacaSesi(r) \/ Langkah(r) \/ Terbunuh(r)
    PROVE  Serasi(r)
<1>1. CASE Kunjungan(r) \/ BacaSesi(r) \/ Terbunuh(r)
  BY <1>1, SerasiKunjungan, SerasiBaca, SerasiTerbunuh
<1>2. CASE MulaiSesi(r) \/ Kumpulkan(r) \/ MasukBaru(r)
  BY <1>2, SerasiMulai, SerasiKumpulkan, SerasiMasuk
<1>3. CASE HitungPercobaan(r) \/ LoginGagal(r)
  BY <1>3, SerasiHitung, SerasiGagal
<1>4. CASE \/ Depan(r) \/ TokenDitolak(r) \/ Dibatasi(r) \/ DaftarWarga(r) \/ TanpaLogin(r)
           \/ Tampil(r) \/ Ajax(r)
  BY <1>4, SerasiSkrip
<1>5. CASE LoginBenar(r) \/ HabisDiam(r) \/ AkunHilang(r) \/ Keluar(r)
  BY <1>5, SerasiAkhiri
<1>6. CASE HapusSesi(r) \/ AksesSesi(r) \/ Jawab(r) \/ Simpan(r)
  BY <1>6, SerasiHapus, SerasiAkses, SerasiJawab, SerasiSimpan
<1> QED BY <1>1, <1>2, <1>3, <1>4, <1>5, <1>6 DEF Langkah

\* A step of the clock.
LEMMA SerasiWaktu ==
    ASSUME Dasar, Cermin, Waktu PROVE Cermin' /\ UNCHANGED Serial!vars
<1>1. jalur' = jalur /\ proses' = proses BY DEF Waktu, Detik
<1>2. \A n \in Ino : berkas'[n].isi = berkas[n].isi
  BY DEF Waktu, Berkas, Dasar, TipeGerbang, TipeSesiPhp
<1>3. UNCHANGED Serial!vars
  <2>1. \A s \in Req : proses'[s].fd = proses[s].fd /\ Terlihat(s)' = Terlihat(s)
    BY <1>1 DEF Terlihat
  <2> QED BY <1>1, <1>2, <2>1, SerialDiam
<1>4. Hampa' BY <1>1, <1>2 DEF Cermin, Hampa
<1>5. \A r \in Req : proses[r].fd \in Mungkin(Ino) BY Satu DEF Proses
<1>6. \A r \in Req : CerminSatu(r)'
  BY <1>1, <1>2, <1>5 DEF Cermin, CerminSatu, Terlihat, Mungkin
<1> QED BY <1>3, <1>4, <1>6 DEF Cermin

LEMMA SerialTetap ==
    ASSUME Dasar, Tunggal, Segar, Cermin, [Next]_vars
    PROVE  Cermin' /\ [Serial!Next]_Serial!vars
<1>1. ASSUME NEW r \in Req, Serasi(r) PROVE Cermin' /\ [Serial!Next]_Serial!vars
  <2>1. Cermin' BY <1>1, CerminLangkah DEF Serasi
  <2>2. Serial!Next \/ UNCHANGED Serial!vars BY <1>1 DEF Serasi, Serial!Next
  <2> QED BY <2>1, <2>2
<1>2. CASE Next BY <1>1, <1>2, SerasiLangkah, SerasiWaktu DEF Next
<1>3. CASE UNCHANGED vars
  <2>1. jalur' = jalur /\ berkas' = berkas /\ proses' = proses
    BY <1>3 DEF vars, sesiVars
  <2>2. \A s \in Req : proses'[s].fd = proses[s].fd /\ Terlihat(s)' = Terlihat(s)
    BY <2>1 DEF Terlihat
  <2>3. UNCHANGED Serial!vars BY <2>1, <2>2, SerialDiam
  <2>4. Cermin' BY <2>1 DEF Cermin, Hampa, CerminSatu, Terlihat
  <2> QED BY <2>3, <2>4
<1> QED BY <1>2, <1>3

LEMMA SerialAwal ==
    ASSUME Init PROVE Cermin /\ Serial!Init
<1>1. /\ jalur = [i \in Id |-> Tiada] /\ berkas = [n \in Ino |-> BerkasLepas]
      /\ proses = [r \in Req |-> Luar]
  BY DEF Init, InitSesi
<1>2. /\ Luar.pc = "luar" /\ Luar.fd = Tiada /\ Luar.baca = Tiada
      /\ BerkasLepas.isi = Kosong
  BY DEF Luar, BerkasLepas
<1>3. Cermin BY <1>1, <1>2 DEF Cermin, Hampa, CerminSatu, Memegang
<1>4. Serial!Init BY <1>1, <1>2 DEF Serial!Init, Memegang
<1> QED BY <1>3, <1>4

(***************************************************************************)
(* The requests of a session are serial: session.c and mod_files.c         *)
(* implement the store of SesiSerial.  What a request writes at its end    *)
(* replaces exactly what it read, whatever logouts, collections, killed    *)
(* processes and new files of the same id come between (mod_files.c:210).  *)
(***************************************************************************)
THEOREM SesiSerialTerpenuhi == Spec => SerialSpec
<1> DEFINE Inv == Dasar /\ Tunggal /\ Identitas /\ Cermin
<1>1. Init => Inv /\ Serial!Init
  BY DasarAwal, TunggalAwal, IdentitasAwal, SerialAwal
<1>2. Inv /\ [Next]_vars => Inv' /\ [Serial!Next]_Serial!vars
  BY DasarTetap, TunggalTetap, IdentitasTetap, SerialTetap DEF Identitas
<1> QED BY <1>1, <1>2, PTL DEF Spec, SerialSpec, Serial!Spec
=============================================================================
