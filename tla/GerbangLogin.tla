---------------------------- MODULE GerbangLogin ----------------------------
(***************************************************************************)
(* The gate of Si-Air on top of PhpSession: the login page (src/index.php) *)
(* with its form token and its rate limit, the gate of the dashboard       *)
(* (src/login/index.php:2-36) with the idle limit, the dashboard's AJAX    *)
(* (src/assets/ajax.php) and src/login/logout.php.  Every script begins    *)
(* with session_start(), so the requests of one session wait for each      *)
(* other; those of different sessions, from one address, do not.           *)
(*                                                                         *)
(* A tick of the clock is more than the window of the rate limit (15       *)
(* minutes); GcMax and DiamMax say how many ticks session.gc_maxlifetime   *)
(* (1440 s) and the idle limit (1800 s) are.  The first 3 KB of index.php  *)
(* are still in the output buffer (php.ini-production:226) when it         *)
(* regenerates the id, so the headers can still be sent.                   *)
(***************************************************************************)
EXTENDS PhpSession

CONSTANTS
    Akun,     \* accounts
    Batas,    \* failed attempts after which the form is refused; 5 in the code
    DiamMax,  \* $batas_diam_detik, in ticks
    MaxReq    \* bound on the number of requests and of processes killed

VARIABLES
    kuki,       \* browser -> the session cookie it holds
    datang,     \* the number of requests and of killed processes so far
    percobaan,  \* rows of login_attempts in the last 15 minutes, all of one address
    tanpaUser,  \* history: ids served as a visitor, or whose session has ended
    janji       \* history: ids a browser was given by a successful login, not yet ended

vars == <<sesiVars, kuki, datang, percobaan, tanpaUser, janji>>
appVars == <<kuki, datang, percobaan>>
riwayat == <<tanpaUser, janji>>

\* $_SESSION: user, last_activity, csrf_token_login, and a message for the
\* next page (res_user, res_tarif, res_meter, res_settings).
IsiGerbang == [user : Mungkin(Akun), aktif : Mungkin(Jam), token : BOOLEAN, kilat : BOOLEAN]
KosongGerbang == [user |-> Tiada, aktif |-> Tiada, token |-> FALSE, kilat |-> FALSE]
UkuranGerbang ==
    [d \in IsiGerbang |-> Cardinality({k \in {"user", "aktif"} : d[k] # Tiada})
                          + Cardinality({k \in {"token", "kilat"} : d[k]})]
LokalGerbang == {"batas", "bebas"} \cup Akun

ASSUME AsumsiGerbang ==
    /\ Isi = IsiGerbang /\ Kosong = KosongGerbang
    /\ Ukuran = UkuranGerbang /\ Lokal = LokalGerbang
    /\ Batas \in Nat \ {0} /\ DiamMax \in Nat /\ MaxReq \in Nat

TipeGerbang ==
    /\ TipeSesiPhp
    /\ kuki \in [Peramban -> Mungkin(Id)]
    /\ datang \in 0..MaxReq /\ percobaan \in Nat
    /\ tanpaUser \subseteq Id /\ janji \subseteq Id

Init ==
    /\ InitSesi
    /\ kuki = [b \in Peramban |-> Tiada]
    /\ datang = 0 /\ percobaan = 0
    /\ tanpaUser = {} /\ janji = {}
-----------------------------------------------------------------------------
\* Bound: ids are left for what the running requests may still create.
Butuh(p) == (p.pc = "buka" /\ p.id = Tiada) \/ p.lanjut = "baru"
CukupId == idBaru + Cardinality({r \in Req : Butuh(proses'[r])}) <= MaxId

Kunjungan(r) ==
    /\ \E b \in Peramban : Datang(r, b, kuki[b])
    /\ CukupId
    /\ datang < MaxReq /\ datang' = datang + 1
    /\ UNCHANGED <<kuki, percobaan, riwayat>>

MulaiSesi(r) == Buka(r) /\ UNCHANGED <<appVars, riwayat>>

BacaSesi(r) ==
    /\ Kunci(r)
    /\ tanpaUser' = IF proses'[r].baca.user = Tiada THEN tanpaUser \cup {proses[r].id}
                    ELSE tanpaUser
    /\ UNCHANGED <<appVars, janji>>

Kumpulkan(r) ==
    \/ (GcStat(r) \/ GcSelesai(r)) /\ UNCHANGED <<appVars, riwayat>>
    \/ /\ GcUnlink(r)
       /\ tanpaUser' = tanpaUser \cup {proses[r].sasaran}
       /\ janji' = janji \ {proses[r].sasaran}
       /\ UNCHANGED appVars

Berjalan(r) == proses[r].pc = "aplikasi"
Selesaikan(r, d) == Jalankan(r, d) /\ UNCHANGED <<berkas, appVars, riwayat>>
-----------------------------------------------------------------------------
\* GET index.php: the form and its token.
Depan(r) ==
    /\ Berjalan(r)
    /\ Selesaikan(r, [proses[r].var EXCEPT !.token = TRUE])

\* POST index.php with a token that is not the session's: the session is new,
\* or the form is older than a login.
TokenDitolak(r) ==
    /\ Berjalan(r)
    /\ Selesaikan(r, [proses[r].var EXCEPT !.token = TRUE])

\* Mutant: one attempt too many is let through.
HitungPercobaan_Lebih(r) ==
    /\ Berjalan(r) /\ proses[r].var.token
    /\ proses' = [proses EXCEPT ![r].pc = "periksa",
                                ![r].lokal = IF percobaan > Batas THEN "batas" ELSE "bebas"]
    /\ UNCHANGED <<jam, jalur, berkas, idBaru, appVars, riwayat>>

\* The COUNT of the rate limit, read before the password is looked at.
HitungPercobaan(r) ==
    /\ Berjalan(r) /\ proses[r].var.token
    /\ proses' = [proses EXCEPT ![r].pc = "periksa",
                                ![r].lokal = IF percobaan >= Batas THEN "batas" ELSE "bebas"]
    /\ UNCHANGED <<jam, jalur, berkas, idBaru, appVars, riwayat>>

Dibatasi(r) ==
    /\ proses[r].pc = "periksa" /\ proses[r].lokal = "batas"
    /\ Selesaikan(r, proses[r].var)

\* register_warga, behind the same two tests; it counts as no attempt.  What it
\* writes to the table of accounts is SisipDaftar of UserHandler.
DaftarWarga(r) ==
    /\ proses[r].pc = "periksa" /\ proses[r].lokal = "bebas"
    /\ Selesaikan(r, proses[r].var)

\* catat_percobaan_gagal
LoginGagal(r) ==
    /\ proses[r].pc = "periksa" /\ proses[r].lokal = "bebas"
    /\ Jalankan(r, proses[r].var)
    /\ percobaan' = percobaan + 1
    /\ berkas' = [berkas EXCEPT ![proses[r].fd].gagal = @ + 1]
    /\ UNCHANGED <<kuki, datang, riwayat>>

SetelahMasuk(d, u) == [d EXCEPT !.user = u, !.token = FALSE]

\* Mutant: the login keeps the id of the session.
LoginBenar_IdTetap(r) ==
    /\ proses[r].pc = "periksa" /\ proses[r].lokal = "bebas"
    /\ \E u \in Akun : Selesaikan(r, SetelahMasuk(proses[r].var, u))

LoginBenar(r) ==
    /\ proses[r].pc = "periksa" /\ proses[r].lokal = "bebas"
    /\ \E u \in Akun : MulaiHapus(r, "baru", u)
    /\ CukupId
    /\ UNCHANGED <<appVars, riwayat>>

MasukBaru(r) ==
    /\ Baru(r, SetelahMasuk(proses[r].var, proses[r].lokal))
    /\ UNCHANGED <<appVars, riwayat>>
-----------------------------------------------------------------------------
\* The gate of login/index.php.
TanpaLogin(r) ==
    /\ Berjalan(r) /\ proses[r].var.user = Tiada
    /\ Selesaikan(r, proses[r].var)

Diam(d) == d.user # Tiada /\ d.aktif # Tiada /\ jam - d.aktif > DiamMax

HabisDiam(r) ==
    /\ Berjalan(r) /\ Diam(proses[r].var)
    /\ MulaiHapus(r, Tiada, Tiada)
    /\ UNCHANGED <<appVars, riwayat>>

\* dt_user finds no account: user_hapus of SiAir may have deleted it.
AkunHilang(r) ==
    /\ Berjalan(r) /\ proses[r].var.user # Tiada /\ ~Diam(proses[r].var)
    /\ MulaiHapus(r, Tiada, Tiada)
    /\ UNCHANGED <<appVars, riwayat>>

\* Mutant: the page stores when the session will expire.
Tampil_Kedaluwarsa(r) ==
    /\ Berjalan(r) /\ proses[r].var.user # Tiada /\ ~Diam(proses[r].var)
    /\ \E k \in BOOLEAN :
         Selesaikan(r, [proses[r].var EXCEPT !.aktif = jam + DiamMax + 1, !.kilat = k])

\* The page; it leaves a message for the next one, or shows and unsets it.
Tampil(r) ==
    /\ Berjalan(r) /\ proses[r].var.user # Tiada /\ ~Diam(proses[r].var)
    /\ \E k \in BOOLEAN :
         Selesaikan(r, [proses[r].var EXCEPT !.aktif = jam, !.kilat = k])

\* ajax.php answers, or refuses, without touching $_SESSION.
Ajax(r) == Berjalan(r) /\ Selesaikan(r, proses[r].var)

Keluar(r) ==
    /\ Berjalan(r)
    /\ MulaiHapus(r, Tiada, Tiada)
    /\ UNCHANGED <<appVars, riwayat>>
-----------------------------------------------------------------------------
HapusSesi(r) ==
    /\ Hapus(r)
    /\ LET hilang == IF jalur' = jalur THEN {} ELSE {proses[r].id}
       IN  tanpaUser' = tanpaUser \cup hilang /\ janji' = janji \ hilang
    /\ UNCHANGED appVars

AksesSesi(r) == Akses(r) /\ UNCHANGED <<appVars, riwayat>>

\* The answer reaches the browser with its Set-Cookie (one that is lost is a
\* process that is killed before this step).
Jawab(r) ==
    /\ Kirim(r)
    /\ LET p == proses[r]
       IN  /\ kuki' = IF p.kuki THEN [kuki EXCEPT ![p.b] = p.id] ELSE kuki
           /\ janji' = IF p.kuki /\ p.var # Tiada /\ p.var.user # Tiada /\ jalur[p.id] = p.fd
                       THEN janji \cup {p.id} ELSE janji
    /\ UNCHANGED <<datang, percobaan, tanpaUser>>

Simpan(r) == (Potong(r) \/ Tulis(r)) /\ UNCHANGED <<appVars, riwayat>>

\* A process killed before the first write of a new session, or between
\* ftruncate and pwrite, leaves the session empty.
Terbunuh(r) ==
    /\ Mati(r)
    /\ janji' = IF proses[r].baca = Kosong \/ proses[r].pc = "potong"
                THEN janji \ {proses[r].id} ELSE janji
    /\ datang < MaxReq /\ datang' = datang + 1
    /\ UNCHANGED <<kuki, percobaan, tanpaUser>>

\* The attempts leave the window of 15 minutes.
Waktu ==
    /\ Detik
    /\ percobaan' = 0
    /\ berkas' = [n \in Ino |-> [berkas[n] EXCEPT !.gagal = 0]]
    /\ UNCHANGED <<kuki, datang, riwayat>>

Langkah(r) ==
    \/ MulaiSesi(r) \/ Kumpulkan(r)
    \/ Depan(r) \/ TokenDitolak(r) \/ HitungPercobaan(r)
    \/ Dibatasi(r) \/ DaftarWarga(r) \/ LoginGagal(r) \/ LoginBenar(r) \/ MasukBaru(r)
    \/ TanpaLogin(r) \/ HabisDiam(r) \/ AkunHilang(r) \/ Tampil(r) \/ Ajax(r) \/ Keluar(r)
    \/ HapusSesi(r) \/ AksesSesi(r) \/ Jawab(r) \/ Simpan(r)

Next ==
    \/ \E r \in Req : Kunjungan(r) \/ BacaSesi(r) \/ Langkah(r) \/ Terbunuh(r)
    \/ Waktu

Spec == Init /\ [][Next]_vars
-----------------------------------------------------------------------------
(***************************************************************************)
(* An id a visitor was served under, or whose session has ended, is never  *)
(* the id of a session with a user: index.php:117 changes the id at login. *)
(***************************************************************************)
LoginGantiId ==
    \A i \in tanpaUser : jalur[i] # Tiada => berkas[jalur[i]].isi.user = Tiada

(***************************************************************************)
(* The redirect after a login may be followed before the session is saved  *)
(* (main.c:1986 sends the output before 1998 saves).  The lock makes the   *)
(* next request wait: under an id the browser got from a login the user is *)
(* found, unless the session was destroyed or collected, or a process died *)
(* before its first write or between ftruncate and pwrite.                 *)
(***************************************************************************)
LoginTerlihat ==
    \A r \in Req : proses[r].id \in janji /\ proses[r].pc \in {"gc", "gcunlink", "aplikasi"}
                   => proses[r].baca.user # Tiada

\* At most one request is past the wait for the lock of an inode.
KunciTunggal == \A n \in Ino : Cardinality(Pemegang(n)) <= 1

\* One session cannot exceed the rate limit of index.php:22, because its
\* requests wait for each other between the COUNT and the INSERT.
BatasSatuSesi == \A n \in Ino : berkas[n].gagal <= Batas

\* Different sessions can, each by the request that was already past the COUNT.
BatasLewat == percobaan < Batas + Cardinality(Req)

\* PhpSession serialises the requests of a session: see SesiSerial.
Serial == INSTANCE SesiSerial WITH
    nama  <- jalur,
    isi   <- [n \in Ino |-> berkas[n].isi],
    ikut  <- [r \in Req |-> proses[r].fd],
    lihat <- [r \in Req |-> IF proses[r].pc \notin Memegang THEN Tiada
                            ELSE IF proses[r].pc = "potong" THEN Kosong ELSE
                            proses[r].baca]

\* What a request writes replaces exactly what it read (flock, mod_files.c:210).
SerialSpec == Serial!Spec

(***************************************************************************)
(* login/index.php:9 promises that only more than 30 idle minutes end a    *)
(* session: a login never makes one that the next page ends for idleness.  *)
(***************************************************************************)
MasukTakDiam == [][\A r \in Req : MasukBaru(r) => ~Diam(proses'[r].var)]_vars
=============================================================================
