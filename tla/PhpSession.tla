----------------------------- MODULE PhpSession -----------------------------
(***************************************************************************)
(* The session extension of the vendored PHP 8.5.8 with its save handler   *)
(* "files" (php.ini-production:1275), on which every request of Si-Air     *)
(* runs: src/php-8.5.8-src/ext/session/session.c and mod_files.c.  A       *)
(* session id names a file; a request opens the file, takes flock on its   *)
(* inode, reads it, may collect old files, runs the script and writes the  *)
(* data back when the answer is already out.  The lock belongs to the      *)
(* inode and not to the name: a file may be unlinked while requests wait   *)
(* for its lock, and the same id may then lead to another inode.           *)
(*                                                                         *)
(* Configuration: use_strict_mode 0, lazy_write 1, use_only_cookies 1,     *)
(* use_trans_sid 0, as php.ini-production sets them or leaves them.  Not   *)
(* modelled: session.save_path levels, other save handlers, read errors.   *)
(***************************************************************************)
EXTENDS Integers, FiniteSets

CONSTANTS
    Req,       \* PHP processes, each serving one request at a time
    MaxId,     \* bound on the number of session ids ever created
    Isi,       \* the contents a session file may have
    Kosong,    \* the content of an empty file, the encoding of an empty $_SESSION
    Ukuran,    \* Isi -> Nat, the length of a content
    GcMax,     \* session.gc_maxlifetime, in ticks
    MaxJam,    \* bound on the clock
    Peramban,  \* browsers
    Lokal,     \* the values of the scripts' local variables
    Tiada      \* no value

VARIABLES
    jam,     \* the clock
    jalur,   \* id -> the inode its file name leads to
    berkas,  \* inode -> content, mtime, and the failed logins under it
    idBaru,  \* the number of ids created so far
    proses   \* process -> the request it serves

sesiVars == <<jam, jalur, berkas, idBaru, proses>>

Id == 1..MaxId
Ino == 1..(MaxId + Cardinality(Req))
Jam == 0..MaxJam

ASSUME AsumsiSesi ==
    /\ IsFiniteSet(Req) /\ MaxId \in Nat /\ MaxJam \in Nat /\ GcMax \in Nat
    /\ Kosong \in Isi /\ Ukuran \in [Isi -> Nat] /\ Ukuran[Kosong] = 0
    /\ Tiada \notin Isi \cup Int \cup Peramban \cup Lokal \cup {"baru"}

Mungkin(S) == S \cup {Tiada}

(***************************************************************************)
(* A request.  var is $_SESSION (Tiada when no session is active), baca    *)
(* what s_read returned, malas whether PS(session_vars) holds a copy of it *)
(* for the lazy write, kuki whether a Set-Cookie is among the headers,     *)
(* kini the clock when its garbage collection began.                       *)
(***************************************************************************)
\* Mutant: session_write_close() before the password is checked.
Memegang_TanpaPeriksa == {"gc", "gcunlink", "aplikasi", "kirim", "tulis", "potong"}

\* Where a request holds the lock of its file.
Memegang == {"gc", "gcunlink", "aplikasi", "periksa", "kirim", "tulis", "potong"}
Pc == Memegang \cup {"luar", "buka", "kunci", "hapus", "akses", "baru"}

Proses ==
    [pc : Pc, b : Mungkin(Peramban), id : Mungkin(Id),
     fd : Mungkin(Ino), var : Mungkin(Isi), baca : Mungkin(Isi), malas : BOOLEAN,
     kuki : BOOLEAN, kini : Jam, sasaran : Mungkin(Id), lanjut : Mungkin({"baru"}),
     lokal : Mungkin(Lokal)]

Luar ==
    [pc |-> "luar", b |-> Tiada, id |-> Tiada, fd |-> Tiada,
     var |-> Tiada, baca |-> Tiada, malas |-> FALSE, kuki |-> FALSE, kini |-> 0,
     sasaran |-> Tiada, lanjut |-> Tiada, lokal |-> Tiada]

Berkas == [isi : Isi, mtime : Jam, gagal : Nat]
BerkasBaru == [isi |-> Kosong, mtime |-> jam, gagal |-> 0]
BerkasLepas == [isi |-> Kosong, mtime |-> 0, gagal |-> 0]

TipeSesiPhp ==
    /\ jam \in Jam /\ idBaru \in 0..MaxId
    /\ jalur \in [Id -> Mungkin(Ino)]
    /\ berkas \in [Ino -> Berkas]
    /\ proses \in [Req -> Proses]

InitSesi ==
    /\ jam = 0 /\ idBaru = 0
    /\ jalur = [i \in Id |-> Tiada]
    /\ berkas = [n \in Ino |-> BerkasLepas]
    /\ proses = [r \in Req |-> Luar]
-----------------------------------------------------------------------------
\* The inodes a name or an open file still refers to; the kernel frees the rest.
Acuan(j, p) == {j[i] : i \in Id} \cup {p[r].fd : r \in Req}
InodeBebas ==
    LET bebas == Ino \ Acuan(jalur, proses)
    IN  IF bebas = {} THEN {} ELSE {CHOOSE n \in bebas : TRUE}
Bersihkan(b, j, p) == [n \in Ino |-> IF n \in Acuan(j, p) THEN b[n] ELSE BerkasLepas]

\* flock(LOCK_EX): who has the file open and is past the wait holds the lock.
Pemegang(n) == {r \in Req : proses[r].fd = n /\ proses[r].pc \in Memegang}

Usang(i, kini) == jalur[i] # Tiada /\ kini - berkas[jalur[i]].mtime > GcMax

\* A request arrives with the cookie of the browser, if it has one.  Nothing
\* depends on its script before the session is read.
Datang(r, b, cookie) ==
    /\ proses[r].pc = "luar"
    /\ proses' = [proses EXCEPT ![r] = [Luar EXCEPT !.pc = "buka", !.b = b, !.id = cookie]]
    /\ UNCHANGED <<jam, jalur, berkas, idBaru>>

(***************************************************************************)
(* session_start(): without a cookie a new id, then open(O_CREAT) of its   *)
(* file.  An id whose file is gone is adopted, use_strict_mode being off.  *)
(***************************************************************************)
Buka(r) ==
    /\ proses[r].pc = "buka"
    /\ LET i == IF proses[r].id = Tiada THEN idBaru + 1 ELSE proses[r].id
       IN  /\ i \in Id
           /\ idBaru' = IF proses[r].id = Tiada THEN i ELSE idBaru
           /\ \E n \in IF jalur[i] = Tiada THEN InodeBebas ELSE {jalur[i]} :
                 /\ jalur' = [jalur EXCEPT ![i] = n]
                 /\ berkas' = IF jalur[i] = Tiada THEN [berkas EXCEPT ![n] = BerkasBaru]
                              ELSE berkas
                 /\ proses' = [proses EXCEPT ![r].pc = "kunci", ![r].id = i, ![r].fd = n,
                                             ![r].kuki = (proses[r].id = Tiada)]
    /\ UNCHANGED jam

\* Mutant: the file is read without waiting for its lock.
Kunci_TanpaTunggu(r) ==
    /\ proses[r].pc = "kunci"
    /\ LET d == berkas[proses[r].fd].isi
       IN  \E pc \in {"gc", "aplikasi"} :
             /\ pc = "gc" => \E i \in Id : Usang(i, jam)
             /\ proses' = [proses EXCEPT ![r].pc = pc, ![r].var = d, ![r].baca = d,
                                         ![r].malas = TRUE,
                                         ![r].kini = IF pc = "gc" THEN jam ELSE 0]
    /\ UNCHANGED <<jam, jalur, berkas, idBaru>>

(***************************************************************************)
(* flock returns, the file is read into $_SESSION and, by chance           *)
(* (gc_probability), the garbage collection begins; one that finds nothing *)
(* old is no step.                                                         *)
(***************************************************************************)
Kunci(r) ==
    /\ proses[r].pc = "kunci"
    /\ Pemegang(proses[r].fd) = {}
    /\ LET d == berkas[proses[r].fd].isi
       IN  \E pc \in {"gc", "aplikasi"} :
             /\ pc = "gc" => \E i \in Id : Usang(i, jam)
             /\ proses' = [proses EXCEPT ![r].pc = pc, ![r].var = d, ![r].baca = d,
                                         ![r].malas = TRUE,
                                         ![r].kini = IF pc = "gc" THEN jam ELSE 0]
    /\ UNCHANGED <<jam, jalur, berkas, idBaru>>

\* ps_files_cleanup_dir: stat, compare, and unlink in a step of its own.
GcStat(r) ==
    /\ proses[r].pc = "gc"
    /\ \E i \in Id : /\ Usang(i, proses[r].kini)
                     /\ proses' = [proses EXCEPT ![r].pc = "gcunlink", ![r].sasaran = i]
    /\ UNCHANGED <<jam, jalur, berkas, idBaru>>

GcUnlink(r) ==
    /\ proses[r].pc = "gcunlink"
    /\ jalur' = [jalur EXCEPT ![proses[r].sasaran] = Tiada]
    /\ proses' = [proses EXCEPT ![r].pc = "gc", ![r].sasaran = Tiada]
    /\ berkas' = Bersihkan(berkas, jalur', proses')
    /\ UNCHANGED <<jam, idBaru>>

GcSelesai(r) ==
    /\ proses[r].pc = "gc"
    /\ \A i \in Id : ~Usang(i, proses[r].kini)
    /\ proses' = [proses EXCEPT ![r].pc = "aplikasi", ![r].kini = 0]
    /\ UNCHANGED <<jam, jalur, berkas, idBaru>>
-----------------------------------------------------------------------------
\* The script ran with $_SESSION = d; its output is sent next.
Jalankan(r, d) ==
    /\ proses' = [proses EXCEPT ![r].pc = "kirim", ![r].var = d,
                                ![r].lokal = Tiada]
    /\ UNCHANGED <<jam, jalur, idBaru>>

(***************************************************************************)
(* session_destroy() and session_regenerate_id(true) call                  *)
(* ps_files_destroy, which closes the file, and so gives up the lock,      *)
(* before it unlinks the name.                                             *)
(***************************************************************************)
MulaiHapus(r, lanjut, lokal) ==
    /\ proses' = [proses EXCEPT ![r].pc = "hapus", ![r].fd = Tiada, ![r].baca = Tiada,
                                ![r].malas = FALSE, ![r].lanjut = lanjut,
                                ![r].lokal = lokal]
    /\ berkas' = Bersihkan(berkas, jalur, proses')
    /\ UNCHANGED <<jam, jalur, idBaru>>

SetelahHapus(r, p) ==
    IF p[r].lanjut = "baru" THEN [p EXCEPT ![r].pc = "baru"]
    ELSE [p EXCEPT ![r].pc = "kirim", ![r].var = Tiada, ![r].lokal = Tiada]

Hapus(r) ==
    /\ proses[r].pc = "hapus"
    /\ IF jalur[proses[r].id] = Tiada
       THEN /\ proses' = [proses EXCEPT ![r].pc = "akses"]
            /\ UNCHANGED <<jalur, berkas>>
       ELSE /\ jalur' = [jalur EXCEPT ![proses[r].id] = Tiada]
            /\ proses' = SetelahHapus(r, proses)
            /\ berkas' = Bersihkan(berkas, jalur', proses')
    /\ UNCHANGED <<jam, idBaru>>

\* The unlink found no file.  If access finds one now, the destruction has
\* failed: the session is given up without being saved.
Akses(r) ==
    /\ proses[r].pc = "akses"
    /\ proses' = IF jalur[proses[r].id] = Tiada THEN SetelahHapus(r, proses)
                 ELSE SetelahHapus(r, [proses EXCEPT ![r].lanjut = Tiada])
    /\ UNCHANGED <<jam, jalur, berkas, idBaru>>

\* The rest of session_regenerate_id: a new id with an empty file, locked and
\* read; $_SESSION keeps its content, which the script then makes d.
Baru(r, d) ==
    /\ proses[r].pc = "baru"
    /\ idBaru + 1 \in Id
    /\ idBaru' = idBaru + 1
    /\ \E n \in InodeBebas :
           /\ jalur' = [jalur EXCEPT ![idBaru + 1] = n]
           /\ berkas' = [berkas EXCEPT ![n] = BerkasBaru]
           /\ proses' = [proses EXCEPT ![r].pc = "kirim", ![r].id = idBaru + 1, ![r].fd = n,
                                       ![r].var = d, ![r].baca = Kosong, ![r].malas = FALSE,
                                       ![r].kuki = TRUE, ![r].lanjut = Tiada,
                                       ![r].lokal = Tiada]
    /\ UNCHANGED jam

\* php_request_shutdown sends the output before the extensions shut down.
Kirim(r) ==
    /\ proses[r].pc = "kirim"
    /\ proses' = [proses EXCEPT ![r] = IF proses[r].var = Tiada THEN Luar
                                       ELSE [proses[r] EXCEPT !.pc = "tulis", !.kuki = FALSE]]
    /\ UNCHANGED <<jam, jalur, berkas, idBaru>>
-----------------------------------------------------------------------------
\* The data is what was read: only the time stamp of the name's file is set.
Malas(r) ==
    /\ proses[r].malas /\ proses[r].var = proses[r].baca /\ proses[r].var # Kosong
    /\ jalur[proses[r].id] # Tiada

PerluPotong(r) == Ukuran[proses[r].var] < Ukuran[proses[r].baca]

\* pwrite of no byte leaves mtime; a truncated file has it set already.
Ditulis(b, n, d) == IF d = Kosong THEN b ELSE [b EXCEPT ![n].isi = d, ![n].mtime = jam]

(***************************************************************************)
(* php_session_flush at the end of the request: update_timestamp, or       *)
(* ftruncate when the data became shorter and then pwrite, into the inode  *)
(* that was opened; close gives up the lock.                               *)
(***************************************************************************)
Potong(r) ==
    /\ proses[r].pc = "tulis" /\ ~Malas(r) /\ PerluPotong(r)
    /\ proses' = [proses EXCEPT ![r].pc = "potong"]
    /\ berkas' = [berkas EXCEPT ![proses[r].fd].isi = Kosong, ![proses[r].fd].mtime = jam]
    /\ UNCHANGED <<jam, jalur, idBaru>>

\* Mutant: the file is opened anew by its name before it is written.
Tulis_BukaLagi(r) ==
    /\ \/ proses[r].pc = "tulis" /\ (Malas(r) \/ ~PerluPotong(r))
       \/ proses[r].pc = "potong"
    /\ jalur[proses[r].id] # Tiada
    /\ proses' = [proses EXCEPT ![r] = Luar]
    /\ LET b == Ditulis(berkas, jalur[proses[r].id], proses[r].var)
       IN  berkas' = Bersihkan(b, jalur, proses')
    /\ UNCHANGED <<jam, jalur, idBaru>>

Tulis(r) ==
    /\ \/ proses[r].pc = "tulis" /\ (Malas(r) \/ ~PerluPotong(r))
       \/ proses[r].pc = "potong"
    /\ proses' = [proses EXCEPT ![r] = Luar]
    /\ LET b == IF proses[r].pc = "tulis" /\ Malas(r)
                THEN [berkas EXCEPT ![jalur[proses[r].id]].mtime = jam]
                ELSE Ditulis(berkas, proses[r].fd, proses[r].var)
       IN  berkas' = Bersihkan(b, jalur, proses')
    /\ UNCHANGED <<jam, jalur, idBaru>>

\* The process is killed: nothing is written, the kernel closes its file.
\* Before it opened one this is as if the request had never come.
Mati(r) ==
    /\ proses[r].pc \notin {"luar", "buka"}
    /\ proses' = [proses EXCEPT ![r] = Luar]
    /\ berkas' = Bersihkan(berkas, jalur, proses')
    /\ UNCHANGED <<jam, jalur, idBaru>>

Detik ==
    /\ jam < MaxJam
    /\ jam' = jam + 1
    /\ UNCHANGED <<jalur, idBaru, proses>>
=============================================================================
