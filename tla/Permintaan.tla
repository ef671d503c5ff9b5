----------------------------- MODULE Permintaan -----------------------------
(***************************************************************************)
(* Sessions and their requests to login/index.php.  A session shows a page *)
(* with a form (Buka...), posts it (Terima..., after the gate of           *)
(* login/index.php:2-36 and the guards of 255-281), and the handler then   *)
(* runs one SQL or file statement per step until it answers (Selesai).     *)
(* Statements autocommit, so the steps of different sessions interleave;   *)
(* the requests of one session do not, because session_start() holds the   *)
(* lock of the session file until the script ends.                         *)
(***************************************************************************)
EXTENDS BasisData

CONSTANTS
    TombolUji,   \* the buttons pressed in an instance
    MaxReq,      \* bound on the number of requests
    BolehGagal,  \* may a request die between two statements
    IsianBebas,  \* may a post carry other values than its form's locked fields
    SkripAir     \* does the browser run js/air.js of this commit

Tombol == {"user_add", "user_edit", "user_hapus",
           "tarif_add", "tarif_edit", "tarif_hapus",
           "meter_add", "meter_edit", "meter_hapus",
           "upload_bukti", "profil_edit", "register_warga"}

ASSUME AsumsiTombol ==
    TombolUji \subseteq Tombol /\ Tiada \notin Tombol /\ IsianBebas \in BOOLEAN

\* The roles each action is open to on the server.
Berhak(t) ==
    CASE t \in {"user_add", "user_edit", "user_hapus"}    -> {"admin"}
      [] t \in {"tarif_add", "tarif_edit", "tarif_hapus"} -> {"admin", "bendahara"}
      [] t \in {"meter_add", "meter_edit", "meter_hapus"} ->
             {"admin", "bendahara", "petugas"}
      [] OTHER -> Level

\* The roles whose pages offer the button.
Ditawarkan(t) == IF t = "meter_add" THEN {"admin", "petugas"} ELSE Berhak(t)

\* The buttons whose form loses its hidden csrf_token input in js/air.js: the
\* three delete dialogs remove every hidden input of the form, "+ User" blanks
\* every input of it.
BuangToken == {"user_add", "user_hapus", "tarif_hapus", "meter_hapus"}

\* Steps of a handler, named after what the next statement does.
Langkah == {"tipe", "kd", "harga", "cek_bulan", "sisip_meter", "cek_umur",
            "no_user", "ubah_meter", "hapus_meter",
            "cek_user", "sisip_user", "ubah_user", "hapus_anak", "hapus_user",
            "ubah_profil", "cek_daftar", "sisip_daftar",
            "cek_tarif", "sisip_tarif", "ubah_tarif", "hapus_tarif",
            "pindah_berkas", "ubah_bukti", "log"}

\* "siap": a page without a form; "form": a form is on the screen;
\* "keluar": the session was destroyed; otherwise a request is running.
Keadaan == {"siap", "form", "keluar"} \cup Langkah

\* What the browser holds: the button, the role the page was rendered for,
\* the fields the user cannot change, and whether the token is still there.
Form == [t : Tombol \cup {Tiada}, level : Level \cup {Tiada}, no : Nat,
         username : Username \cup {Tiada}, id : IdTarif \cup {0},
         awal : Nat, akhir : Nat, token : BOOLEAN]

\* The variables of the running script: awal, akhir and status as posted.  req
\* (its number) and mulai (the instant it was admitted) are history.
Rek == [req : Nat, mulai : Waktu, level : Level \cup {Tiada}, awal : Nat, akhir : Nat,
        status : StatusBayar, isi : Pengguna \cup {Tiada},
        tarif : Tarif \cup {Tiada}, pemilik : Username \cup {Tiada},
        tipe : Tipe \cup {Tiada}, kd : IdTarif \cup {0}, harga : Nat,
        bulan : Nat, bukti : NamaBukti \cup {Tiada}]

FormKosong == [t |-> Tiada, level |-> Tiada, no |-> 0, username |-> Tiada,
               id |-> 0, awal |-> 0, akhir |-> 0, token |-> FALSE]

RekKosong == [req |-> 0, mulai |-> 0, level |-> Tiada, awal |-> 0, akhir |-> 0,
              status |-> "KOSONG", isi |-> Tiada, tarif |-> Tiada,
              pemilik |-> Tiada, tipe |-> Tiada, kd |-> 0, harga |-> 0,
              bulan |-> 0, bukti |-> Tiada]

VARIABLES
    pc,     \* [Sesi -> Keadaan]
    form,   \* [Sesi -> Form]
    rek,    \* [Sesi -> Rek]
    nReq,   \* requests admitted so far
    jejak,  \* history: committed writes
    gagal   \* history: requests that died between two statements

vars == <<jam, login, tarif, hargaPernah, pemakaian, no_akhir, berkas, audit_log,
          pc, form, rek, nReq, jejak, gagal>>

\* A write, with the account its form is for, and an entry of the audit trail,
\* with id_target where that is the number of a row of pemakaian.
JejakTulis == [req : Nat, t : Tombol, tabel : {"login", "tarif", "pemakaian"},
               siapa : Username \cup {Tiada}]
EntriLog   == [req : Nat, aktor : Username, level : Level, aksi : Tombol, no : Nat]

Aktor(s)   == PemilikSesi[s]
Masuk      == {s \in Sesi : Aktor(s) # Tiada}
Berjalan(s) == pc[s] \in Langkah
T(s)       == form[s].t

-----------------------------------------------------------------------------
(* Steps shared by the handlers *)

Pindah(s, l) == pc' = [pc EXCEPT ![s] = l]

Lanjut(s, l) == Pindah(s, l) /\ UNCHANGED rek

\* The script answers and its variables are gone; the form can be posted
\* again (a second click).
Selesai(s) == Pindah(s, "form") /\ rek' = [rek EXCEPT ![s] = RekKosong]

\* Mutant: the handler logs whether or not a row changed.
Catat_Selalu(s, berubah) == Lanjut(s, "log")

\* mysqli_affected_rows() > 0, or not.
Catat(s, berubah) == IF berubah THEN Lanjut(s, "log") ELSE Selesai(s)

Tulis(s, tb) ==
    jejak' = jejak \cup {[req |-> rek[s].req, t |-> T(s), tabel |-> tb,
                           siapa |-> form[s].username]}

TulisBila(s, tb, berubah) ==
    IF berubah THEN Tulis(s, tb) ELSE UNCHANGED jejak

\* All that a step of a handler leaves alone besides the table it writes.
TetapSesi == UNCHANGED <<jam, form, nReq, gagal>>

CatatLog(s) ==
    /\ pc[s] = "log"
    /\ audit_log' = audit_log \cup
          {[req |-> rek[s].req, aktor |-> Aktor(s),
            level |-> rek[s].level, aksi |-> T(s), no |-> form[s].no]}
    /\ Selesai(s)
    /\ TetapSesi
    /\ UNCHANGED <<login, tabelTarif, pemakaian, no_akhir, berkas, jejak>>

\* A mysqli exception, a lost connection or a killed process.
Gagal(s) ==
    /\ BolehGagal
    /\ Berjalan(s)
    /\ gagal' = gagal \cup {rek[s].req}
    /\ Selesai(s)
    /\ UNCHANGED <<jam, basis, form, nReq, jejak>>

-----------------------------------------------------------------------------
(* Pages: GET requests that show a form *)

HalamanTerbuka(s) == pc[s] \in {"siap", "form"}

Pasang(s, f) ==
    /\ form' = [form EXCEPT ![s] = f]
    /\ Lanjut(s, "form")
    /\ UNCHANGED <<jam, basis, nReq, jejak, gagal>>

\* A page of a live account that offers t to its role.
BukaHalaman(s, t) ==
    /\ HalamanTerbuka(s)
    /\ t \in TombolUji
    /\ s \in Masuk
    /\ Aktor(s) \in DOMAIN login
    /\ login[Aktor(s)].level \in Ditawarkan(t)

FormDasar(s, t) ==
    [FormKosong EXCEPT !.t = t, !.level = login[Aktor(s)].level,
                       !.token = ~(SkripAir /\ t \in BuangToken)]

\* dt_user() finds no account: the session is destroyed.
Pental(s) ==
    /\ HalamanTerbuka(s)
    /\ s \in Masuk
    /\ Aktor(s) \notin DOMAIN login
    /\ form' = [form EXCEPT ![s] = FormKosong]
    /\ Lanjut(s, "keluar")
    /\ UNCHANGED <<jam, basis, nReq, jejak, gagal>>

-----------------------------------------------------------------------------
(* The POST gate *)

DiajukanOleh(s) ==
    /\ pc[s] = "form"
    /\ nReq < MaxReq
    /\ s \in Masuk
    /\ Aktor(s) \in DOMAIN login

\* The CSRF guard or the role guard refuses: an alert, then index.php.
Tolak(s) ==
    /\ DiajukanOleh(s)
    /\ \/ ~form[s].token
       \/ login[Aktor(s)].level \notin Berhak(T(s))
    /\ nReq' = nReq + 1
    /\ form' = [form EXCEPT ![s] = FormKosong]
    /\ Lanjut(s, "siap")
    /\ UNCHANGED <<jam, basis, jejak, gagal>>

\* The request r of s, with the fields its user filled in, starts at step l.
MulaiDengan(s, r, l) ==
    /\ nReq' = nReq + 1
    /\ rek' = [rek EXCEPT ![s] = r]
    /\ Pindah(s, l)
    /\ UNCHANGED <<jam, basis, form, jejak, gagal>>

RekBaru(s) == [RekKosong EXCEPT !.req = nReq + 1, !.mulai = jam,
                                !.level = login[Aktor(s)].level]

Diterima(s, t) ==
    /\ DiajukanOleh(s)
    /\ T(s) = t
    /\ form[s].token
    /\ login[Aktor(s)].level \in Berhak(t)

-----------------------------------------------------------------------------
\* Time passes; MaxJam bounds the clock of an instance.
Detak ==
    /\ jam < MaxJam
    /\ jam' = jam + 1
    /\ UNCHANGED <<basis, pc, form, rek, nReq, jejak, gagal>>

InitPermintaan ==
    /\ InitBasis
    /\ pc = [s \in Sesi |-> "siap"]
    /\ form = [s \in Sesi |-> FormKosong]
    /\ rek = [s \in Sesi |-> RekKosong]
    /\ nReq = 0
    /\ jejak = {}
    /\ gagal = {}
=============================================================================
