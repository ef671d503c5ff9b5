-------------------------------- MODULE Dasbor --------------------------------
(***************************************************************************)
(* The dashboard page of one session (src/js/air.js:165-286) and the       *)
(* requests it sends to src/assets/ajax.php, while other sessions run the  *)
(* handlers of SiAir against the same tables.  Choosing a month sends two  *)
(* requests, summary and semua_chart; the lock of the session (PhpSession) *)
(* lets one of them run at a time, in no given order, and the answers      *)
(* reach the page in no given order either.  The page shows what came      *)
(* last: an answer carries no month and no number, so it may show the      *)
(* boxes of a month that is selected no more.                              *)
(*                                                                         *)
(* All months of the instance are in the current year.  The list of months *)
(* has no empty choice (login/index.php:775), so the search for the last   *)
(* recorded month (ajax.php:32-39) is not reached.                         *)
(***************************************************************************)
EXTENDS SiAir, Laporan, SequencesExt

CONSTANTS
    Penonton,   \* accounts that may sit at the dashboard
    BulanPilih, \* the months of the list
    Jenis,      \* the requests a choice sends: "summary", "semua_chart" or both
    MaxPilih,   \* bound on the choices
    MaxMati     \* bound on the requests of the dashboard that die

VARIABLES
    akun,    \* the account of the dashboard's session
    pilih,   \* the month selected in the list
    ajax,    \* number -> request; two per choice
    tampak,  \* kind -> the request whose answer is shown, 0 for none
    usik     \* history: request -> rows written since it read its first column

dasborVars == <<akun, pilih, ajax, tampak, usik>>
semua == <<vars, dasborVars>>

\* The list of months has the month of today, a table has finitely many rows,
\* and NULL is no number.
ASSUME AsumsiDasbor ==
    /\ Jenis \subseteq {"summary", "semua_chart"}
    /\ MaxPilih \in Nat \ {0} /\ MaxMati \in Nat
    /\ Penonton \subseteq Username
    /\ BulanDari[TglPHP[0]] \in BulanPilih
    /\ IsFiniteSet(DOMAIN LoginAwal)
    /\ Tiada \notin Int

MaxAjax == Cardinality(Jenis) * MaxPilih

\* antre: sent, waiting for the session; jalan: its script runs; kirim: the
\* answer is under way; selesai: shown, or refused or dead (gagal).
StAjax == {"antre", "jalan", "kirim", "selesai", "gagal"}

\* hasil: what the statements of a summary have returned.
Ajax == [jenis : Jenis, bulan : BulanPilih, st : StAjax, level : Level \cup {Tiada},
         hasil : [Kolom -> Int \cup {Tiada}]]

Kosongan == [k \in Kolom |-> Tiada]

\* The requests a choice of b sends.
Kiriman(b) ==
    LET j == SetToSeq(Jenis)
    IN  [i \in DOMAIN j |->
            [jenis |-> j[i], bulan |-> b, st |-> "antre", level |-> Tiada, hasil |-> Kosongan]]

\* Types, and what the gate of ajax.php:8-26 gives: nothing is read for an
\* account that is not there.
TipeDasbor ==
    /\ TypeOK
    /\ akun \in Penonton /\ pilih \in BulanPilih
    /\ Len(ajax) <= MaxAjax /\ ajax \in [1..Len(ajax) -> Ajax]
    /\ \A q \in DOMAIN ajax : ajax[q].st \in {"jalan", "kirim"} => ajax[q].level \in Level
    /\ tampak \in [Jenis -> 0..Len(ajax)]
    /\ usik \in [DOMAIN ajax -> Nat]

\* The page is ready, with the month of the server's clock selected: .change()
\* sends the first requests.
InitDasbor ==
    /\ Init
    /\ akun \in Penonton /\ pilih = BulanDari[TglPHP[jam]]
    /\ ajax = Kiriman(pilih)
    /\ tampak = [j \in Jenis |-> 0]
    /\ usik = [q \in DOMAIN ajax |-> 0]
-----------------------------------------------------------------------------
Terbuka(q) == ajax[q].st \in {"antre", "jalan", "kirim"}

PilihBulan ==
    /\ Len(ajax) < MaxAjax
    /\ \E b \in BulanPilih \ {pilih} :
         /\ pilih' = b
         /\ ajax' = ajax \o Kiriman(b)
    /\ usik' = [q \in DOMAIN ajax' |-> IF q \in DOMAIN ajax THEN usik[q] ELSE 0]
    /\ UNCHANGED <<vars, akun, tampak>>

\* Mutant: a request queues for the session before it looks whether it is free.
AjaxMasuk_Antre(q) ==
    /\ ajax[q].st = "antre"
    /\ \A x \in DOMAIN ajax \ {q} : ajax[x].st \notin {"antre", "jalan"}
    /\ ajax' = IF akun \in DOMAIN login
               THEN [ajax EXCEPT ![q].st = "jalan", ![q].level = login[akun].level]
               ELSE [ajax EXCEPT ![q].st = "gagal"]
    /\ UNCHANGED <<vars, akun, pilih, tampak, usik>>

\* Mutant: without the gate, an account that is gone has no role and falls through.
AjaxMasuk_TanpaGerbang(q) ==
    /\ ajax[q].st = "antre"
    /\ \A x \in DOMAIN ajax : ajax[x].st # "jalan"
    /\ ajax' = [ajax EXCEPT ![q].st = "jalan",
                            ![q].level = IF akun \in DOMAIN login THEN login[akun].level ELSE Tiada]
    /\ UNCHANGED <<vars, akun, pilih, tampak, usik>>

\* session_start() returns for one request of the session, whose gate looks
\* the account up: without one the answer is 401, and the page logs it.
AjaxMasuk(q) ==
    /\ ajax[q].st = "antre"
    /\ \A x \in DOMAIN ajax : ajax[x].st # "jalan"
    /\ ajax' = IF akun \in DOMAIN login
               THEN [ajax EXCEPT ![q].st = "jalan", ![q].level = login[akun].level]
               ELSE [ajax EXCEPT ![q].st = "gagal"]
    /\ UNCHANGED <<vars, akun, pilih, tampak, usik>>

\* The statements of a request.  Those of the charts read the whole year, for
\* any month; what they return is left out.
Urutan(q) == IF ajax[q].jenis = "summary" THEN Perintah(ajax[q].level) ELSE <<>>
Terbaca(q) == Cardinality({k \in Kolom : ajax[q].hasil[k] # Tiada})

\* The next statement.
AjaxBaca(q) ==
    /\ ajax[q].st = "jalan" /\ Terbaca(q) < Len(Urutan(q))
    /\ LET k == Urutan(q)[Terbaca(q) + 1]
       IN  \E v \in IF k = "milik" THEN Milik(akun, ajax[q].bulan)
                    ELSE {Nilai(k, ajax[q].bulan)} :
             ajax' = [ajax EXCEPT ![q].hasil[k] = v]
    /\ UNCHANGED <<vars, akun, pilih, tampak, usik>>

\* echo json_encode: the session is free for the next request.
AjaxJawab(q) ==
    /\ ajax[q].st = "jalan" /\ Terbaca(q) = Len(Urutan(q))
    /\ ajax' = [ajax EXCEPT ![q].st = "kirim"]
    /\ UNCHANGED <<vars, akun, pilih, tampak, usik>>

\* .done: the page shows the answer, also one that was overtaken.
AjaxTiba(q) ==
    /\ ajax[q].st = "kirim"
    /\ ajax' = [ajax EXCEPT ![q].st = "selesai"]
    /\ tampak' = [tampak EXCEPT ![ajax[q].jenis] = q]
    /\ UNCHANGED <<vars, akun, pilih, usik>>

\* The script, or the connection, dies; the kernel gives the lock back.
AjaxMati(q) ==
    /\ Terbuka(q) /\ Cardinality({x \in DOMAIN ajax : ajax[x].st = "gagal"}) < MaxMati
    /\ ajax' = [ajax EXCEPT ![q].st = "gagal", ![q].hasil = Kosongan]
    /\ usik' = [usik EXCEPT ![q] = 0]
    /\ UNCHANGED <<vars, akun, pilih, tampak>>

\* The rows of a table that a step writes.
Ditulis(f, g) == {k \in DOMAIN f \cup DOMAIN g :
                    k \notin DOMAIN f \cap DOMAIN g \/ f[k] # g[k]}

\* A step of another session; a request that has read something notes it, also
\* when its answer is on the page.
SesiLain ==
    /\ Next
    /\ LET tulis == Cardinality(Ditulis(login, login')) +
                    Cardinality(Ditulis(pemakaian, pemakaian'))
       IN  usik' = [q \in DOMAIN ajax |->
                      IF Terbaca(q) > 0 THEN usik[q] + tulis ELSE usik[q]]
    /\ UNCHANGED <<akun, pilih, ajax, tampak>>

AjaxJalan(q) == AjaxMasuk(q) \/ AjaxBaca(q) \/ AjaxJawab(q) \/ AjaxTiba(q)

NextDasbor ==
    \/ SesiLain \/ PilihBulan
    \/ \E q \in DOMAIN ajax : AjaxJalan(q) \/ AjaxMati(q)

SpecDasbor == InitDasbor /\ [][NextDasbor]_semua

\* The server runs the scripts it has started and serves those that wait, and
\* the network delivers the answers.
SpecDasborAdil ==
    SpecDasbor /\ \A q \in 1..MaxAjax : WF_semua(q \in DOMAIN ajax /\ AjaxJalan(q))
-----------------------------------------------------------------------------
Selisih(x, y) == IF x >= y THEN x - y ELSE y - x

\* A summary for a role in lv is under way to the page or shown on it.
Utuh(q, lv) ==
    /\ ajax[q].jenis = "summary" /\ ajax[q].level \in lv
    /\ ajax[q].st = "kirim" \/ tampak["summary"] = q

(***************************************************************************)
(* The boxes "Sudah Lunas" and "Belum Bayar" come from two SELECTs         *)
(* (ajax.php:82, 88): together they miss or double no more rows than were  *)
(* written since the summary was read, and, for the rows that do have a    *)
(* status, none when nothing was written.  That is so until another answer *)
(* is shown, and it is so of the month that was asked for, which need not  *)
(* be the one selected.                                                    *)
(***************************************************************************)
RobekTerbatas ==
    \A q \in DOMAIN ajax : Utuh(q, {"bendahara"}) =>
        LET b == ajax[q].bulan IN
        Selisih(ajax[q].hasil["lunas"] + ajax[q].hasil["belum"],
                Cardinality(BarisBulan(b) \ Berstatus(b, "KOSONG"))) <= usik[q]

\* The customers without a row in a month, and the rows that are one too many:
\* those of no customer, and those of a customer who has an earlier one.
BelumAda(b) == {u \in Warga : BarisBulan(b) \cap BarisUser(u) = {}}
Lebih(b) ==
    {n \in BarisBulan(b) :
        \/ pemakaian[n].username \notin Warga
        \/ \E m \in BarisBulan(b) :
               m < n /\ pemakaian[m].username = pemakaian[n].username}

(***************************************************************************)
(* "Belum Dicatat" is a difference of two counts (ajax.php:66), of         *)
(* customers and of rows.  It is the number of customers without a row     *)
(* less one for every row too many, but for what was written since: each   *)
(* double and each orphan hides one customer whose meter is to be read,    *)
(* and nothing else does.                                                  *)
(***************************************************************************)
BelumDicatat ==
    \A q \in DOMAIN ajax : Utuh(q, {"admin", "petugas"}) =>
        LET b == ajax[q].bulan IN
        Selisih(ajax[q].hasil["pelanggan"] - ajax[q].hasil["tercatat"],
                Cardinality(BelumAda(b)) - Cardinality(Lebih(b))) <= usik[q]

\* Every request of the dashboard is answered or fails, though the requests of
\* a session wait for each other, and whatever the other sessions do.
AjaxDijawab ==
    \A q \in 1..MaxAjax :
        (q \in DOMAIN ajax /\ ajax[q].st = "antre") ~>
        (q \in DOMAIN ajax /\ ajax[q].st \in {"selesai", "gagal"})
=============================================================================
