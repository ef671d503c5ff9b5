# Si-Air: a TLA+ model and proofs

Si-Air is a PHP/MySQL application that records the water meters of a
neighbourhood and bills the customers. Four roles use it: `admin` (accounts and
everything else), `bendahara` (treasurer: tariffs, payment status), `petugas`
(meter reader) and `warga` (customer: own bills, proof of payment).

This directory holds a TLA+ model of the parts of Si-Air that keep or change
state (the write handlers, the gate with its sessions, the dashboard), the TLC
configurations that check it on small instances, and proofs that TLAPS
checks for every value of the constants. Line numbers below refer to the files
under `src/`.

## 1. Inventory

| Part | Source | State | Operations |
|---|---|---|---|
| Tables and look-ups (`kelas_air`) | `assets/func.php` | tables `login`, `tarif`, `pemakaian`, `audit_log`; no schema in the repository | `dt_user`, `user_to_idtarif`, `tipe_to_kdtarif`, `id_tarif_to_tarif`, `no_to_user`, `catat_log` |
| Page gate | `login/index.php` 2-36 | `$_SESSION` (`user`, `last_activity`, `csrf_token`) | idle timeout, session of a deleted account, token |
| Write handlers | `login/index.php` 253-670 | the tables, `assets/img/bukti` | `user_add/edit/hapus`, `tarif_add/edit/hapus`, `meter_add/edit/hapus`, `upload_bukti`, `profil_edit` |
| Pages and forms | `login/index.php` 676-1722 | none | what a form holds and who is offered it |
| Browser script | `js/air.js` | the open form; the chart and the four cards | button handlers, delete dialogs, AJAX |
| Dashboard queries | `assets/ajax.php` | none (reads) | aggregates per month |
| Login and registration | `index.php` | `login_attempts`, `$_SESSION` | `login`, rate limit, `register_warga` |
| Logout | `login/logout.php` | `$_SESSION` | destroys the session |
| Session extension | `php-8.5.8-src/ext/session/` (`session.c`, `mod_files.c`) | session files with their locks and time stamps | open, lock, read, collect, destroy, regenerate, write |
| Interpreter | the rest of `php-8.5.8-src/` | | third-party, kept unchanged |

How they interact. A browser loads a page (GET), the page prints a form from the
tables as they are at that moment, the user posts it (POST) some time later,
and the handler runs a sequence of autocommitted SQL statements. There is no
transaction, no version column and no lock on a row anywhere in the code; the
only mutual exclusion is the lock PHP holds on the session file from
`session_start()` to the end of the script. So the requests of one session are
serial, and those of different sessions interleave statement by statement.

Behaviours that are hard:

* **Check, then act.** `meter_add` looks for a row of the month (472) and inserts
  in another statement (484); `user_add`, `tarif_add`, `register_warga` look for the
  key first; the 30-day lock is tested (501) before the UPDATE (535) or DELETE (622).
* **Stale forms.** `meter_edit` writes *every* column from a form that was
  rendered earlier, with the hidden or read-only fields of the role it was
  rendered for.
* **Several statements for one decision.** A bill is computed from an account, a
  tariff code and a price read by three SELECTs.
* **Two stores.** `upload_bukti` moves a file and then updates a row.
* **Crashes.** mysqli throws on an error; a request may die between its write
  and `catat_log`, which then misses the write.
* **Clocks.** `date('m')` of PHP (Asia/Jakarta, line 3) guards a row whose day is
  `CURRENT_DATE()` of MySQL, midnight and the end of a month lie between.
* **Answers out of order** (dashboard AJAX), and several SELECTs behind one page of
  boxes while others write.
* **A lock on an inode, not on a name.** A session file can be unlinked (logout, login,
  garbage collection) while other requests wait for its lock, and the same id then
  leads to a new file.
* **Timeouts** (30 minutes idle, 1440 s until a session file may be collected) and a
  **rate limit** that is read before and written after the password is checked.

What makes each part correct: the ledger has consistent rows, one per customer
and month, that belong to an account, with bills from real prices; readings,
owner and day of a row are changed only by those who may; a proof on a row is a
file uploaded for that row; the trail holds what was done and nothing else; roles
are changed by an admin only; a running request ends. A session is read and
replaced as a whole by one request at a time; an id a visitor has used never
becomes one with a user; a login is seen by the next request; the rate limit is
exceeded by no more than the requests that run at once. The dashboard shows
numbers that fit the ledger, and each of its requests is answered.

## 2. Modules

| Module | Models |
|---|---|
| `BasisData` | the tables, the proof directory, the clock, the look-ups of `kelas_air` |
| `Permintaan` | sessions, pages, the gate and the guards of a POST, the steps every handler shares (`CatatLog`, answers, a request that dies), passing time |
| `MeterHandler` | `meter_add`, `meter_edit`, `meter_hapus` and their forms |
| `UserHandler` | `user_add`, `user_edit`, `user_hapus`, `profil_edit`, `register_warga` and their forms |
| `TarifHandler` | `tarif_add`, `tarif_edit`, `tarif_hapus` and their forms |
| `BuktiHandler` | `upload_bukti` and its form |
| `SiAir` | the composition: `Next`, `Spec`, `SpecAdil`, all properties, and the mapping to `BukuMeter` |
| `BukuMeter` | the abstract ledger: record, correct, note a proof, delete, each one step on whole rows |
| `MCSiAir` | constants for TLC; the runs `SiAir_<run>.cfg` |
| `PhpSession` | the session extension on the save handler `files`: what `session_start()`, `session_destroy()`, `session_regenerate_id(true)` and the end of a request do to the files |
| `GerbangLogin` | login page, page gate, AJAX gate and logout on top of it, with browsers, the rate limit, killed processes and a clock |
| `SesiSerial` | the abstract session store: a request reads a session and later replaces exactly what it read |
| `MCGerbang` | constants for TLC; the runs `Gerbang_<run>.cfg` |
| `Laporan` | the SELECTs behind the boxes of the dashboard |
| `Dasbor` | the dashboard page and its requests, composed with `SiAir` |
| `MCDasbor` | constants for TLC; the run `Dasbor_dasbor.cfg` |
| `SiAirProofs` | types and control of every handler, proved |
| `BukuProofs` | one row per customer, month and recording session, proved; what a step may do to a session's form and script |
| `CatatanProofs` | the rows, the accounts and the audit trail: readings, bills, proofs, locks, roles, entries, proved; the handlers implement `BukuMeter` |
| `GerbangProofs` | types of the session files and the gate, the lock and the rate limit, proved |
| `IdentitasProofs` | a login gets an id no visitor has used, proved |
| `SerialProofs` | the session files implement `SesiSerial`, proved |
| `JanjiProofs` | a login the browser has been told of is seen by its next request, proved |
| `DasborProofs` | how far the boxes of the dashboard may be from the tables, proved |

### State and steps

| Variable | In the program |
|---|---|
| `login`, `tarif`, `pemakaian`, `audit_log` | the tables; columns nobody reads back are one value (`data`) |
| `no_akhir` | AUTO_INCREMENT of `pemakaian` |
| `berkas` | names of the files in `assets/img/bukti` |
| `jam` | the instant; `TglPHP`, `TglDB` and `BulanDari` say which day and month it is for PHP and for MySQL |
| `form[s]` | the form on the screen of session `s`: button, role it was rendered for, the hidden and read-only fields it was printed with, whether the token is still in it |
| `pc[s]`, `rek[s]` | the next statement of the running script and its PHP variables (`awal`, `akhir`, `status` as posted) |
| `nReq` | number of requests; bounds an instance |
| `hargaPernah`, `jejak`, `gagal`, the column `oleh`, `rek.req`, `rek.mulai` | history, read by properties only |

* `Buka...(s)` is a GET: one step that prints the form from the current tables.
  A page runs several SELECTs; they are one step, because what matters
  for a write is that the form is older than the POST, and it may be as old as one likes.
* `Terima...(s)` is a POST that passes the gate (20-36) and the guards (256-276);
  the user's fields are chosen from `MeterUji`, `HargaUji`, `Pengguna`. `Tolak(s)` is
  the refusal, `Pental(s)` the session of a deleted account.
* `IsianBebas`. The server takes `meter_awal`, `meter_akhir` and `status_bayar` from the POST (459-460, 519,
  528) whatever the page printed; that they are read-only or hidden for some roles is up to the browser. With
  `IsianBebas = TRUE` they are any values, with FALSE what the page allows (`AwalIsian`, `AkhirIsian`,
  `StatusIsian`). The runs `bukti` and `tarif` have TRUE; `meter` and `dasbor` have FALSE for
  the number of states, and so have the runs that show a disagreement, which are about the pages as
  printed. The theorems are for both. Row numbers and user names in hidden fields are those
  a page printed.
* every other step is one statement: a SELECT with what is computed
  from it, an INSERT, UPDATE or DELETE with the branch on `mysqli_affected_rows`,
  a move of a file, or `catat_log`. `Selesai` answers; the form stays in the
  browser and can be posted again (a second click, a retry).
* `Gagal(s)` kills a request between two statements (a mysqli exception, a lost
  connection, a killed process). `KunciGanda` and `IdGanda` are the duplicate key of an
  INSERT whose check was overtaken.
* `Detak` lets time pass; `Tenang` lets a system rest in which no request runs, so
  TLC's deadlock check (on in every run) finds scripts that are stuck and nothing else.

### Sessions (`PhpSession`, `GerbangLogin`, `SesiSerial`)

| Variable | In the program |
|---|---|
| `jam` | `time()`, in ticks longer than the 15 minutes of the rate limit; `GcMax` and `DiamMax` are `gc_maxlifetime` and the idle limit in ticks |
| `jalur` | session id -> the inode the name of its file leads to |
| `berkas` | inode -> content, `st_mtime` and (history) the failed logins recorded under it in the window |
| `idBaru` | number of ids created (`MaxId` bounds it; ids are random in the code, here they are new) |
| `proses[r]` | the request a PHP process serves: where it is, `PS(id)`, the open descriptor, `$_SESSION`, what was read, the copy for the lazy write, whether a `Set-Cookie` is pending, the clock and the target of its garbage collection |
| `kuki`, `percobaan` | the cookie of a browser; the rows of `login_attempts` in the window, all from one address |
| `tanpaUser`, `janji` | history: ids served to a visitor or ended; ids a browser got from a successful login |

A request is `Kunjungan` (it arrives with a cookie, or none), `MulaiSesi` (`open(O_CREAT)`; an
unknown id is adopted, `use_strict_mode` is 0), `BacaSesi` (flock returns, the file is
read), perhaps `Kumpulkan` (the garbage collection, stat and unlink in two steps, without
a lock, of files in use as well), then the step or steps of one script, `Jawab` (the output and
the cookie leave) and `Simpan` (lazy write, or ftruncate and pwrite, then close). Which
script it is, is decided after the session is read, since nothing before depends on it.

* `Depan`, `TokenDitolak`, `HitungPercobaan` (the COUNT of line 17), `Dibatasi`, `LoginGagal`, `LoginBenar`,
  `MasukBaru` and `DaftarWarga` (what `register_warga` is to the session; its writes are in `UserHandler`) are `index.php`; `TanpaLogin`, `HabisDiam`, `AkunHilang`, `Tampil` are
  the gate of `login/index.php`; `Ajax` is the gate of `ajax.php`, which does not touch
  `last_activity`; `Keluar` is `logout.php`.
* `HapusSesi` and `AksesSesi` are `ps_files_destroy`: it *closes the file, which gives up the
  lock, before it unlinks it*, so a waiting request may read the session that is being
  destroyed. If another request has unlinked the file and a third created it anew,
  `access` finds it and the destruction fails (`session_regenerate_id` then returns FALSE
  and the script continues without a session).
* `Terbunuh` kills a process anywhere after it opened its file; the kernel closes its file.
* php.ini is `php.ini-production`: `lazy_write` 1, `use_strict_mode` 0, cookies only,
  `output_buffering` 4096. Line 117 of `index.php` comes after about 3 KB of output, which is
  still in that buffer, so the new id can be sent.

### Dashboard (`Laporan`, `Dasbor`)

`ajax` holds the requests a page has sent, in order: the kind and month, whether it waits for the
session, runs, is answered, shown or dead, the role the gate of `ajax.php` found, and what
the statements so far returned. `PilihBulan` is the list of months, `AjaxMasuk` the session lock and the gate,
`AjaxBaca` one SELECT, `AjaxJawab` the end of the script, `AjaxTiba` the `.done` of `air.js`,
in any order, `AjaxMati` a lost request or answer. `SesiLain` is any step of `SiAir`. The answer
carries no month: `tampak` is the request the page shows, whichever came last, so an answer that was overtaken
covers the one that overtook it. `usik` counts, as history, the rows
others wrote since a request's first SELECT, also while its answer is on the page.

The module can send both requests of the script (`Jenis`). The run has the summary only: the
request for the charts takes the same way, its statements read the whole year whatever the
month (130-202, although `air.js:209` announces a filter per month), and what it returns is not modelled.

What is assumed about code that is not in the repository:

* `login.username` and `tarif.id_tarif` are keys; a duplicate INSERT throws
  (`mysqli_report` is at its default). No foreign key: the handler's comment
  "ANTI-HANTU" (`login/index.php:367`) deletes the rows by hand because nothing
  else does.
* A statement is atomic and commits at once; AUTO_INCREMENT gives a new number
  to every row.
* One request per session at a time in `SiAir` and `Dasbor`: that is what `PhpSession`
  implements (`SerialSpec`), for requests that find the session; after a logout or a collection two requests may
  run under one id, on two files, and only one of them has a user. Several tabs or
  devices of one user are several sessions of one `PemilikSesi`; two tabs that share a
  cookie are covered for the interleaving of forms (with more freedom, as
  their requests would be serial).
* `tipe_to_kdtarif` returns any of the active tariffs of a type: the SELECT has
  no ORDER BY.

`SkripAir`. As committed, `js/air.js` removes every hidden input of the delete
dialogs (300, 308, 316) and blanks every input of the "+ User" form (44). The
CSRF token is such an input, so the guard refuses these four forms; the run `token`
shows it. With `SkripAir = TRUE` the model does the same and four handlers are
unreachable from the page. The other runs set it to `FALSE`: the
forms are then as `login/index.php` prints them (a browser without the script,
or the script once it is repaired), which is what the handlers are written for.

## 3. Runs

The first four use `MCSiAir`. Passing runs:

| Run | Instance | Properties |
|---|---|---|
| `meter` | two sessions of one petugas (two devices), no rows, three days with a month boundary, three requests | `TypeOK`; `GandaBedaSesi`: no session doubles a month, whatever it posts again and whatever happens at midnight; `IndInv`: the parts of the proof's invariant; `BarisKonsisten`: readings, usage, status agree in every row; `KunciUmur`: a request admitted for petugas changes or deletes no row that was locked when it was admitted, except that `upload_bukti` (which has no such check) may add a proof to a row of the session's own account; `LedgerSpec`: the refinement of `BukuMeter` |
| `bukti` | a customer and an admin, one unpaid row, three requests, requests may die | `BuktiSesuai`: a recorded proof is a file, uploaded for this row; `AuditBenar`: no entry without a write, but of an upload for a row that is gone, and none of a request that died; `DitulisLaluTercatat`: every admitted request is answered, with its writes in the trail unless it died or found its account deleted by another; `LedgerSpec` with proofs, deletions, requests that die and any posted fields |
| `akun` | a customer, an admin and a visitor; three requests | `AuditLengkap`: answered writes are in the trail, but for registrations and for rows deleted of an account that another `user_hapus` has deleted; `LevelHanyaAdmin`: nobody but an admin changes a role or a type, or another's account |
| `tarif` | bendahara and admin, two tariffs, two prices, three requests | `TagihanBerdasar`: every bill is its usage times a price that was in force, with any posted fields |
| `gerbang` | two PHP processes, one browser, one account, a clock of one tick, five requests or killed processes | `KunciTunggal`: one holder per file; `LoginGantiId`: an id used by a visitor, or ended, never has a user; `LoginTerlihat`: what a login promised is found by the next request; `BatasSatuSesi`: within a session the rate limit is exact; `BatasLewat`: over several sessions it is exceeded by less than the number of processes; `SerialSpec`: the refinement of `SesiSerial` |
| `dasbor` | the page of an admin, of bendahara or of a customer; a ledger with a double and an orphan; an admin with a request; two choices of a month, one lost request | `RobekTerbatas`, `BelumDicatat`: until another answer covers them, the boxes differ from the ledger of their month by no more than was written since the first SELECT, where every double and every orphan hides one customer; `AjaxDijawab`: every request is answered or fails |

**The refinement of the ledger.** `BukuMeter` knows rows, the last number given, the prices that have been in force, the
uploaded files and the day; it has no sessions, forms, roles or statements. `Rekam` adds a row under a new number,
dated today and without a proof; `Koreksi` changes readings, usage, bill and status of one row together, never its customer, day or tariff code;
`Lampirkan` notes an uploaded file of this row and nothing else; `Hapus` takes one row or all rows of a customer; `Luar` lets
prices and files be added and days pass. A written row has the usage its readings say and a bill at a
price in force before the step (`Cocok`). `SiAir` maps to it with `baris <- pemakaian`, `nomor <- no_akhir`, `arsip <- berkas`,
`harga` the prices of `hargaPernah` and `hari <- TglDB[jam]`: an INSERT, UPDATE or DELETE of `pemakaian` is one ledger
step, every other statement a stutter or `Luar`. The five to seven statements of a handler are not atomic, and what they read may be
stale when the last one writes; the refinement says that the ledger cannot tell. What it leaves
open is what the code leaves open: *which* values a correction brings (a lost correction is one too: the runs `bendahara` and
`petugas`), that a customer has one row per month (`ganda`) and that the account exists (`hantu`).

**The refinement of the sessions.** `SesiSerial` knows names, contents, and requests that join a session, see
its content and later replace it; a name may be cut from its content at any time. `GerbangLogin` implements it with
`nama <- jalur`, `isi` the contents of the inodes, `ikut` the open descriptor and `lihat` what was read while the
lock is held (the empty content between ftruncate and pwrite). It says what the lock is for: what a request
replaces is exactly what it has seen, no update of a session is lost, and
a request that reached a destroyed file writes to that file and not to a new one of the
same name.

Runs that show a disagreement between the code and what it says of itself (each
quotes the line in `PROJECT.json`, "findings"):

| Run | What happens |
|---|---|
| `ganda` | two sessions pass the month check of one customer before either inserts: two bills for a month (`SatuPerBulan`; 478, 1433) |
| `hantu` | an account is deleted while its meter is recorded, or a form for it is open: a row without an account (`TanpaHantu`; 367) |
| `bendahara` | bendahara saves a form that is older than a correction by petugas: the old reading returns (`BendaharaHanyaStatus`; 1395) |
| `petugas` | petugas saves the form of a row that has been paid: the hidden `BELUM LUNAS` makes it unpaid (`PetugasHanyaAngka`; 1184, 1337) |
| `token` | the application's own delete form is refused by its CSRF guard (`FormSendiriDiterima`; 256, air.js 308) |
| `diam` | a user logs in through the login page in a session that was left idle: `last_activity` survives `session_regenerate_id`, and the next page ends the session for idleness (`MasukTakDiam`; 9, 15, index.php 117) |

Not a run of its own: `register_warga` (`index.php:146`) creates an account and never
calls `catat_log`. `AuditLengkap` exempts it by name. Likewise the two exceptions in the properties of
the trail are real gaps of the code: two admins delete one account, and the second deletion removes a
row recorded in between without an entry (377, `AkunSudahHilang`); and `upload_bukti` reports and
logs a success when the row is gone (592). Both properties say how far the gap goes: another request has deleted
that very account, and the row of the entry is gone for good. The run `akun` has one admin, so the first of
the two cases is reached by the proof only (`AuditTidakLupa`); the run `bukti` reaches the second.

### Bounds and why they are enough

Two sessions are enough for every interleaving the properties speak of: a check of one
against the write of another (the run `akun` has three, since the roles differ).
Three requests allow a write, an overtaking write and a retry; the conflicts
above need two. `MeterUji` has a reading equal to the start reading and
one above it, and on rows that start at 1 one below, so all three signs of
the usage occur. Three days put midnight inside a month and at its end
between any two statements. `BatasUmur` is 0 instead of 30: a row is locked one
day after it was recorded, and the test is the same comparison. The initial tables are
small and ordinary: one account per role, one active tariff, no row or one unpaid
row. No symmetry is used there: the sessions have different owners, or liveness is checked.

`gerbang`: two processes are enough for a holder and a waiter of a lock, a collector and its
victim, and two logins past the COUNT. `MaxReq` = 5 allows a visit, a login (which needs
the token of a visit), a request that follows it, and an old cookie or a killed process besides; six are
needed for `diam` and fit a run that stops at its violation. `MaxId` = 3 is the visitor's id, that of a
login and one more. `MaxJam` = 1 with `GcMax` = `DiamMax` = 0 means that one tick makes
every file collectable and every user idle, and no tick does not: both sides of both comparisons. `Batas` is 1
instead of 5. The two processes are symmetric and no liveness is checked, so `SYMMETRY` is sound. The
instance ends when its requests are used up, hence `CHECK_DEADLOCK FALSE`.

`dasbor`: `MaxPilih` = 2 with the request of the page load gives two requests that can overtake each
other, `MaxMati` = 1 one that is lost. `MaxReq` = 1 is enough for two writes between the SELECTs of a summary, since
`user_hapus` is two statements: it deletes two rows, then the account. The
initial rows are of month 1, two of one customer and one of an account that is gone (the runs `ganda` and `hantu` show
how they come about), and today is in month 2, so an INSERT and an UPDATE hit different months.

### Fairness

`SpecAdil` is `Spec` with weak fairness of `Jalan(s)` for each session: PHP runs a
script that it has started to its end, and MySQL answers each statement (no
statement of the code waits for another session: there are no transactions). Nothing is
assumed of users: no page need be opened, no form posted. A request that dies
ends through `Gagal`, which needs no fairness.

`SpecDasborAdil` is `SpecDasbor` with weak fairness of `AjaxJalan(q)` for each request of the dashboard: PHP
runs the script, the network delivers. Weak fairness is enough although the requests wait for
one lock: a session has finitely many requests in the instance, so the lock
is in the end free for the last one that waits; in the code it is flock that has to be fair when there
are always more. No choice of a month and no step of another session is assumed.

## 4. Proofs

TLAPS checks every proof to its last leaf; nothing is assumed but the `ASSUME`s of
`BasisData`, `Permintaan`, `Dasbor`, `PhpSession` and `GerbangLogin`:

* `AsumsiNama`, `AsumsiTombol`: the NULL value is none of the names; tariff identifiers,
  prices and readings are numbers;
* `AsumsiWaktu`: the calendars are functions that do not go back;
* `AsumsiAwal`: the initial tables have their types; their rows are not of the future;
* `AsumsiDasbor`: the requests of a choice are the two of the script, at least one choice is
  allowed (the page makes it when it loads), the list has the month of today (it has all
  twelve, `login/index.php:772-785`), there are finitely many accounts at the start, NULL is no number;
* `AsumsiSesi`: finitely many processes, the bounds are numbers, an empty `$_SESSION` has length
  0, and the missing value is none of the others;
* `AsumsiGerbang`: the contents of a session file are those of the gate (`IsiGerbang`), at least
  one failed attempt is allowed.

TLC evaluates them in every run.

**`TipeDanKendali` (SiAirProofs): `Spec => [](TypeOK /\ Kendali)`.** `TypeOK` alone is not
inductive: that the row `meter_add` inserts has a user name and a usage that is
a natural number depends on which handler is at which statement. `Kendali`
supplies that: a script at statement `l` belongs to a button whose handler has `l`; its
session is logged in and was admitted with a role (all but `register_warga`); the form has
a user name or tariff where its button needs one; and at `sisip_meter`
the usage is not negative (the early return of 488). The proof has one lemma for
each way a statement ends (`LanjutKerja`, `SelesaiKerja`, `CatatKerja`, `BacaKerja`),
for a page (`PasangKerja`), an admission (`MulaiKerja`) and a closed page (`TutupKerja`), and
then one step per action, which types only the table that the action writes.

**`GandaHanyaBedaSesi` (BukuProofs): `ASSUME ZonaSama PROVE Spec => []GandaBedaSesi`.** Two rows of
one customer and month were never recorded by the same session. Together with the run
`ganda` this says exactly how far the SELECT before the INSERT goes: it
protects against retries, second clicks, deletions and midnight, and not against another session.
The invariant is `Buku == TypeOK /\ Kendali /\ TglLewat /\ JagaBulan /\ GandaBedaSesi`:

* `TglLewat`: no row is dated after `TglDB[jam]`;
* `JagaBulan`: from the reading of the clock (464) to the INSERT (484) the month
  `rek.bulan` is not later than the current one, the session's rows of that customer are not
  of a later month, and after the SELECT none is of that month.

The month of the INSERT is that of the clock, at or after `rek.bulan`; so it is later than
every month of the session's rows of that customer. `JagaBulan` survives the steps of
others because they do not insert rows with this `oleh`; it survives the clock because
the calendar does not go back. All steps but `BacaHarga`, `CekBulan`, `SisipMeter` and `Detak` are
`Biasa`: they add no row, change no customer, day or recorder, and enter neither of the two
guarded statements. The hypothesis `ZonaSama` is needed: `login/index.php:3` sets the zone of PHP and
nothing sets that of MySQL; if MySQL is behind, a row inserted just
after midnight carries last month's date, and the check for the new month does
not see it.

**The gate (GerbangProofs).** Four theorems, for any number of processes, browsers, accounts, ids and
requests. Each step is a step of one process that leaves the others alone (`Sah`), takes no lock that another holds
(`Jujur`) and, unless it is one of the two steps of the rate limit, lets nobody past the COUNT
(`Wajar`); there is one lemma of this form per operation of `PhpSession` and one per action of `GerbangLogin`, and
the invariants follow from the form alone.

* `TipeSesi`: `TipeGerbang` and, for each process, `Tertib`: which fields of a request are filled at which step. The
  types are not inductive without it: what `MasukBaru` writes is a session only because a
  request that regenerates its id still has `$_SESSION` and carries an account.
* `KunciSesi`: `KunciTunggal`, from `Tunggal`: two processes past the wait have different inodes, or none open.
* `BatasDalamSesi`: `BatasSatuSesi`, from `Anggaran`: no session has more failed logins than its address, and one with a
  request between COUNT and INSERT has one attempt left. It rests on `Tunggal`: a second such request would have to hold the same lock.
* `BatasAntarSesi`: `BatasLewat`, from `Lewat`: failed logins plus processes past the COUNT stay below
  `Batas + Cardinality(Req)`.

**`IdentitasBaru` (IdentitasProofs): `Spec => []LoginGantiId`.** The invariant is
`Identitas == Segar /\ Nama /\ Pisah /\ LoginGantiId`:

* `Segar`: an id that a cookie, a name, a request or the history knows has been created;
* `Nama`: a request has the file of its name open, unless the name has lost it, and then the id is in `tanpaUser`;
* `Pisah`: no request that would write a user has open a file with a name in `tanpaUser`.

Most steps are `Halus`: they give no file and no request a user it did not have, and
only cut names. The others are treated one by one: a file opened under a name that led nowhere is empty and nobody has
it open (`Pasang`, for `session_start()` and for the regeneration), and a request that
reads no user (`BacaSesi`) makes its id a visitor's while no one else is past the lock of its file, so that `Pisah` holds for the
others. The proof shows where the lock is needed: without it another request could hold the same file and write a user later.

**`SesiSerialTerpenuhi` (SerialProofs): `Spec => SerialSpec`**, the refinement. Its invariant adds `Cermin` to the
above: what is in a file that is held is what its holder has read (or nothing, between ftruncate and
pwrite), a request without a file has read nothing, and a file that nothing refers to is empty. Every step is `Serasi`: it keeps `Cermin` and is a step
of the abstract store or a stutter. `Buka` and `Baru` are `Gabung`, `Kunci` is `Lihat`, `Potong` is
`Kosongkan`, `Tulis` is `Ganti`, an unlink is `Cabut`, closing without writing is `Tinggalkan`; the rest stutters.

**`LoginTampak` (JanjiProofs): `Spec => []LoginTerlihat`.** The answer to a login leaves before the session is
saved, so at that moment no file has the user. The invariant adds `Ikatan` to the above:

* `Ditepati`: under an id that was promised there is a file, and it has a user or a process whose script is over
  will write one into it;
* `SetiaSatu`: a request that holds a file under such an id has a user, and has read one;
* `AsalSatu`: a user in `$_SESSION` was read from the file, or the file is new; so a process that dies
  before it writes leaves the user it read;
* `SatuNama`: a file has one name, and who has it open opened it under that name.

A request that reads under a promised id waits until nobody holds the file, so by `Ditepati` the user is in it; that its
name still leads to the file it opened is `Nama`, for by `LoginGantiId` and `Pisah` a promised id is
never a visitor's.

**The fates of a step (BukuProofs).** `BukuInduktif` states the inductive part of `Buku` as a theorem of
its own, since the run `meter` checks it. For the proofs below, `NasibLangkah` says once, for
every page, admission, statement and failure, what it does to the session that takes it: it opens a page (`Dibuka`),
starts a script (`Dimulai`), goes on (`Diteruskan`) or ends (`Berakhir`), and leaves every other session alone. The
invariants are then proved by four cases instead of some forty actions.

**The rows (CatatanProofs).** One inductive invariant, `Catatan`, gives `BarisSelaluKonsisten`,
`TagihanHargaBerlaku`, `BuktiBerkasSendiri` and the action properties `BarisTerkunci` and
`LevelTetap`. The properties of the rows are not inductive alone; `Catatan` adds what a form
and a script know of the row they are for:

* `HakSah`: a script has the role it was admitted with, and a registration brings a `warga`;
* `NomorLama`: no form is for a number AUTO_INCREMENT has still to give; so a form that outlives its row
  never meets another row of the same number;
* `FormBukti`: a form of `upload_bukti` is for a row of its own account, if the row is still there;
* `HargaDiketahui`: every active price is in the history of prices, and the price a script holds is nil or one of them;
* `BuktiBerkas`: between the move and the UPDATE the file is there, under the number of the form's row;
* `UmurDicek`: past the check of the age, a script of petugas is for a row that was not locked when it was admitted: the
  clock moves on, so the age at the check bounds the age at the admission.

The proof of `BarisTerkunci` failed on a first statement of `KunciUmur` that had no exception for `upload_bukti`: a
customer loads the page, an admin turns the account into petugas (`user_edit`), and the upload that follows is
admitted by the gate (`upload_bukti` looks at the owner of the row and at no age), so a row older than 30 days gets a
proof from a petugas. The instance of the run `meter` has no admin, so TLC could not meet it. `HanyaBukti` says what
such a step may do: name a proof in a row of its own account and nothing else.

**The ledger (CatatanProofs).** `BukuMeterTerpenuhi` is `Spec => LedgerSpec`. Its step uses `BarisLangkah`, which says
that a step of a session takes rows away, adds one, rewrites one or notes a proof, and `Catatan` for each of them:
`BarisKonsisten'` makes whatever was posted to an UPDATE a `Koreksi`; `HargaDiketahui` gives the
price of the bill; `BuktiBerkas` the file of `Lampirkan`; and the rows agree in the next state (`Catatan'`), judged by the prices of this
one, since a write of the rows leaves the tariffs alone. The clock maps to `Luar` because the calendar of the database does not go
back (`AsumsiWaktu`). Nothing is assumed of the zones of PHP and MySQL: the ledger knows one day, that of MySQL.

**The audit trail (CatatanProofs).** `AuditTidakBohong` and `AuditTidakLupa` follow from
`Penelusuran`. `NasibJejak` sorts the steps by what they do to the history: none (`Sunyi`), a write that
leads to `catat_log` (`Tertulis`), the first deletion of `user_hapus` (`AnakTerhapus`), a registration (`Terdaftar`), an
upload that hits no row (`BuktiLuput`), the entry itself, a death (`Mati`). The invariant adds to the two properties:

* `NomorReq`: running scripts have different numbers, none of a dead or logged request;
* `JejakSkrip`: a running script that has written is at `catat_log`, or is `user_hapus` between its two
  DELETEs, with the rows gone and the account to go;
* `LogBerdasar`: a script at `catat_log` has written, or it is `upload_bukti` and its row is gone: the UPDATE
  found no row, or not one of the account (`FormBukti`: then it is gone as well);
* `NomorEntri`: no entry is for a number AUTO_INCREMENT has still to give, so the row of such an upload never comes back;
* `FormHapus`: the account a deletion is for is there, or another deletion has written it off.

`JejakSkrip` and `FormHapus` are why `AkunSudahHilang` is the only gap besides the registration: a script that ends after a write without an
entry can only be a `user_hapus` whose second DELETE hits nothing.

**The dashboard (DasborProofs).** `DasborBertipe`, `LunasBelumDekat` and `BelumDicatatDekat`, for
any tables, sessions, months and number of choices, from `Papan`:

* `BacaUrut`: what a summary has read is a prefix of the statements of its role, and all of them from its answer on;
* `LunasDekat`: once the paid rows are counted, that count is no further from the table than the rows written since
  the first SELECT; once the unpaid are counted too, so is the sum. The two SELECTs partition the rows that have a status;
* `TercatatDekat`: the same for the customers, and then for the difference of customers and rows;
* `TampakSah`: what the page shows is an answer of that kind.

A step of another session (`LainPapan`) moves each count by no more than the rows it writes (`HitungGeser`), because the
sets before and after differ only in rows that were written; `usik` grows by just that. `BelumDicatat` then needs
that the rows of a month that are not one too many and the recorded customers correspond one to one (`LebihHitung`: each
customer's row of the least number, which exists by `AngkaTerkecil`). That the
sums of usage and bills are numbers at all (`PakaiBulat`, `TagihanBulat`) is an induction over a finite set, done without an
induction rule: a set for which it fails has a smallest one, by the well-foundedness of `<` (`AngkaTerkecil`).

`AsumsiDasbor` had to become stronger for the proof: with no choice allowed (`MaxPilih` = 0) `TipeDasbor` is false in the
initial state, since the page sends its first requests when it loads; and with a list of months that lacks the current one
the month of the first requests is none of the list. Neither can happen in the code.

Only model-checked: the liveness properties `DitulisLaluTercatat` and `AjaxDijawab`. They need
fairness, and with it ENABLED, which is out of this prover's reach. Every other property of
the passing runs is stated by a theorem. The properties of the runs that expect a violation are false.

## 5. Properties and mutants

Every property of a passing run has a mutant in the module of the handler it
is about: a definition with the name of the original, `_` and what is wrong, placed before
the original. With it in place of the original TLC finds the property violated
in the same instance. They are: the price read without the test for AKTIF, a
`meter_edit` without the test of the sign, or that tries again when nothing changed, a month check
for today only, the sign test alone, a nil usage that stays unpaid, an UPDATE that drops the proof, a number given again after a deletion, a lock for edits only, a refused file that does not end the
request, a `catat_log` without the affected rows, a deletion without `catat_log`, a
`profil_edit` that writes back the row it read; a session read without waiting for its lock, a lock given
up before the password is checked, a session file opened anew to be written, a login that keeps its id, one attempt too
many, a page that stores when the session expires; unpaid bills counted as "not LUNAS", recorded customers counted in
all months, a request that waits for requests that wait, an AJAX gate that lets an account that is gone through.

## 6. Not modelled

* The values of the charts (`ajax.php` 125-221) and the tables of the pages (read only). The search for the
  last recorded month (32-39) is not reached: the list of months has no empty choice.
* What the page does when the role it was printed for is no longer the role an answer is made for.
* `remember_user`, the cookie that fills in a field of the login form.
* Session extension: other save handlers and serializers, upload progress, the functions
  Si-Air does not call, errors of the file system other than a missing file, `save_path` levels. The refusal to
  reuse an existing id (`php_session_create_id` tries again) is the freshness of `idBaru`.
* The text an entry of the trail carries (`detail`), among it the old status, which is that of a SELECT before the UPDATE.
* Row numbers and user names in hidden fields that no page printed for the session; the fields a user types or could
  unlock are modelled (`IsianBebas`).
* Formatting (`tgl_balik`, `bln`), HTML, styles, `profile.php`, template scripts.
* Contents of a file: extension, size and a failed move are one nondeterministic refusal.
* `level` and `tipe` of a posted account: `login/index.php` maps an unknown level to `warga`, so the
  values of the model are those that reach the table.
* The rest of `php-8.5.8-src`: an upstream interpreter, kept unchanged, of more than a million lines of C. The
  application is about 3,000 lines, so the share of *all* lines in the repository that the modules map is small
  and will stay so; of the interpreter they model what the application's concurrency rests on.

## 7. Plan

In this order; each module is written to be proved about (constants with named assumptions, one
action per operation, no RECURSIVE operator).

1. *Done:* the write handlers, their composition, types and control proved, one row per
   session and month proved.
2. *Done:* `PhpSession`, `GerbangLogin` and the refinement of `SesiSerial`.
3. *Done:* `Laporan` and `Dasbor`.
4. `RiwayatMeter`: the reading the form of `meter_add` fills in (`ORDER BY tgl DESC, waktu DESC`)
   against the chain of readings of a customer.
5. *Done:* `BukuMeter`, an abstract ledger (record, correct, note a proof, delete as atomic operations) and the
   refinement of `SiAir` to it, checked and proved.
6. *Done:* every safety property of the passing runs, of the handlers, the gate and the
   dashboard, proved for every value of the constants.
7. Proofs left: what 4 will state of the chain of readings.
