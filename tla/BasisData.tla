------------------------------ MODULE BasisData ------------------------------
(***************************************************************************)
(* The MySQL tables of Si-Air (login, tarif, pemakaian, audit_log), the    *)
(* directory of payment proofs, and the look-up functions of kelas_air in  *)
(* assets/func.php.  The repository holds no schema: a table is known by   *)
(* the statements that read and write it.                                  *)
(***************************************************************************)
EXTENDS Integers

CONSTANTS
    Sesi,           \* browser sessions
    Username,       \* user names that can occur
    PemilikSesi,    \* [Sesi -> Username \cup {Tiada}]: $_SESSION['user']
    IdTarif,        \* tariff identifiers, non-zero numbers
    Tipe,           \* customer types ("RT", "Kos")
    Data,           \* contents of the free profile columns and the password
    HargaUji,       \* prices a form can be filled with
    MeterUji,       \* meter readings a form can be filled with
    MaxJam,         \* bound on the clock
    TglPHP,         \* [0..MaxJam -> 0..MaxHari]: date() of PHP at an instant
    TglDB,          \* [0..MaxJam -> 0..MaxHari]: CURRENT_DATE() of MySQL
    MaxHari,        \* last day of the calendar
    BulanDari,      \* [0..MaxHari -> Nat]: the month (with its year) of a day
    BatasUmur,      \* age in days above which a row is locked for petugas
    LoginAwal, TarifAwal, PemakaianAwal,  \* contents of the tables at the start
    NoAwal,         \* AUTO_INCREMENT of pemakaian at the start
    Tiada           \* NULL

Level == {"admin", "bendahara", "petugas", "warga"}

Waktu == 0..MaxJam
Hari  == 0..MaxHari

\* Rows.  The columns nobody reads back (nama, alamat, ...) are one value.
Pengguna == [level : Level, tipe : Tipe, data : Data]
Tarif    == [tipe : Tipe, harga : Nat, aktif : BOOLEAN]

\* A file of assets/img/bukti is named by the row number and the time.
NamaBukti == Nat \X Waktu

StatusBayar == {"LUNAS", "BELUM LUNAS", "KOSONG"}  \* KOSONG: column left NULL

\* oleh is a history column: the session whose request inserted the row.
Baris == [username : Username, awal : Nat, akhir : Nat, pakai : Nat,
          tgl : Hari, waktu : Waktu, kd : IdTarif \cup {0}, tagihan : Nat,
          status : StatusBayar, bukti : NamaBukti \cup {Tiada},
          oleh : Sesi \cup {Tiada}]

Monoton(f, S) == \A i, j \in S : i <= j => f[i] <= f[j]

ASSUME AsumsiNama ==
    /\ Tiada \notin Username \cup Tipe \cup Sesi
    /\ PemilikSesi \in [Sesi -> Username \cup {Tiada}]
    /\ IdTarif \subseteq Nat \ {0}
    /\ HargaUji \subseteq Nat
    /\ MeterUji \subseteq Nat

ASSUME AsumsiWaktu ==
    /\ MaxJam \in Nat
    /\ MaxHari \in Nat
    /\ BatasUmur \in Nat
    /\ TglPHP \in [Waktu -> Hari]
    /\ TglDB  \in [Waktu -> Hari]
    /\ BulanDari \in [Hari -> Nat]
    /\ Monoton(TglPHP, Waktu)
    /\ Monoton(TglDB, Waktu)
    /\ Monoton(BulanDari, Hari)

ASSUME AsumsiAwal ==
    /\ LoginAwal \in [DOMAIN LoginAwal -> Pengguna]
    /\ DOMAIN LoginAwal \subseteq Username
    /\ TarifAwal \in [DOMAIN TarifAwal -> Tarif]
    /\ DOMAIN TarifAwal \subseteq IdTarif
    /\ PemakaianAwal \in [DOMAIN PemakaianAwal -> Baris]
    /\ NoAwal \in Nat /\ DOMAIN PemakaianAwal \subseteq 1..NoAwal
    /\ \A n \in DOMAIN PemakaianAwal :
          LET r == PemakaianAwal[n] IN
          /\ r.oleh = Tiada
          /\ r.bukti = Tiada
          /\ r.tgl <= TglDB[0] /\ r.waktu = 0
          /\ r.akhir = r.awal + r.pakai
          /\ r.pakai = 0 => r.status = "LUNAS" /\ r.tagihan = 0
          /\ \/ r.tagihan = 0
             \/ \E k \in DOMAIN TarifAwal :
                   TarifAwal[k].aktif /\ r.tagihan = TarifAwal[k].harga * r.pakai

-----------------------------------------------------------------------------
VARIABLES
    jam,        \* the instant, common to the web server and the database
    login,      \* username -> Pengguna
    tarif,      \* id_tarif -> Tarif
    hargaPernah,\* history: every <<id_tarif, price>> that has been active
    pemakaian,  \* no -> Baris
    no_akhir,   \* AUTO_INCREMENT of pemakaian
    berkas,     \* files in assets/img/bukti
    audit_log   \* entries of catat_log

tabelTarif == <<tarif, hargaPernah>>

basis == <<login, tabelTarif, pemakaian, no_akhir, berkas, audit_log>>

\* The active prices of a tariff table.
HargaAktif(f) == {<<k, f[k].harga>> : k \in {i \in DOMAIN f : f[i].aktif}}

\* A table with the row k put in, and a table without the rows of K.
Sisip(f, k, v) == [x \in DOMAIN f \cup {k} |-> IF x = k THEN v ELSE f[x]]
Buang(f, K)    == [x \in DOMAIN f \ K |-> f[x]]

-----------------------------------------------------------------------------
(* kelas_air *)

\* tipe_to_kdtarif returns the first row of an unordered SELECT: any of these.
TipeKeKdTarif(tp) ==
    LET aktif == {k \in DOMAIN tarif : tarif[k].tipe = tp /\ tarif[k].aktif}
    IN  IF aktif = {} THEN {0} ELSE aktif

\* Mutant: the price is read without the test for AKTIF.
IdTarifKeTarif_TanpaAktif(k) == IF k \in DOMAIN tarif THEN tarif[k].harga ELSE 0

IdTarifKeTarif(k) ==
    IF k \in DOMAIN tarif /\ tarif[k].aktif THEN tarif[k].harga ELSE 0

\* user_to_idtarif reads the type of the account before it looks for a tariff.
TipeUser(u) == IF u \in DOMAIN login THEN login[u].tipe ELSE Tiada

NoKeUser(n) == IF n \in DOMAIN pemakaian THEN pemakaian[n].username ELSE Tiada

\* date_diff(tgl, now)->days, an absolute value.
Umur(n) ==
    LET d == TglPHP[jam] - pemakaian[n].tgl IN IF d < 0 THEN -d ELSE d

BarisUser(u) == {n \in DOMAIN pemakaian : pemakaian[n].username = u}

\* The rows of u that come first under ORDER BY tgl DESC, waktu DESC.
BarisTerakhir(u) ==
    {n \in BarisUser(u) : \A m \in BarisUser(u) :
        \/ pemakaian[m].tgl < pemakaian[n].tgl
        \/ /\ pemakaian[m].tgl = pemakaian[n].tgl
           /\ pemakaian[m].waktu <= pemakaian[n].waktu}

\* The value the form prefills as meter_awal for u.
MeterAwalBerikut(u) ==
    IF BarisUser(u) = {} THEN {0}
    ELSE {pemakaian[n].akhir : n \in BarisTerakhir(u)}

-----------------------------------------------------------------------------
InitBasis ==
    /\ jam = 0
    /\ login = LoginAwal
    /\ tarif = TarifAwal
    /\ hargaPernah = HargaAktif(TarifAwal)
    /\ pemakaian = PemakaianAwal
    /\ no_akhir = NoAwal
    /\ berkas = {}
    /\ audit_log = {}
=============================================================================
