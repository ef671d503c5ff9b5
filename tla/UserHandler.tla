----------------------------- MODULE UserHandler -----------------------------
(***************************************************************************)
(* The accounts: user_add, user_edit, user_hapus and profil_edit of        *)
(* login/index.php and register_warga of index.php.                        *)
(***************************************************************************)
EXTENDS Permintaan

-----------------------------------------------------------------------------
(* Pages *)

\* The user name of a new account is typed; the one of an existing account
\* comes from the list of users and cannot be changed.
BukaUserAdd(s) ==
    /\ BukaHalaman(s, "user_add")
    /\ \E u \in Username :
          Pasang(s, [FormDasar(s, "user_add") EXCEPT !.username = u])

BukaUser(s, t) ==
    /\ BukaHalaman(s, t)
    /\ \E u \in DOMAIN login :
          Pasang(s, [FormDasar(s, t) EXCEPT !.username = u])

BukaUserEdit(s)  == BukaUser(s, "user_edit")
BukaUserHapus(s) == BukaUser(s, "user_hapus")

\* The settings page has no field for a user name: the target is the session.
BukaProfil(s) ==
    /\ BukaHalaman(s, "profil_edit")
    /\ Pasang(s, [FormDasar(s, "profil_edit") EXCEPT !.username = Aktor(s)])

\* The page of a visitor who has not logged in.
BukaDaftar(s) ==
    /\ HalamanTerbuka(s)
    /\ "register_warga" \in TombolUji
    /\ s \notin Masuk
    /\ \E u \in Username :
          Pasang(s, [FormKosong EXCEPT !.t = "register_warga",
                                       !.username = u, !.token = TRUE])

-----------------------------------------------------------------------------
(* POST *)

TerimaUserIsian(s, t, l) ==
    /\ Diterima(s, t)
    /\ \E isi \in Pengguna : MulaiDengan(s, [RekBaru(s) EXCEPT !.isi = isi], l)

TerimaUserAdd(s)   == TerimaUserIsian(s, "user_add", "cek_user")
TerimaUserEdit(s)  == TerimaUserIsian(s, "user_edit", "ubah_user")
TerimaProfil(s) ==
    /\ Diterima(s, "profil_edit")
    /\ \E d \in Data :
          MulaiDengan(s, [RekBaru(s) EXCEPT
                            !.isi = [login[Aktor(s)] EXCEPT !.data = d]],
                      "ubah_profil")
TerimaUserHapus(s) ==
    /\ Diterima(s, "user_hapus")
    /\ MulaiDengan(s, RekBaru(s), "hapus_anak")

TerimaDaftar(s) ==
    /\ pc[s] = "form" /\ nReq < MaxReq
    /\ T(s) = "register_warga"
    /\ \E isi \in {i \in Pengguna : i.level = "warga"} :
          MulaiDengan(s, [RekKosong EXCEPT !.req = nReq + 1, !.mulai = jam,
                                           !.isi = isi], "cek_daftar")

-----------------------------------------------------------------------------
(* Statements *)

\* SELECT username FROM login WHERE username=?
CekNama(s, dari, ke) ==
    /\ pc[s] = dari
    /\ IF form[s].username \in DOMAIN login THEN Selesai(s) ELSE Lanjut(s, ke)
    /\ TetapSesi
    /\ UNCHANGED <<basis, jejak>>

\* INSERT INTO login.
SisipNama(s) ==
    /\ form[s].username \notin DOMAIN login
    /\ login' = Sisip(login, form[s].username, rek[s].isi)
    /\ Tulis(s, "login")
    /\ TetapSesi
    /\ UNCHANGED <<tabelTarif, pemakaian, no_akhir, berkas, audit_log>>

\* A name taken since the SELECT is a duplicate key: mysqli throws.
KunciGanda(s) ==
    /\ pc[s] \in {"sisip_user", "sisip_daftar"}
    /\ form[s].username \in DOMAIN login
    /\ gagal' = gagal \cup {rek[s].req}
    /\ Selesai(s)
    /\ UNCHANGED <<jam, basis, form, nReq, jejak>>

CekUser(s)   == CekNama(s, "cek_user", "sisip_user")
SisipUser(s) == pc[s] = "sisip_user" /\ SisipNama(s) /\ Lanjut(s, "log")

\* register_warga calls no catat_log.
CekDaftar(s)   == CekNama(s, "cek_daftar", "sisip_daftar")
SisipDaftar(s) == pc[s] = "sisip_daftar" /\ SisipNama(s) /\ Selesai(s)

\* UPDATE login SET ... WHERE username=?, for u an account or not.  A password
\* typed in is hashed with a new salt, so an UPDATE that leaves the columns of
\* the model alone may still count as a change.
UbahLogin(s, tabelBaru) ==
    /\ login' = tabelBaru
    /\ \E berubah \in BOOLEAN :
          /\ berubah => form[s].username \in DOMAIN login
          /\ tabelBaru # login => berubah
          /\ TulisBila(s, "login", berubah)
          /\ Catat(s, berubah)
    /\ TetapSesi
    /\ UNCHANGED <<tabelTarif, pemakaian, no_akhir, berkas, audit_log>>

UbahUser(s) ==
    /\ pc[s] = "ubah_user"
    /\ UbahLogin(s, [u \in DOMAIN login |->
                       IF u = form[s].username THEN rek[s].isi ELSE login[u]])

\* Mutant: profil_edit writes back every column it read at the gate.
UbahProfil_Semua(s) ==
    /\ pc[s] = "ubah_profil"
    /\ UbahLogin(s, [u \in DOMAIN login |->
                       IF u = Aktor(s) THEN rek[s].isi ELSE login[u]])

\* profil_edit changes the row of the session, and not its level or type.
UbahProfil(s) ==
    /\ pc[s] = "ubah_profil"
    /\ UbahLogin(s, [u \in DOMAIN login |->
                       IF u = Aktor(s)
                       THEN [login[u] EXCEPT !.data = rek[s].isi.data]
                       ELSE login[u]])

\* user_hapus: first the rows of pemakaian, then the account.
HapusAnak(s) ==
    /\ pc[s] = "hapus_anak"
    /\ LET anak == BarisUser(form[s].username) IN
       /\ pemakaian' = Buang(pemakaian, anak)
       /\ TulisBila(s, "pemakaian", anak # {})
    /\ Lanjut(s, "hapus_user")
    /\ TetapSesi
    /\ UNCHANGED <<login, tabelTarif, no_akhir, berkas, audit_log>>

\* Mutant: the account goes without an entry in the trail.
HapusUser_TanpaLog(s) ==
    /\ pc[s] = "hapus_user"
    /\ LET ada == form[s].username \in DOMAIN login IN
       /\ login' = Buang(login, {form[s].username})
       /\ TulisBila(s, "login", ada)
       /\ Selesai(s)
    /\ TetapSesi
    /\ UNCHANGED <<tabelTarif, pemakaian, no_akhir, berkas, audit_log>>

HapusUser(s) ==
    /\ pc[s] = "hapus_user"
    /\ LET ada == form[s].username \in DOMAIN login IN
       /\ login' = Buang(login, {form[s].username})
       /\ TulisBila(s, "login", ada)
       /\ Catat(s, ada)
    /\ TetapSesi
    /\ UNCHANGED <<tabelTarif, pemakaian, no_akhir, berkas, audit_log>>

HalamanUser(s) ==
    BukaUserAdd(s) \/ BukaUserEdit(s) \/ BukaUserHapus(s) \/ BukaProfil(s)
    \/ BukaDaftar(s)
AjukanUser(s) ==
    TerimaUserAdd(s) \/ TerimaUserEdit(s) \/ TerimaProfil(s)
    \/ TerimaUserHapus(s) \/ TerimaDaftar(s)
JalanUser(s) ==
    CekUser(s) \/ SisipUser(s) \/ CekDaftar(s) \/ SisipDaftar(s)
    \/ KunciGanda(s) \/ UbahUser(s) \/ UbahProfil(s) \/ HapusAnak(s)
    \/ HapusUser(s)
=============================================================================
