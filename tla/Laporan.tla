------------------------------- MODULE Laporan -------------------------------
(***************************************************************************)
(* The SELECTs behind the boxes of the dashboard (src/assets/ajax.php,     *)
(* p = summary) over the tables of BasisData.  A summary runs several, and *)
(* nothing ties them together.  Amounts are numbers: the formatting of     *)
(* number_format and tgl_balik is left out.                                *)
(***************************************************************************)
EXTENDS BasisData, Sequences, FiniteSets, FiniteSetsExt

Kolom == {"pelanggan", "pakai", "tercatat", "masuk", "lunas", "belum", "milik"}

\* The statements of p = summary for a role, in order.
Perintah(lv) ==
    CASE lv = "warga"     -> <<"milik">>
      [] lv = "bendahara" -> <<"pelanggan", "masuk", "lunas", "belum">>
      [] OTHER            -> <<"pelanggan", "pakai", "tercatat">>

Warga == {u \in DOMAIN login : login[u].level = "warga"}

\* tgl LIKE 'YYYY-MM%'.
BarisBulan(b) == {n \in DOMAIN pemakaian : BulanDari[pemakaian[n].tgl] = b}
Berstatus(b, st) == {n \in BarisBulan(b) : pemakaian[n].status = st}

JumlahPakai(S)   == MapThenSumSet(LAMBDA n : pemakaian[n].pakai, S)
JumlahTagihan(S) == MapThenSumSet(LAMBDA n : pemakaian[n].tagihan, S)

\* Mutant: everything that is not paid is counted, as the table of
\* login/index.php:1239 shows it.
BelumBayar_BukanLunas(b) == BarisBulan(b) \ Berstatus(b, "LUNAS")

BelumBayar(b) == Berstatus(b, "BELUM LUNAS")

\* Mutant: the recorded customers are counted in all months.
JumlahTercatat_Semua(b) == Cardinality(DOMAIN pemakaian)

\* COUNT(username): rows, not customers.
JumlahTercatat(b) == Cardinality(BarisBulan(b))

\* What the statement k returns for the month b.
Nilai(k, b) ==
    CASE k = "pelanggan" -> Cardinality(Warga)
      [] k = "pakai"     -> JumlahPakai(BarisBulan(b))
      [] k = "tercatat"  -> JumlahTercatat(b)
      [] k = "masuk"     -> JumlahTagihan(Berstatus(b, "LUNAS"))
      [] k = "lunas"     -> Cardinality(Berstatus(b, "LUNAS"))
      [] k = "belum"     -> Cardinality(BelumBayar(b))

\* The row of u the page shows: the first fetched of an unordered SELECT.
Milik(u, b) ==
    LET S == BarisBulan(b) \cap BarisUser(u) IN IF S = {} THEN {0} ELSE S
=============================================================================
