---------------------------- MODULE DasborProofs ----------------------------
(* The dashboard: what the answers are worth while the tables change.           *)
EXTENDS Dasbor, BukuProofs, FiniteSetTheorems, SequenceTheorems

-----------------------------------------------------------------------------
(* Sums over sets *)

\* A non-empty set of numbers has a least one.
LEMMA AngkaTerkecil ==
    ASSUME NEW B \in SUBSET Nat, B # {}
    PROVE  \E n \in B : \A m \in B : n <= m
<1>1. PICK n \in B : \A m \in B : <<m, n>> \notin OpToRel(<, Nat)
  BY NatLessThanWellFounded, WFMin, Zenon
<1>2. ASSUME NEW m \in B PROVE n <= m
  <2>1. ~(m < n) BY <1>1 DEF OpToRel
  <2> QED BY <2>1
<1> QED BY <1>2

\* The sums of f over the subsets of S, as MapThenSumSet computes them.
Pilihan(s) == CHOOSE x \in s : TRUE
Tambah(g, f, s) == IF s = {} THEN 0 ELSE f[Pilihan(s)] + g[s \ {Pilihan(s)}]
Melipat(g, f, S) == g = [s \in SUBSET S |-> Tambah(g, f, s)]

\* The chosen element is one.
LEMMA PilihanAnggota == ASSUME NEW s, s # {} PROVE Pilihan(s) \in s
BY DEF Pilihan

\* There are such sums ...
LEMMA LipatanAda ==
    ASSUME NEW S, IsFiniteSet(S), NEW f \in [S -> Int]
    PROVE  \E g : Melipat(g, f, S)
<1> DEFINE Sampai(n) == {s \in SUBSET S : Cardinality(s) <= n}
           Ada(n) == \E g \in [Sampai(n) -> Int] : \A s \in Sampai(n) : g[s] = Tambah(g, f, s)
           Buruk == {n \in Nat : ~Ada(n)}
<1>0. \A s \in SUBSET S : IsFiniteSet(s) /\ Cardinality(s) \in Nat
                         /\ Cardinality(s) <= Cardinality(S)
  BY FS_Subset, FS_CardinalityType
<1>1. Buruk = {}
  <2> SUFFICES ASSUME Buruk # {} PROVE FALSE
    OBVIOUS
  <2>1. PICK n \in Buruk : \A m \in Buruk : n <= m BY AngkaTerkecil
  <2>2. n \in Nat /\ ~Ada(n) OBVIOUS
  <2>3. CASE n = 0
    <3> DEFINE g == [s \in Sampai(0) |-> 0]
    <3>1. ASSUME NEW s \in Sampai(0) PROVE s = {}
      <4>1. s \in SUBSET S /\ Cardinality(s) <= 0 OBVIOUS
      <4>2. IsFiniteSet(s) /\ Cardinality(s) \in Nat BY <1>0, <4>1
      <4>3. Cardinality(s) = 0 BY <4>1, <4>2
      <4> QED BY <4>2, <4>3, FS_EmptySet
    <3>2. g \in [Sampai(0) -> Int] OBVIOUS
    <3>3. \A s \in Sampai(0) : g[s] = Tambah(g, f, s) BY <3>1 DEF Tambah
    <3>4. Ada(0) BY <3>2, <3>3
    <3> QED BY <2>2, <2>3, <3>4
  <2>4. CASE n # 0
    <3>0. n - 1 \in Nat /\ ~(n <= n - 1) BY <2>2, <2>4
    <3>1. Ada(n - 1)
      <4>1. n - 1 \notin Buruk BY <2>1, <3>0
      <4> HIDE DEF Ada
      <4> QED BY <3>0, <4>1
    <3>2. PICK h \in [Sampai(n - 1) -> Int] :
            \A s \in Sampai(n - 1) : h[s] = Tambah(h, f, s)
      BY <3>1
    <3> DEFINE g == [s \in Sampai(n) |-> Tambah(h, f, s)]
    <3>3. ASSUME NEW s \in Sampai(n), s # {}
          PROVE  /\ Pilihan(s) \in S
                 /\ s \ {Pilihan(s)} \in Sampai(n - 1)
      <4>1. Pilihan(s) \in s BY <3>3, PilihanAnggota
      <4>2. IsFiniteSet(s) BY <1>0
      <4>3. Cardinality(s \ {Pilihan(s)}) = Cardinality(s) - 1 BY <4>1, <4>2, FS_RemoveElement
      <4>4. Cardinality(s) \in Nat /\ Cardinality(s) <= n BY <1>0
      <4> QED BY <2>2, <4>1, <4>3, <4>4
    <3>4. \A s \in Sampai(n) : Tambah(h, f, s) \in Int
      BY <3>2, <3>3 DEF Tambah
    <3>5. g \in [Sampai(n) -> Int] BY <3>4
    <3>6. Sampai(n - 1) \subseteq Sampai(n) BY <1>0, <2>2
    <3>7. \A s \in Sampai(n - 1) : g[s] = h[s] BY <3>2, <3>6
    <3>8. ASSUME NEW s \in Sampai(n) PROVE g[s] = Tambah(g, f, s)
      <4>1. g[s] = Tambah(h, f, s) OBVIOUS
      <4>2. s # {} => g[s \ {Pilihan(s)}] = h[s \ {Pilihan(s)}] BY <3>3, <3>7
      <4> QED BY <4>1, <4>2 DEF Tambah
    <3>9. Ada(n) BY <3>5, <3>8
    <3> QED BY <2>2, <3>9
  <2> QED BY <2>3, <2>4
<1>2. Cardinality(S) \in Nat BY FS_CardinalityType
<1>3. Ada(Cardinality(S)) BY <1>1, <1>2
<1>4. Sampai(Cardinality(S)) = SUBSET S BY <1>0
<1>5. PICK g \in [SUBSET S -> Int] : \A s \in SUBSET S : g[s] = Tambah(g, f, s)
  BY <1>3, <1>4
<1> QED BY <1>5 DEF Melipat

\* ... and they are numbers.
LEMMA LipatanBulat ==
    ASSUME NEW S, IsFiniteSet(S), NEW f \in [S -> Int], NEW g, Melipat(g, f, S)
    PROVE  g[S] \in Int
<1> DEFINE Buruk == {n \in Nat : \E s \in SUBSET S : Cardinality(s) = n /\ g[s] \notin Int}
<1>0. \A s \in SUBSET S : IsFiniteSet(s) /\ Cardinality(s) \in Nat
  BY FS_Subset, FS_CardinalityType
<1>1. Buruk = {}
  <2> SUFFICES ASSUME Buruk # {} PROVE FALSE
    OBVIOUS
  <2>1. PICK n \in Buruk : \A m \in Buruk : n <= m BY AngkaTerkecil
  <2>2. PICK s \in SUBSET S : Cardinality(s) = n /\ g[s] \notin Int OBVIOUS
  <2>3. g[s] = Tambah(g, f, s) BY DEF Melipat
  <2>4. s # {} BY <2>2, <2>3 DEF Tambah
  <2> DEFINE t == s \ {Pilihan(s)}
  <2>5. Pilihan(s) \in s BY <2>4, PilihanAnggota
  <2>6. Cardinality(t) = n - 1 /\ Cardinality(t) \in Nat
    BY <1>0, <2>2, <2>5, FS_RemoveElement
  <2>7. g[t] \in Int
    <3>1. n - 1 \notin Buruk BY <2>1
    <3> QED BY <2>6, <3>1
  <2> QED BY <2>2, <2>3, <2>4, <2>5, <2>7 DEF Tambah
<1>2. Cardinality(S) \in Nat BY FS_CardinalityType
<1> QED BY <1>1, <1>2

\* What SUM(pemakaian) returns is a number.
LEMMA PakaiBulat ==
    ASSUME NEW S, IsFiniteSet(S), \A n \in S : pemakaian[n].pakai \in Int
    PROVE  JumlahPakai(S) \in Int
<1> DEFINE f == [n \in S |-> pemakaian[n].pakai]
           H(g) == [s \in SUBSET S |-> IF s = {} THEN 0 ELSE
                      pemakaian[CHOOSE x \in s : TRUE].pakai + g[s \ {CHOOSE x \in s : TRUE}]]
           jumlah == CHOOSE g : g = H(g)
<1>1. JumlahPakai(S) = jumlah[S]
  BY DEF JumlahPakai, MapThenSumSet, MapThenFoldSet
<1>2. ASSUME NEW g PROVE Melipat(g, f, S) <=> g = H(g)
  <2>1. ASSUME NEW s \in SUBSET S
        PROVE  Tambah(g, f, s) = IF s = {} THEN 0 ELSE
                 pemakaian[CHOOSE x \in s : TRUE].pakai + g[s \ {CHOOSE x \in s : TRUE}]
    <3>1. CASE s = {} BY <3>1 DEF Tambah
    <3>2. CASE s # {}
      <4>1. Pilihan(s) \in S BY <3>2, PilihanAnggota
      <4> QED BY <3>2, <4>1 DEF Tambah, Pilihan
    <3> QED BY <3>1, <3>2
  <2> QED BY <2>1 DEF Melipat
<1>3. f \in [S -> Int] OBVIOUS
<1> HIDE DEF f, H
<1>4. PICK h : Melipat(h, f, S) BY <1>3, LipatanAda
<1>5. h = H(h) BY <1>2, <1>4
<1>6. jumlah = H(jumlah) BY <1>5, Zenon
<1> HIDE DEF jumlah
<1>7. Melipat(jumlah, f, S) BY <1>2, <1>6
<1> QED BY <1>1, <1>3, <1>7, LipatanBulat

\* So is what SUM(tagihan) returns.
LEMMA TagihanBulat ==
    ASSUME NEW S, IsFiniteSet(S), \A n \in S : pemakaian[n].tagihan \in Int
    PROVE  JumlahTagihan(S) \in Int
<1> DEFINE f == [n \in S |-> pemakaian[n].tagihan]
           H(g) == [s \in SUBSET S |-> IF s = {} THEN 0 ELSE
                      pemakaian[CHOOSE x \in s : TRUE].tagihan + g[s \ {CHOOSE x \in s : TRUE}]]
           jumlah == CHOOSE g : g = H(g)
<1>1. JumlahTagihan(S) = jumlah[S]
  BY DEF JumlahTagihan, MapThenSumSet, MapThenFoldSet
<1>2. ASSUME NEW g PROVE Melipat(g, f, S) <=> g = H(g)
  <2>1. ASSUME NEW s \in SUBSET S
        PROVE  Tambah(g, f, s) = IF s = {} THEN 0 ELSE
                 pemakaian[CHOOSE x \in s : TRUE].tagihan + g[s \ {CHOOSE x \in s : TRUE}]
    <3>1. CASE s = {} BY <3>1 DEF Tambah
    <3>2. CASE s # {}
      <4>1. Pilihan(s) \in S BY <3>2, PilihanAnggota
      <4> QED BY <3>2, <4>1 DEF Tambah, Pilihan
    <3> QED BY <3>1, <3>2
  <2> QED BY <2>1 DEF Melipat
<1>3. f \in [S -> Int] OBVIOUS
<1> HIDE DEF f, H
<1>4. PICK h : Melipat(h, f, S) BY <1>3, LipatanAda
<1>5. h = H(h) BY <1>2, <1>4
<1>6. jumlah = H(jumlah) BY <1>5, Zenon
<1> HIDE DEF jumlah
<1>7. Melipat(jumlah, f, S) BY <1>2, <1>6
<1> QED BY <1>1, <1>3, <1>7, LipatanBulat

-----------------------------------------------------------------------------
(* Counts *)

\* Two sets are as far apart in number as the elements that tell them apart.
LEMMA HitungBeda ==
    ASSUME NEW A, NEW B, NEW D, IsFiniteSet(A), IsFiniteSet(B), IsFiniteSet(D),
           A \ B \subseteq D, B \ A \subseteq D
    PROVE  /\ Cardinality(A) \in Nat /\ Cardinality(B) \in Nat /\ Cardinality(D) \in Nat
           /\ Cardinality(A) <= Cardinality(B) + Cardinality(D)
           /\ Cardinality(B) <= Cardinality(A) + Cardinality(D)
<1>1. Cardinality(A) \in Nat /\ Cardinality(B) \in Nat /\ Cardinality(D) \in Nat
  BY FS_CardinalityType
<1>2. ASSUME NEW X, NEW Y, IsFiniteSet(X), IsFiniteSet(Y), X \ Y \subseteq D
      PROVE  Cardinality(X) <= Cardinality(Y) + Cardinality(D)
  <2>1. /\ IsFiniteSet(Y \cup D)
        /\ Cardinality(Y \cup D) = Cardinality(Y) + Cardinality(D) - Cardinality(Y \cap D)
    BY <1>2, FS_Union
  <2>2. Cardinality(Y \cap D) \in Nat BY <1>2, FS_Intersection, FS_CardinalityType
  <2>3. X \in SUBSET (Y \cup D) BY <1>2
  <2>4. Cardinality(X) <= Cardinality(Y \cup D) BY <2>1, <2>3, FS_Subset
  <2>5. Cardinality(X) \in Nat /\ Cardinality(Y) \in Nat BY <1>2, FS_CardinalityType
  <2> QED BY <1>1, <2>1, <2>2, <2>4, <2>5
<1> QED BY <1>1, <1>2

\* The columns are few.
LEMMA KolomHingga == IsFiniteSet(Kolom)
<1>1. Kolom = {"pelanggan"} \cup {"pakai"} \cup {"tercatat"} \cup {"masuk"}
              \cup {"lunas"} \cup {"belum"} \cup {"milik"}
  BY DEF Kolom
<1> QED BY <1>1, FS_Singleton, FS_Union

\* The numbers of columns bendahara's summary has read.
LEMMA KartuBendahara ==
    /\ Cardinality({}) = 0
    /\ Cardinality({"pelanggan"}) = 1
    /\ Cardinality({"pelanggan", "masuk"}) = 2
    /\ Cardinality({"pelanggan", "masuk", "lunas"}) = 3
    /\ Cardinality({"pelanggan", "masuk", "lunas", "belum"}) = 4
<1>1. IsFiniteSet({}) /\ Cardinality({}) = 0 BY FS_EmptySet
<1>2. IsFiniteSet({"pelanggan"}) /\ Cardinality({"pelanggan"}) = 1
  <2>1. {"pelanggan"} = {} \cup {"pelanggan"} /\ "pelanggan" \notin {} OBVIOUS
  <2> QED BY <1>1, <2>1, FS_AddElement
<1>3. IsFiniteSet({"pelanggan", "masuk"}) /\ Cardinality({"pelanggan", "masuk"}) = 2
  <2>1. /\ {"pelanggan", "masuk"} = {"pelanggan"} \cup {"masuk"}
        /\ "masuk" \notin {"pelanggan"}
    OBVIOUS
  <2> QED BY <1>2, <2>1, FS_AddElement
<1>4. IsFiniteSet({"pelanggan", "masuk", "lunas"})
      /\ Cardinality({"pelanggan", "masuk", "lunas"}) = 3
  <2>1. /\ {"pelanggan", "masuk", "lunas"} = {"pelanggan", "masuk"} \cup {"lunas"}
        /\ "lunas" \notin {"pelanggan", "masuk"}
    OBVIOUS
  <2> QED BY <1>3, <2>1, FS_AddElement
<1>5. IsFiniteSet({"pelanggan", "masuk", "lunas", "belum"})
      /\ Cardinality({"pelanggan", "masuk", "lunas", "belum"}) = 4
  <2>1. /\ {"pelanggan", "masuk", "lunas", "belum"}
             = {"pelanggan", "masuk", "lunas"} \cup {"belum"}
        /\ "belum" \notin {"pelanggan", "masuk", "lunas"}
    OBVIOUS
  <2> QED BY <1>4, <2>1, FS_AddElement
<1> QED BY <1>1, <1>2, <1>3, <1>4, <1>5

\* The same for admin and petugas.
LEMMA KartuPetugas ==
    /\ Cardinality({}) = 0
    /\ Cardinality({"pelanggan"}) = 1
    /\ Cardinality({"pelanggan", "pakai"}) = 2
    /\ Cardinality({"pelanggan", "pakai", "tercatat"}) = 3
<1>1. IsFiniteSet({}) /\ Cardinality({}) = 0 BY FS_EmptySet
<1>2. IsFiniteSet({"pelanggan"}) /\ Cardinality({"pelanggan"}) = 1
  <2>1. {"pelanggan"} = {} \cup {"pelanggan"} /\ "pelanggan" \notin {} OBVIOUS
  <2> QED BY <1>1, <2>1, FS_AddElement
<1>3. IsFiniteSet({"pelanggan", "pakai"}) /\ Cardinality({"pelanggan", "pakai"}) = 2
  <2>1. /\ {"pelanggan", "pakai"} = {"pelanggan"} \cup {"pakai"}
        /\ "pakai" \notin {"pelanggan"}
    OBVIOUS
  <2> QED BY <1>2, <2>1, FS_AddElement
<1>4. IsFiniteSet({"pelanggan", "pakai", "tercatat"})
      /\ Cardinality({"pelanggan", "pakai", "tercatat"}) = 3
  <2>1. /\ {"pelanggan", "pakai", "tercatat"} = {"pelanggan", "pakai"} \cup {"tercatat"}
        /\ "tercatat" \notin {"pelanggan", "pakai"}
    OBVIOUS
  <2> QED BY <1>3, <2>1, FS_AddElement
<1> QED BY <1>1, <1>2, <1>3, <1>4

\* The tables are finite, and so is what the statements count.
LEMMA TabelHingga ==
    ASSUME Kerja, IsFiniteSet(DOMAIN login)
    PROVE  /\ IsFiniteSet(DOMAIN pemakaian) /\ IsFiniteSet(Warga)
           /\ \A b, st : IsFiniteSet(BarisBulan(b)) /\ IsFiniteSet(Berstatus(b, st))
<1>1. IsFiniteSet(DOMAIN pemakaian)
  <2>1. no_akhir \in Nat /\ DOMAIN pemakaian \in SUBSET (1..no_akhir)
    BY DEF Kerja, TypeOK, TipeBasis
  <2>2. IsFiniteSet(1..no_akhir) BY <2>1, FS_Interval
  <2> QED BY <2>1, <2>2, FS_Subset
<1>2. IsFiniteSet(Warga)
  <2>1. Warga \in SUBSET DOMAIN login BY DEF Warga
  <2> QED BY <2>1, FS_Subset
<1>3. ASSUME NEW b, NEW st PROVE IsFiniteSet(BarisBulan(b)) /\ IsFiniteSet(Berstatus(b, st))
  <2>1. BarisBulan(b) \in SUBSET DOMAIN pemakaian BY DEF BarisBulan
  <2>2. Berstatus(b, st) \in SUBSET DOMAIN pemakaian BY DEF BarisBulan, Berstatus
  <2> QED BY <1>1, <2>1, <2>2, FS_Subset
<1> QED BY <1>1, <1>2, <1>3

\* Every row of a month is paid, to be paid, or without a status.
LEMMA StatusBulan ==
    ASSUME Kerja, IsFiniteSet(DOMAIN login), NEW b
    PROVE  Cardinality(BarisBulan(b) \ Berstatus(b, "KOSONG"))
             = Cardinality(Berstatus(b, "LUNAS")) + Cardinality(Berstatus(b, "BELUM LUNAS"))
<1> DEFINE A == Berstatus(b, "LUNAS")
           B == Berstatus(b, "BELUM LUNAS")
<1>1. BarisBulan(b) \ Berstatus(b, "KOSONG") = A \cup B
  <2>1. \A n \in DOMAIN pemakaian : pemakaian[n].status \in {"LUNAS", "BELUM LUNAS", "KOSONG"}
    BY DEF Kerja, TypeOK, TipeBasis, Baris, StatusBayar
  <2> QED BY <2>1 DEF BarisBulan, Berstatus
<1>2. A \cap B = {} BY DEF Berstatus
<1>3. IsFiniteSet(A) /\ IsFiniteSet(B) BY TabelHingga
<1>4. Cardinality(A \cup B) = Cardinality(A) + Cardinality(B) - Cardinality(A \cap B)
  BY <1>3, FS_Union
<1>5. Cardinality(A \cap B) = 0 BY <1>2, FS_EmptySet
<1>6. Cardinality(A) \in Nat /\ Cardinality(B) \in Nat BY <1>3, FS_CardinalityType
<1> DEFINE C == BarisBulan(b) \ Berstatus(b, "KOSONG")
<1>7. C = A \cup B BY <1>1
<1> HIDE DEF A, B, C
<1>8. Cardinality(C) = Cardinality(A) + Cardinality(B) BY <1>4, <1>5, <1>6, <1>7
<1> QED BY <1>8 DEF A, B, C

-----------------------------------------------------------------------------
(* The invariant of the dashboard *)

Dibaca(q) == {k \in Kolom : ajax[q].hasil[k] # Tiada}
Melayani(q) == ajax[q].st \in {"jalan", "kirim", "selesai"}

\* The columns a summary for the role has read so far, and in the end.
Awalan(lv) ==
    CASE lv = "warga"     -> {{}, {"milik"}}
      [] lv = "bendahara" -> {{}, {"pelanggan"}, {"pelanggan", "masuk"},
                              {"pelanggan", "masuk", "lunas"},
                              {"pelanggan", "masuk", "lunas", "belum"}}
      [] OTHER            -> {{}, {"pelanggan"}, {"pelanggan", "pakai"},
                              {"pelanggan", "pakai", "tercatat"}}
Penuh(lv) ==
    CASE lv = "warga"     -> {"milik"}
      [] lv = "bendahara" -> {"pelanggan", "masuk", "lunas", "belum"}
      [] OTHER            -> {"pelanggan", "pakai", "tercatat"}

BacaUrut(q) ==
    /\ ajax[q].st = "antre" => Dibaca(q) = {}
    /\ Melayani(q) /\ ajax[q].jenis # "summary" => Dibaca(q) = {}
    /\ Melayani(q) /\ ajax[q].jenis = "summary" =>
          /\ ajax[q].level \in Level
          /\ Dibaca(q) \in Awalan(ajax[q].level)
          /\ ajax[q].st # "jalan" => Dibaca(q) = Penuh(ajax[q].level)

\* Half of what bendahara's boxes show is as far from the table as was written
\* since, and so is their sum.
LunasDekat(q) ==
    Melayani(q) /\ ajax[q].jenis = "summary" /\ ajax[q].level = "bendahara" =>
        LET b == ajax[q].bulan  h == ajax[q].hasil IN
        /\ "lunas" \in Dibaca(q) /\ "belum" \notin Dibaca(q) =>
              Selisih(h["lunas"], Cardinality(Berstatus(b, "LUNAS"))) <= usik[q]
        /\ "belum" \in Dibaca(q) =>
              Selisih(h["lunas"] + h["belum"],
                      Cardinality(BarisBulan(b) \ Berstatus(b, "KOSONG"))) <= usik[q]

\* The same for the customers and the recorded rows.
TercatatDekat(q) ==
    Melayani(q) /\ ajax[q].jenis = "summary" /\ ajax[q].level \in {"admin", "petugas"} =>
        LET b == ajax[q].bulan  h == ajax[q].hasil IN
        /\ "pelanggan" \in Dibaca(q) /\ "tercatat" \notin Dibaca(q) =>
              Selisih(h["pelanggan"], Cardinality(Warga)) <= usik[q]
        /\ "tercatat" \in Dibaca(q) =>
              Selisih(h["pelanggan"] - h["tercatat"],
                      Cardinality(Warga) - Cardinality(BarisBulan(b))) <= usik[q]

\* What the page shows is an answer of that kind.
TampakSah ==
    \A j \in Jenis : tampak[j] # 0 =>
        /\ tampak[j] \in DOMAIN ajax
        /\ ajax[tampak[j]].st = "selesai" /\ ajax[tampak[j]].jenis = j

TipePapan ==
    /\ IsFiniteSet(DOMAIN login)
    /\ akun \in Penonton /\ pilih \in BulanPilih
    /\ ajax \in Seq(Ajax)
    /\ \E k \in 1..MaxPilih : Len(ajax) = Cardinality(Jenis) * k
    /\ \A q \in DOMAIN ajax : Melayani(q) => ajax[q].level \in Level
    /\ tampak \in [Jenis -> 0..Len(ajax)]
    /\ usik \in [DOMAIN ajax -> Nat]

Papan ==
    /\ Kerja /\ TipePapan /\ TampakSah
    /\ \A q \in DOMAIN ajax : BacaUrut(q) /\ LunasDekat(q) /\ TercatatDekat(q)

-----------------------------------------------------------------------------
(* Requests *)

\* A choice sends one request of each kind.
LEMMA KirimanIsi ==
    ASSUME NEW b \in BulanPilih
    PROVE  LET k == Kiriman(b) IN
           /\ k \in Seq(Ajax) /\ Len(k) = Cardinality(Jenis) /\ Cardinality(Jenis) \in 0..2
           /\ \A i \in 1..Len(k) : k[i].st = "antre" /\ k[i].hasil = Kosongan
<1> DEFINE j == SetToSeq(Jenis)
           c == Cardinality(Jenis)
           k == Kiriman(b)
<1>1. IsFiniteSet(Jenis) /\ c \in 0..2
  <2>1. {"summary", "semua_chart"} = {"summary"} \cup {"semua_chart"} OBVIOUS
  <2>2. IsFiniteSet({"summary", "semua_chart"}) /\ Cardinality({"summary", "semua_chart"}) = 2
    <3>1. IsFiniteSet({"summary"}) /\ Cardinality({"summary"}) = 1 BY FS_Singleton
    <3> QED BY <2>1, <3>1, FS_AddElement
  <2>3. IsFiniteSet(Jenis) /\ c <= 2 BY <2>2, AsumsiDasbor, FS_Subset
  <2> QED BY <2>3, FS_CardinalityType
<1>2. j \in [1..c -> Jenis]
  <2>1. \E f \in [1..c -> Jenis] : IsInjective(f)
    BY <1>1, FS_CardinalityType DEF ExistsBijection, Bijection, Injection
  <2> QED BY <2>1 DEF SetToSeq
<1>3. k = [i \in 1..c |->
            [jenis |-> j[i], bulan |-> b, st |-> "antre", level |-> Tiada, hasil |-> Kosongan]]
  BY <1>2 DEF Kiriman
<1>4. Kosongan \in [Kolom -> Int \cup {Tiada}] BY DEF Kosongan
<1> HIDE DEF j, k, c
<1>5. k \in [1..c -> Ajax] BY <1>2, <1>3, <1>4 DEF Ajax, StAjax
<1>6. k \in Seq(Ajax) /\ Len(k) = c BY <1>1, <1>5
<1>7. \A i \in 1..c : k[i].st = "antre" /\ k[i].hasil = Kosongan BY <1>3
<1> QED BY <1>1, <1>6, <1>7 DEF c, k

\* A request with empty columns has read nothing.
LEMMA KosongDibaca ==
    ASSUME NEW q, ajax[q].hasil = Kosongan PROVE Dibaca(q) = {}
BY DEF Dibaca, Kosongan

\* A request that has read something counts the writes of others.
LEMMA TerbacaNol ==
    ASSUME NEW q
    PROVE  Terbaca(q) \in Nat /\ (Dibaca(q) # {} => Terbaca(q) > 0)
<1>1. Dibaca(q) \in SUBSET Kolom /\ Terbaca(q) = Cardinality(Dibaca(q))
  BY DEF Dibaca, Terbaca
<1>2. IsFiniteSet(Dibaca(q)) BY <1>1, KolomHingga, FS_Subset
<1>3. Cardinality(Dibaca(q)) \in Nat BY <1>2, FS_CardinalityType
<1>4. Cardinality(Dibaca(q)) = 0 <=> Dibaca(q) = {} BY <1>2, FS_EmptySet
<1> QED BY <1>1, <1>3, <1>4

\* The next statement of a summary, by what it has read.
BacaLanjut(lv, R, k) ==
    \/ lv = "warga" /\ R = {} /\ k = "milik"
    \/ lv \in Level \ {"warga"} /\ R = {} /\ k = "pelanggan"
    \/ lv = "bendahara" /\ R = {"pelanggan"} /\ k = "masuk"
    \/ lv = "bendahara" /\ R = {"pelanggan", "masuk"} /\ k = "lunas"
    \/ lv = "bendahara" /\ R = {"pelanggan", "masuk", "lunas"} /\ k = "belum"
    \/ lv \in {"admin", "petugas"} /\ R = {"pelanggan"} /\ k = "pakai"
    \/ lv \in {"admin", "petugas"} /\ R = {"pelanggan", "pakai"} /\ k = "tercatat"

\* By what has been read, a role's next statement, or the end.
LEMMA PerintahBerikut ==
    ASSUME NEW lv \in Level, NEW R \in Awalan(lv)
    PROVE  /\ Cardinality(R) < Len(Perintah(lv)) =>
                 BacaLanjut(lv, R, Perintah(lv)[Cardinality(R) + 1])
           /\ Cardinality(R) = Len(Perintah(lv)) => R = Penuh(lv)
<1>1. CASE lv = "warga"
  <2>1. Perintah(lv) = <<"milik">> /\ R \in {{}, {"milik"}} /\ Penuh(lv) = {"milik"}
    BY <1>1 DEF Perintah, Awalan, Penuh
  <2>2. Cardinality({}) = 0 /\ Cardinality({"milik"}) = 1 BY FS_EmptySet, FS_Singleton
  <2>3. Len(<<"milik">>) = 1 /\ <<"milik">>[1] = "milik" OBVIOUS
  <2>4. CASE R = {} BY <1>1, <2>1, <2>2, <2>3, <2>4 DEF BacaLanjut
  <2>5. CASE R = {"milik"} BY <1>1, <2>1, <2>2, <2>3, <2>5
  <2> QED BY <2>1, <2>4, <2>5
<1>2. CASE lv = "bendahara"
  <2> DEFINE a == "pelanggan"  b == "masuk"  c == "lunas"  d == "belum"
             p == <<"pelanggan", "masuk", "lunas", "belum">>
  <2>1. /\ Perintah(lv) = p /\ R \in {{}, {a}, {a, b}, {a, b, c}, {a, b, c, d}}
        /\ Penuh(lv) = {a, b, c, d}
    BY <1>2 DEF Perintah, Awalan, Penuh
  <2>2. /\ Cardinality({}) = 0 /\ Cardinality({a}) = 1 /\ Cardinality({a, b}) = 2
        /\ Cardinality({a, b, c}) = 3 /\ Cardinality({a, b, c, d}) = 4
    BY KartuBendahara
  <2>3. Len(p) = 4 /\ p[1] = a /\ p[2] = b /\ p[3] = c /\ p[4] = d OBVIOUS
  <2> HIDE DEF p
  <2>4. CASE R = {} BY <1>2, <2>1, <2>2, <2>3, <2>4 DEF BacaLanjut, Level
  <2>5. CASE R = {a} BY <1>2, <2>1, <2>2, <2>3, <2>5 DEF BacaLanjut
  <2>6. CASE R = {a, b} BY <1>2, <2>1, <2>2, <2>3, <2>6 DEF BacaLanjut
  <2>7. CASE R = {a, b, c} BY <1>2, <2>1, <2>2, <2>3, <2>7 DEF BacaLanjut
  <2>8. CASE R = {a, b, c, d} BY <1>2, <2>1, <2>2, <2>3, <2>8
  <2> QED BY <2>1, <2>4, <2>5, <2>6, <2>7, <2>8
<1>3. CASE lv \in {"admin", "petugas"}
  <2> DEFINE a == "pelanggan"  b == "pakai"  c == "tercatat"
             p == <<"pelanggan", "pakai", "tercatat">>
  <2>1. /\ Perintah(lv) = p /\ R \in {{}, {a}, {a, b}, {a, b, c}}
        /\ Penuh(lv) = {a, b, c}
    BY <1>3 DEF Perintah, Awalan, Penuh
  <2>2. /\ Cardinality({}) = 0 /\ Cardinality({a}) = 1 /\ Cardinality({a, b}) = 2
        /\ Cardinality({a, b, c}) = 3
    BY KartuPetugas
  <2>3. Len(p) = 3 /\ p[1] = a /\ p[2] = b /\ p[3] = c OBVIOUS
  <2> HIDE DEF p
  <2>4. CASE R = {} BY <1>3, <2>1, <2>2, <2>3, <2>4 DEF BacaLanjut, Level
  <2>5. CASE R = {a} BY <1>3, <2>1, <2>2, <2>3, <2>5 DEF BacaLanjut
  <2>6. CASE R = {a, b} BY <1>3, <2>1, <2>2, <2>3, <2>6 DEF BacaLanjut
  <2>7. CASE R = {a, b, c} BY <1>3, <2>1, <2>2, <2>3, <2>7
  <2> QED BY <2>1, <2>4, <2>5, <2>6, <2>7
<1> QED BY <1>1, <1>2, <1>3 DEF Level

-----------------------------------------------------------------------------
(* Steps of one request *)

\* q changes, and no table, no other request and nothing the request is for.
Berganti(q) ==
    /\ UNCHANGED vars /\ akun' = akun /\ pilih' = pilih
    /\ ajax' \in Seq(Ajax) /\ Len(ajax') = Len(ajax) /\ DOMAIN ajax' = DOMAIN ajax
    /\ \A y \in DOMAIN ajax \ {q} : ajax'[y] = ajax[y]
    /\ ajax'[q].jenis = ajax[q].jenis /\ ajax'[q].bulan = ajax[q].bulan

\* The requests are numbered from 1.
LEMMA NomorAjax ==
    ASSUME TipePapan
    PROVE  /\ Len(ajax) \in Nat /\ DOMAIN ajax = 1..Len(ajax)
           /\ \A q \in DOMAIN ajax : ajax[q] \in Ajax
BY LenProperties DEF TipePapan

\* A step that gives q another record.
LEMMA GantiSatu ==
    ASSUME TipePapan, NEW q \in DOMAIN ajax, NEW r \in Ajax, ajax' = [ajax EXCEPT ![q] = r],
           r.jenis = ajax[q].jenis, r.bulan = ajax[q].bulan,
           UNCHANGED <<vars, akun, pilih>>
    PROVE  Berganti(q) /\ ajax'[q] = r
<1>1. ajax \in Seq(Ajax) /\ q \in 1..Len(ajax) BY NomorAjax DEF TipePapan
<1>2. ajax' \in Seq(Ajax) /\ Len(ajax') = Len(ajax) BY <1>1, ExceptSeq
<1>3. DOMAIN ajax' = DOMAIN ajax /\ ajax'[q] = r
      /\ \A y \in DOMAIN ajax \ {q} : ajax'[y] = ajax[y]
  OBVIOUS
<1> QED BY <1>2, <1>3 DEF Berganti

\* A step of an open request q keeps what is known of the others, and of the
\* page.
LEMMA GantiPapan ==
    ASSUME Papan, NEW q \in DOMAIN ajax, Berganti(q), Terbuka(q),
           \/ ajax'[q].st # "selesai" /\ tampak' = tampak
           \/ ajax'[q].st = "selesai" /\ tampak' = [tampak EXCEPT ![ajax[q].jenis] = q],
           usik' \in [DOMAIN ajax -> Nat], \A y \in DOMAIN ajax \ {q} : usik'[y] = usik[y],
           Melayani(q)' => ajax'[q].level \in Level,
           BacaUrut(q)', LunasDekat(q)', TercatatDekat(q)'
    PROVE  Papan'
<1>1. /\ Kerja /\ TipePapan /\ TampakSah
      /\ \A y \in DOMAIN ajax : BacaUrut(y) /\ LunasDekat(y) /\ TercatatDekat(y)
  BY DEF Papan
<1>2. Kerja' BY <1>1, LangkahKerja DEF Berganti
<1>3. login' = login /\ pemakaian' = pemakaian BY DEF Berganti, vars
<1>4. DOMAIN ajax = 1..Len(ajax) /\ Len(ajax) \in Nat /\ ajax[q].jenis \in Jenis
  BY <1>1, NomorAjax DEF Ajax
<1>5. \A y \in DOMAIN ajax : ajax'[y].jenis = ajax[y].jenis
  BY DEF Berganti
<1>6. TipePapan'
  <2>1. tampak' \in [Jenis -> 0..Len(ajax)]
    <3>1. tampak \in [Jenis -> 0..Len(ajax)] BY <1>1 DEF TipePapan
    <3>2. q \in 0..Len(ajax) BY <1>4
    <3>3. [tampak EXCEPT ![ajax[q].jenis] = q] \in [Jenis -> 0..Len(ajax)]
      BY <3>1, <3>2
    <3> QED BY <3>1, <3>3
  <2>2. \A y \in DOMAIN ajax' : Melayani(y)' => ajax'[y].level \in Level
    BY <1>1 DEF TipePapan, Melayani, Berganti
  <2> QED BY <1>1, <1>3, <2>1, <2>2 DEF TipePapan, Berganti
<1>7. TampakSah'
  <2> SUFFICES ASSUME NEW j \in Jenis, tampak'[j] # 0
               PROVE  /\ tampak'[j] \in DOMAIN ajax
                      /\ ajax'[tampak'[j]].st = "selesai" /\ ajax'[tampak'[j]].jenis = j
    BY DEF TampakSah, Berganti
  <2>1. CASE ajax'[q].st = "selesai" /\ j = ajax[q].jenis
    <3>1. tampak'[j] = q BY <1>1, <2>1 DEF TipePapan
    <3> QED BY <1>5, <2>1, <3>1
  <2>2. CASE ~(ajax'[q].st = "selesai" /\ j = ajax[q].jenis)
    <3>1. tampak'[j] = tampak[j] BY <1>1, <2>2 DEF TipePapan
    <3>2. /\ tampak[j] \in DOMAIN ajax
          /\ ajax[tampak[j]].st = "selesai" /\ ajax[tampak[j]].jenis = j
      BY <1>1, <3>1 DEF TampakSah
    <3>3. tampak[j] # q BY <3>2 DEF Terbuka
    <3> QED BY <3>1, <3>2, <3>3 DEF Berganti
  <2> QED BY <2>1, <2>2
<1>9. ASSUME NEW y \in DOMAIN ajax', y # q
      PROVE  BacaUrut(y)' /\ LunasDekat(y)' /\ TercatatDekat(y)'
  <2>1. y \in DOMAIN ajax /\ ajax'[y] = ajax[y] /\ usik'[y] = usik[y] BY <1>9 DEF Berganti
  <2>2. BacaUrut(y) /\ LunasDekat(y) /\ TercatatDekat(y) BY <1>1, <2>1
  <2>3. Dibaca(y)' = Dibaca(y) /\ Melayani(y)' = Melayani(y) BY <2>1 DEF Dibaca, Melayani
  <2>4. BacaUrut(y)' BY <2>1, <2>2, <2>3 DEF BacaUrut
  <2>5. LunasDekat(y)'
    BY <1>3, <2>1, <2>2, <2>3 DEF LunasDekat, Berstatus, BarisBulan
  <2>6. TercatatDekat(y)'
    BY <1>3, <2>1, <2>2, <2>3 DEF TercatatDekat, Warga, BarisBulan
  <2> QED BY <2>4, <2>5, <2>6
<1>10. \A y \in DOMAIN ajax' : BacaUrut(y)' /\ LunasDekat(y)' /\ TercatatDekat(y)'
  BY <1>9
<1> QED BY <1>2, <1>6, <1>7, <1>10 DEF Papan

\* A request that has read nothing, or serves no more, has nothing to be near.
LEMMA TanpaBaca ==
    ASSUME NEW q, (Dibaca(q) = {} \/ ~Melayani(q))',
           (ajax[q].st # "antre" \/ Dibaca(q) = {})',
           (Melayani(q) => ajax[q].st = "jalan" /\ ajax[q].level \in Level)'
    PROVE  BacaUrut(q)' /\ LunasDekat(q)' /\ TercatatDekat(q)'
<1>1. BacaUrut(q)' BY DEF BacaUrut, Awalan, Level
<1>2. LunasDekat(q)' BY DEF LunasDekat
<1>3. TercatatDekat(q)' BY DEF TercatatDekat
<1> QED BY <1>1, <1>2, <1>3

\* session_start() returns and the gate looks the account up.
LEMMA MasukPapan ==
    ASSUME Papan, NEW q \in DOMAIN ajax, AjaxMasuk(q) PROVE Papan'
<1>1. TipePapan /\ Kerja /\ BacaUrut(q) /\ ajax[q] \in Ajax
  BY NomorAjax DEF Papan
<1> DEFINE a == ajax[q]
<1>2. PICK r \in Ajax :
        /\ ajax' = [ajax EXCEPT ![q] = r]
        /\ r.jenis = a.jenis /\ r.bulan = a.bulan /\ r.hasil = a.hasil
        /\ \/ r.st = "jalan" /\ r.level \in Level
           \/ r.st = "gagal"
  <2>1. CASE akun \in DOMAIN login
    <3>. PICK l : l = login[akun].level OBVIOUS
    <3>1. l \in Level
      BY <1>1, <2>1 DEF Kerja, TypeOK, TipeBasis, Pengguna
    <3> DEFINE r == [a EXCEPT !.st = "jalan", !.level = l]
    <3>2. ajax' = [ajax EXCEPT ![q] = r] BY <2>1 DEF AjaxMasuk
    <3>3. r \in Ajax BY <1>1, <3>1 DEF Ajax, StAjax
    <3>4. /\ r.jenis = a.jenis /\ r.bulan = a.bulan
          /\ r.hasil = a.hasil /\ r.st = "jalan" /\ r.level = l
      BY <1>1 DEF Ajax
    <3> HIDE DEF r
    <3> QED BY <3>1, <3>2, <3>3, <3>4
  <2>2. CASE akun \notin DOMAIN login
    <3> DEFINE r == [a EXCEPT !.st = "gagal"]
    <3>2. ajax' = [ajax EXCEPT ![q] = r] BY <2>2 DEF AjaxMasuk
    <3>3. r \in Ajax BY <1>1 DEF Ajax, StAjax
    <3>4. /\ r.jenis = a.jenis /\ r.bulan = a.bulan
          /\ r.hasil = a.hasil /\ r.st = "gagal"
      BY <1>1 DEF Ajax
    <3> HIDE DEF r
    <3> QED BY <3>2, <3>3, <3>4
  <2> QED BY <2>1, <2>2
<1>3. Berganti(q) /\ ajax'[q] = r BY <1>1, <1>2, GantiSatu DEF AjaxMasuk
<1>4. a.st = "antre" /\ tampak' = tampak /\ usik' = usik /\ Terbuka(q)
  BY DEF AjaxMasuk, Terbuka
<1>5. Dibaca(q)' = {} BY <1>1, <1>2, <1>3, <1>4 DEF BacaUrut, Dibaca
<1>6. BacaUrut(q)' /\ LunasDekat(q)' /\ TercatatDekat(q)'
  BY <1>2, <1>3, <1>5, TanpaBaca DEF Melayani
<1>7. usik' \in [DOMAIN ajax -> Nat] BY <1>1, <1>4 DEF TipePapan
<1> QED BY <1>2, <1>3, <1>4, <1>6, <1>7, GantiPapan DEF Melayani

\* The answer is shown: it keeps what it says.
LEMMA TibaPapan ==
    ASSUME Papan, NEW q \in DOMAIN ajax, AjaxTiba(q) PROVE Papan'
<1>1. /\ TipePapan /\ Kerja /\ BacaUrut(q) /\ LunasDekat(q) /\ TercatatDekat(q)
      /\ ajax[q] \in Ajax
  BY NomorAjax DEF Papan
<1> DEFINE a == ajax[q]
<1>2. PICK r \in Ajax :
        /\ ajax' = [ajax EXCEPT ![q] = r]
        /\ r.jenis = a.jenis /\ r.bulan = a.bulan /\ r.st = "selesai"
        /\ r.level = a.level /\ r.hasil = a.hasil
  <2> DEFINE r == [a EXCEPT !.st = "selesai"]
  <2>1. ajax' = [ajax EXCEPT ![q] = r] BY DEF AjaxTiba
  <2>2. r \in Ajax BY <1>1 DEF Ajax, StAjax
  <2>3. /\ r.jenis = a.jenis /\ r.bulan = a.bulan /\ r.st = "selesai"
        /\ r.level = a.level /\ r.hasil = a.hasil
    BY <1>1 DEF Ajax
  <2> HIDE DEF r
  <2> QED BY <2>1, <2>2, <2>3
<1>3. Berganti(q) /\ ajax'[q] = r BY <1>1, <1>2, GantiSatu DEF AjaxTiba
<1>4. a.st = "kirim" /\ usik' = usik /\ Terbuka(q) /\ Melayani(q)
  BY DEF AjaxTiba, Terbuka, Melayani
<1>5. Dibaca(q)' = Dibaca(q) BY <1>2, <1>3 DEF Dibaca
<1>6. login' = login /\ pemakaian' = pemakaian BY <1>3 DEF Berganti, vars
<1>7. BacaUrut(q)' BY <1>1, <1>2, <1>3, <1>4, <1>5 DEF BacaUrut
<1>8. LunasDekat(q)'
  BY <1>1, <1>2, <1>3, <1>4, <1>5, <1>6 DEF LunasDekat, Berstatus, BarisBulan
<1>9. TercatatDekat(q)'
  BY <1>1, <1>2, <1>3, <1>4, <1>5, <1>6 DEF TercatatDekat, Warga, BarisBulan
<1>10. usik' \in [DOMAIN ajax -> Nat] /\ a.level \in Level
  BY <1>1, <1>4 DEF TipePapan
<1>11. tampak' = [tampak EXCEPT ![ajax[q].jenis] = q] BY DEF AjaxTiba
<1> QED BY <1>2, <1>3, <1>4, <1>7, <1>8, <1>9, <1>10, <1>11, GantiPapan

\* A death: what had been read is forgotten.
LEMMA MatiPapan ==
    ASSUME Papan, NEW q \in DOMAIN ajax, AjaxMati(q) PROVE Papan'
<1>1. TipePapan /\ Kerja /\ ajax[q] \in Ajax
  BY NomorAjax DEF Papan
<1> DEFINE a == ajax[q]
<1>2. PICK r \in Ajax :
        /\ ajax' = [ajax EXCEPT ![q] = r]
        /\ r.jenis = a.jenis /\ r.bulan = a.bulan /\ r.st = "gagal"
  <2> DEFINE r == [a EXCEPT !.st = "gagal", !.hasil = Kosongan]
  <2>1. ajax' = [ajax EXCEPT ![q] = r] BY DEF AjaxMati
  <2>2. Kosongan \in [Kolom -> Int \cup {Tiada}] BY DEF Kosongan
  <2>3. r \in Ajax
    <3> HIDE DEF Kosongan
    <3> QED BY <1>1, <2>2 DEF Ajax, StAjax
  <2>4. r.jenis = a.jenis /\ r.bulan = a.bulan /\ r.st = "gagal" BY <1>1 DEF Ajax
  <2> HIDE DEF r
  <2> QED BY <2>1, <2>3, <2>4
<1>3. Berganti(q) /\ ajax'[q] = r BY <1>1, <1>2, GantiSatu DEF AjaxMati
<1>4. Terbuka(q) /\ tampak' = tampak /\ usik' = [usik EXCEPT ![q] = 0]
  BY DEF AjaxMati, Terbuka
<1>5. BacaUrut(q)' /\ LunasDekat(q)' /\ TercatatDekat(q)'
  BY <1>2, <1>3, TanpaBaca DEF Melayani
<1>6. usik' \in [DOMAIN ajax -> Nat] /\ \A y \in DOMAIN ajax \ {q} : usik'[y] = usik[y]
  BY <1>1, <1>4 DEF TipePapan
<1> QED BY <1>2, <1>3, <1>4, <1>5, <1>6, GantiPapan DEF Melayani

\* The answer leaves when every statement has been read.
LEMMA JawabPapan ==
    ASSUME Papan, NEW q \in DOMAIN ajax, AjaxJawab(q) PROVE Papan'
<1>1. /\ TipePapan /\ Kerja /\ BacaUrut(q) /\ LunasDekat(q) /\ TercatatDekat(q)
      /\ ajax[q] \in Ajax
  BY NomorAjax DEF Papan
<1> DEFINE a == ajax[q]
<1>2. PICK r \in Ajax :
        /\ ajax' = [ajax EXCEPT ![q] = r]
        /\ r.jenis = a.jenis /\ r.bulan = a.bulan /\ r.st = "kirim"
        /\ r.level = a.level /\ r.hasil = a.hasil
  <2> DEFINE r == [a EXCEPT !.st = "kirim"]
  <2>1. ajax' = [ajax EXCEPT ![q] = r] BY DEF AjaxJawab
  <2>2. r \in Ajax BY <1>1 DEF Ajax, StAjax
  <2>3. /\ r.jenis = a.jenis /\ r.bulan = a.bulan /\ r.st = "kirim"
        /\ r.level = a.level /\ r.hasil = a.hasil
    BY <1>1 DEF Ajax
  <2> HIDE DEF r
  <2> QED BY <2>1, <2>2, <2>3
<1>3. Berganti(q) /\ ajax'[q] = r BY <1>1, <1>2, GantiSatu DEF AjaxJawab
<1>4. a.st = "jalan" /\ tampak' = tampak /\ usik' = usik /\ Terbuka(q) /\ Melayani(q)
  BY DEF AjaxJawab, Terbuka, Melayani
<1>5. Dibaca(q)' = Dibaca(q) BY <1>2, <1>3 DEF Dibaca
<1>6. login' = login /\ pemakaian' = pemakaian BY <1>3 DEF Berganti, vars
<1>7. BacaUrut(q)'
  <2>1. CASE a.jenis = "summary"
    <3>1. a.level \in Level /\ Dibaca(q) \in Awalan(a.level)
      BY <1>1, <1>4, <2>1 DEF BacaUrut
    <3>2. Cardinality(Dibaca(q)) = Len(Perintah(a.level))
      BY <2>1 DEF AjaxJawab, Urutan, Terbaca, Dibaca
    <3>3. Dibaca(q) = Penuh(a.level) BY <3>1, <3>2, PerintahBerikut
    <3> QED BY <1>2, <1>3, <1>5, <2>1, <3>1, <3>3 DEF BacaUrut
  <2>2. CASE a.jenis # "summary"
    BY <1>1, <1>2, <1>3, <1>4, <1>5, <2>2 DEF BacaUrut
  <2> QED BY <2>1, <2>2
<1>8. LunasDekat(q)'
  BY <1>1, <1>2, <1>3, <1>4, <1>5, <1>6 DEF LunasDekat, Berstatus, BarisBulan
<1>9. TercatatDekat(q)'
  BY <1>1, <1>2, <1>3, <1>4, <1>5, <1>6 DEF TercatatDekat, Warga, BarisBulan
<1>10. usik' \in [DOMAIN ajax -> Nat] /\ a.level \in Level
  BY <1>1, <1>4 DEF TipePapan
<1> QED BY <1>2, <1>3, <1>4, <1>7, <1>8, <1>9, <1>10, GantiPapan

\* What a statement returns is a number.
LEMMA NilaiBulat ==
    ASSUME Kerja, IsFiniteSet(DOMAIN login), NEW k \in Kolom \ {"milik"}, NEW b
    PROVE  Nilai(k, b) \in Int
<1>1. \A n \in DOMAIN pemakaian : pemakaian[n].pakai \in Int /\ pemakaian[n].tagihan \in Int
  BY DEF Kerja, TypeOK, TipeBasis, Baris
<1>2. BarisBulan(b) \subseteq DOMAIN pemakaian BY DEF BarisBulan
<1>3. Berstatus(b, "LUNAS") \subseteq DOMAIN pemakaian BY <1>2 DEF Berstatus
<1>4. IsFiniteSet(Warga) /\ IsFiniteSet(BarisBulan(b))
      /\ \A st : IsFiniteSet(Berstatus(b, st))
  BY TabelHingga
<1>5. CASE k = "pelanggan" BY <1>4, <1>5, FS_CardinalityType DEF Nilai
<1>6. CASE k = "pakai" BY <1>1, <1>2, <1>4, <1>6, PakaiBulat DEF Nilai
<1>7. CASE k = "tercatat" BY <1>4, <1>7, FS_CardinalityType DEF Nilai, JumlahTercatat
<1>8. CASE k = "masuk" BY <1>1, <1>3, <1>4, <1>8, TagihanBulat DEF Nilai
<1>9. CASE k = "lunas" BY <1>4, <1>9, FS_CardinalityType DEF Nilai
<1>10. CASE k = "belum"
  <2>1. Nilai(k, b) = Cardinality(Berstatus(b, "BELUM LUNAS")) BY <1>10 DEF Nilai, BelumBayar
  <2>2. IsFiniteSet(Berstatus(b, "BELUM LUNAS")) BY <1>4
  <2>3. Cardinality(Berstatus(b, "BELUM LUNAS")) \in Nat BY <2>2, FS_CardinalityType
  <2>4. PICK c \in Nat : c = Cardinality(Berstatus(b, "BELUM LUNAS")) BY <2>3
  <2>5. Nilai(k, b) = c BY <2>1, <2>4
  <2> QED BY <2>5
<1> QED BY <1>5, <1>6, <1>7, <1>8, <1>9, <1>10 DEF Kolom

\* What a read does to the request: only a summary reads, it reads the column
\* that is next, and it gets a number.
LEMMA BacaSatu ==
    ASSUME Papan, NEW q \in DOMAIN ajax, AjaxBaca(q)
    PROVE  /\ ajax[q].jenis = "summary" /\ ajax[q].level \in Level
           /\ Dibaca(q) \in Awalan(ajax[q].level)
           /\ \E k \in Kolom, v \in Int :
                 /\ BacaLanjut(ajax[q].level, Dibaca(q), k)
                 /\ k # "milik" => v = Nilai(k, ajax[q].bulan)
                 /\ ajax' = [ajax EXCEPT ![q].hasil[k] = v]
<1>1. /\ TipePapan /\ Kerja /\ BacaUrut(q) /\ ajax[q] \in Ajax
      /\ IsFiniteSet(DOMAIN login)
  BY NomorAjax DEF Papan, TipePapan
<1> DEFINE a == ajax[q]
<1>2. a.st = "jalan" /\ Melayani(q) /\ Terbaca(q) < Len(Urutan(q))
  BY DEF AjaxBaca, Melayani
<1>3. a.jenis = "summary"
  <2> SUFFICES ASSUME a.jenis # "summary" PROVE FALSE
    OBVIOUS
  <2>1. Len(Urutan(q)) = 0 BY DEF Urutan
  <2> QED BY <1>2, <2>1, TerbacaNol
<1>4. a.level \in Level /\ Dibaca(q) \in Awalan(a.level) BY <1>1, <1>2, <1>3 DEF BacaUrut
<1>5. Urutan(q) = Perintah(a.level) BY <1>3 DEF Urutan
<1>6. Terbaca(q) = Cardinality(Dibaca(q)) BY DEF Terbaca, Dibaca
<1>7. PICK k : k = Urutan(q)[Terbaca(q) + 1] OBVIOUS
<1>8. BacaLanjut(a.level, Dibaca(q), k)
  BY <1>2, <1>4, <1>5, <1>6, <1>7, PerintahBerikut
<1>9. k \in Kolom BY <1>8 DEF BacaLanjut, Kolom
<1>10. PICK v \in IF k = "milik" THEN Milik(akun, a.bulan) ELSE {Nilai(k, a.bulan)} :
         ajax' = [ajax EXCEPT ![q].hasil[k] = v]
  BY <1>7 DEF AjaxBaca
<1>11. v \in Int
  <2>1. CASE k = "milik"
    <3>1. DOMAIN pemakaian \subseteq Nat BY <1>1 DEF Kerja, TypeOK, TipeBasis
    <3>2. Milik(akun, a.bulan) \subseteq Nat BY <3>1 DEF Milik, BarisBulan, BarisUser
    <3> QED BY <1>10, <2>1, <3>2
  <2>2. CASE k # "milik" BY <1>1, <1>9, <1>10, <2>2, NilaiBulat
  <2> QED BY <2>1, <2>2
<1>12. k # "milik" => v = Nilai(k, a.bulan) BY <1>10
<1> QED BY <1>3, <1>4, <1>8, <1>9, <1>10, <1>11, <1>12

\* A statement returns the number of the moment: what it adds to the error is
\* nothing.
LEMMA BacaPapan ==
    ASSUME Papan, NEW q \in DOMAIN ajax, AjaxBaca(q) PROVE Papan'
<1>1. /\ TipePapan /\ Kerja /\ BacaUrut(q) /\ LunasDekat(q) /\ TercatatDekat(q)
      /\ ajax[q] \in Ajax /\ IsFiniteSet(DOMAIN login)
  BY NomorAjax DEF Papan, TipePapan
<1> DEFINE a == ajax[q]
           R == Dibaca(q)
<1>2. a.jenis = "summary" /\ a.level \in Level /\ R \in Awalan(a.level)
  BY BacaSatu
<1>3. PICK k \in Kolom, v \in Int :
        /\ BacaLanjut(a.level, R, k)
        /\ k # "milik" => v = Nilai(k, a.bulan)
        /\ ajax' = [ajax EXCEPT ![q].hasil[k] = v]
  BY BacaSatu
<1>4. PICK r \in Ajax :
        /\ ajax' = [ajax EXCEPT ![q] = r]
        /\ r.jenis = a.jenis /\ r.bulan = a.bulan
        /\ r.st = a.st /\ r.level = a.level
        /\ r.hasil = [a.hasil EXCEPT ![k] = v]
  <2> DEFINE h == [a.hasil EXCEPT ![k] = v]
             r == [a EXCEPT !.hasil = h]
  <2>1. ajax' = [ajax EXCEPT ![q] = r] BY <1>3
  <2>2. h \in [Kolom -> Int \cup {Tiada}] BY <1>1 DEF Ajax
  <2>3. r \in Ajax
    <3> HIDE DEF h
    <3> QED BY <1>1, <2>2 DEF Ajax, StAjax
  <2>4. /\ r.jenis = a.jenis /\ r.bulan = a.bulan
        /\ r.st = a.st /\ r.level = a.level /\ r.hasil = h
    BY <1>1 DEF Ajax
  <2> HIDE DEF r
  <2> QED BY <2>1, <2>3, <2>4
<1>5. Berganti(q) /\ ajax'[q] = r BY <1>1, <1>4, GantiSatu DEF AjaxBaca
<1>6. a.st = "jalan" /\ tampak' = tampak /\ usik' = usik /\ Terbuka(q) /\ Melayani(q)
  BY DEF AjaxBaca, Terbuka, Melayani
<1>7. r.hasil[k] = v /\ \A c \in Kolom \ {k} : r.hasil[c] = a.hasil[c]
  BY <1>1, <1>4 DEF Ajax
<1>8. Dibaca(q)' = R \cup {k}
  <2>1. v # Tiada BY AsumsiDasbor
  <2> QED BY <1>5, <1>7, <2>1 DEF Dibaca
<1>9. login' = login /\ pemakaian' = pemakaian BY <1>5 DEF Berganti, vars
<1>10. BacaUrut(q)'
  <2>1. R \cup {k} \in Awalan(a.level) BY <1>3 DEF BacaLanjut, Awalan, Level
  <2> QED BY <1>2, <1>4, <1>5, <1>6, <1>8, <2>1 DEF BacaUrut
<1>11. usik[q] \in Nat /\ usik' \in [DOMAIN ajax -> Nat] BY <1>1, <1>6 DEF TipePapan
<1> DEFINE b == a.bulan
<1>12. PICK L \in Nat, B \in Nat, W \in Nat, Ct \in Nat :
         /\ L = Cardinality(Berstatus(b, "LUNAS"))
         /\ B = Cardinality(Berstatus(b, "BELUM LUNAS"))
         /\ W = Cardinality(Warga) /\ Ct = Cardinality(BarisBulan(b))
         /\ Cardinality(BarisBulan(b) \ Berstatus(b, "KOSONG")) = L + B
  <2>1. /\ IsFiniteSet(Warga) /\ IsFiniteSet(BarisBulan(b))
        /\ IsFiniteSet(Berstatus(b, "LUNAS")) /\ IsFiniteSet(Berstatus(b, "BELUM LUNAS"))
    BY <1>1, TabelHingga
  <2> QED BY <1>1, <2>1, StatusBulan, FS_CardinalityType
<1>13. "lunas" \in Kolom /\ "belum" \in Kolom /\ "pelanggan" \in Kolom /\ "tercatat" \in Kolom
  BY DEF Kolom
<1>14. a.level = "bendahara" =>
         /\ "lunas" \in R \cup {k} /\ "belum" \notin R \cup {k} =>
              Selisih(r.hasil["lunas"], L) <= usik[q]
         /\ "belum" \in R \cup {k} =>
              Selisih(r.hasil["lunas"] + r.hasil["belum"], L + B) <= usik[q]
  <2> SUFFICES ASSUME a.level = "bendahara"
               PROVE  /\ "lunas" \in R \cup {k} /\ "belum" \notin R \cup {k} =>
                           Selisih(r.hasil["lunas"], L) <= usik[q]
                      /\ "belum" \in R \cup {k} =>
                           Selisih(r.hasil["lunas"] + r.hasil["belum"], L + B) <= usik[q]
    OBVIOUS
  <2>1. CASE "lunas" \notin R /\ k # "lunas"
    <3>1. "belum" \notin R \cup {k} BY <1>3, <2>1 DEF BacaLanjut
    <3> QED BY <2>1, <3>1
  <2>2. CASE k = "lunas"
    <3>1. "belum" \notin R BY <1>3, <2>2 DEF BacaLanjut
    <3>2. r.hasil["lunas"] = L BY <1>3, <1>7, <1>12, <2>2 DEF Nilai
    <3>3. Selisih(L, L) = 0 BY DEF Selisih
    <3> QED BY <1>11, <2>2, <3>1, <3>2, <3>3
  <2>3. CASE "lunas" \in R
    <3>1. "belum" \notin R /\ k = "belum" BY <1>3, <2>3 DEF BacaLanjut
    <3>2. r.hasil["belum"] = B BY <1>3, <1>7, <1>12, <3>1 DEF Nilai, BelumBayar
    <3>3. r.hasil["lunas"] = a.hasil["lunas"] BY <1>7, <1>13, <3>1
    <3>4. Selisih(a.hasil["lunas"], L) <= usik[q]
      BY <1>1, <1>2, <1>6, <1>12, <2>3, <3>1 DEF LunasDekat
    <3>5. a.hasil["lunas"] \in Int
      <4>1. a.hasil["lunas"] # Tiada BY <2>3 DEF Dibaca
      <4> QED BY <1>1, <1>13, <4>1 DEF Ajax
    <3>6. PICK x \in Int : x = a.hasil["lunas"] BY <3>5
    <3>7. Selisih(x + B, L + B) = Selisih(x, L) BY DEF Selisih
    <3>8. Selisih(x + B, L + B) <= usik[q] BY <3>4, <3>6, <3>7
    <3> QED BY <3>1, <3>2, <3>3, <3>6, <3>8
  <2> QED BY <2>1, <2>2, <2>3
<1>15. LunasDekat(q)'
  <2>1. /\ Berstatus(ajax[q].bulan, "LUNAS")' = Berstatus(b, "LUNAS")
        /\ Berstatus(ajax[q].bulan, "KOSONG")' = Berstatus(b, "KOSONG")
        /\ BarisBulan(ajax[q].bulan)' = BarisBulan(b)
    BY <1>4, <1>5, <1>9 DEF Berstatus, BarisBulan
  <2>2. /\ Cardinality(Berstatus(ajax[q].bulan, "LUNAS"))' = L
        /\ Cardinality(BarisBulan(ajax[q].bulan) \ Berstatus(ajax[q].bulan, "KOSONG"))' = L + B
    BY <1>12, <2>1
  <2> QED BY <1>2, <1>4, <1>5, <1>6, <1>8, <1>14, <2>2 DEF LunasDekat
<1>16. a.level \in {"admin", "petugas"} =>
         /\ "pelanggan" \in R \cup {k} /\ "tercatat" \notin R \cup {k} =>
              Selisih(r.hasil["pelanggan"], W) <= usik[q]
         /\ "tercatat" \in R \cup {k} =>
              Selisih(r.hasil["pelanggan"] - r.hasil["tercatat"], W - Ct) <= usik[q]
  <2> SUFFICES ASSUME a.level \in {"admin", "petugas"}
               PROVE  /\ "pelanggan" \in R \cup {k} /\ "tercatat" \notin R \cup {k} =>
                           Selisih(r.hasil["pelanggan"], W) <= usik[q]
                      /\ "tercatat" \in R \cup {k} =>
                           Selisih(r.hasil["pelanggan"] - r.hasil["tercatat"], W - Ct) <= usik[q]
    OBVIOUS
  <2>1. CASE k = "pelanggan"
    <3>1. "tercatat" \notin R BY <1>3, <2>1 DEF BacaLanjut
    <3>2. r.hasil["pelanggan"] = W BY <1>3, <1>7, <1>12, <2>1 DEF Nilai
    <3>3. Selisih(W, W) = 0 BY DEF Selisih
    <3> QED BY <1>11, <2>1, <3>1, <3>2, <3>3
  <2>2. CASE k # "pelanggan"
    <3>1. /\ k \in {"pakai", "tercatat"} /\ "pelanggan" \in R /\ "tercatat" \notin R
      BY <1>3, <2>2 DEF BacaLanjut
    <3>2. r.hasil["pelanggan"] = a.hasil["pelanggan"] BY <1>7, <1>13, <2>2
    <3>3. Selisih(a.hasil["pelanggan"], W) <= usik[q]
      BY <1>1, <1>2, <1>6, <1>12, <3>1 DEF TercatatDekat
    <3>4. CASE k = "pakai" BY <3>1, <3>2, <3>3, <3>4
    <3>5. CASE k = "tercatat"
      <4>1. r.hasil["tercatat"] = Ct BY <1>3, <1>7, <1>12, <3>5 DEF Nilai, JumlahTercatat
      <4>2. a.hasil["pelanggan"] # Tiada BY <3>1 DEF Dibaca
      <4>3. PICK x \in Int : x = a.hasil["pelanggan"] BY <1>1, <1>13, <4>2 DEF Ajax
      <4>4. Selisih(x - Ct, W - Ct) = Selisih(x, W) BY DEF Selisih
      <4> QED BY <3>2, <3>3, <3>5, <4>1, <4>3, <4>4
    <3> QED BY <3>1, <3>4, <3>5
  <2> QED BY <2>1, <2>2
<1>17. TercatatDekat(q)'
  <2>1. Warga' = Warga /\ BarisBulan(ajax[q].bulan)' = BarisBulan(b)
    BY <1>4, <1>5, <1>9 DEF Warga, BarisBulan
  <2>2. Cardinality(Warga)' = W /\ Cardinality(BarisBulan(ajax[q].bulan))' = Ct
    BY <1>12, <2>1
  <2> QED BY <1>2, <1>4, <1>5, <1>6, <1>8, <1>16, <2>2 DEF TercatatDekat
<1> QED BY <1>2, <1>4, <1>5, <1>6, <1>10, <1>11, <1>15, <1>17, GantiPapan

\* The requests of a choice come after those that were there.
LEMMA SambunganAjax ==
    ASSUME TipePapan, NEW b \in BulanPilih, ajax' = ajax \o Kiriman(b)
    PROVE  /\ ajax' \in Seq(Ajax) /\ Len(ajax') = Len(ajax) + Cardinality(Jenis)
           /\ DOMAIN ajax' = 1..Len(ajax')
           /\ \A y \in DOMAIN ajax : y \in DOMAIN ajax' /\ ajax'[y] = ajax[y]
           /\ \A y \in DOMAIN ajax' \ DOMAIN ajax :
                 /\ y > Len(ajax) /\ ajax'[y].st = "antre" /\ ajax'[y].hasil = Kosongan
<1> DEFINE K == Kiriman(b)
<1>1. /\ K \in Seq(Ajax) /\ Len(K) = Cardinality(Jenis) /\ Cardinality(Jenis) \in 0..2
      /\ \A i \in 1..Len(K) : K[i].st = "antre" /\ K[i].hasil = Kosongan
  BY KirimanIsi
<1>2. ajax \in Seq(Ajax) /\ Len(ajax) \in Nat /\ DOMAIN ajax = 1..Len(ajax)
  BY NomorAjax DEF TipePapan
<1> HIDE DEF K
<1>3. ajax' = ajax \o K BY DEF K
<1>4. /\ ajax' \in Seq(Ajax) /\ Len(ajax') = Len(ajax) + Len(K)
      /\ \A i \in 1..Len(ajax) : ajax'[i] = ajax[i]
      /\ \A i \in 1..Len(K) : ajax'[Len(ajax) + i] = K[i]
  BY <1>1, <1>2, <1>3, ConcatProperties
<1>5. DOMAIN ajax' = 1..Len(ajax') BY <1>4, LenProperties
<1>6. \A y \in DOMAIN ajax : y \in DOMAIN ajax' /\ ajax'[y] = ajax[y]
  BY <1>1, <1>2, <1>4, <1>5
<1>7. \A y \in DOMAIN ajax' \ DOMAIN ajax :
        y > Len(ajax) /\ y - Len(ajax) \in 1..Len(K) /\ ajax'[y] = K[y - Len(ajax)]
  <2> SUFFICES ASSUME NEW y \in DOMAIN ajax' \ DOMAIN ajax
               PROVE  y > Len(ajax) /\ y - Len(ajax) \in 1..Len(K)
                      /\ ajax'[y] = K[y - Len(ajax)]
    OBVIOUS
  <2>1. y > Len(ajax) /\ y - Len(ajax) \in 1..Len(K) BY <1>1, <1>2, <1>4, <1>5
  <2>2. PICK i \in 1..Len(K) : i = y - Len(ajax) BY <2>1
  <2>3. Len(ajax) + i = y BY <1>2, <1>5, <2>2
  <2> QED BY <1>4, <2>1, <2>2, <2>3
<1>8. \A y \in DOMAIN ajax' \ DOMAIN ajax :
        y > Len(ajax) /\ ajax'[y].st = "antre" /\ ajax'[y].hasil = Kosongan
  BY <1>1, <1>7
<1> QED BY <1>1, <1>4, <1>5, <1>6, <1>8

\* A choice of a month adds requests that have read nothing.
LEMMA PilihPapan ==
    ASSUME Papan, PilihBulan PROVE Papan'
<1>1. /\ Kerja /\ TipePapan /\ TampakSah
      /\ \A y \in DOMAIN ajax : BacaUrut(y) /\ LunasDekat(y) /\ TercatatDekat(y)
      /\ Len(ajax) \in Nat /\ DOMAIN ajax = 1..Len(ajax)
      /\ \A y \in DOMAIN ajax : ajax[y] \in Ajax
  BY NomorAjax DEF Papan
<1>2. PICK b \in BulanPilih : pilih' = b /\ ajax' = ajax \o Kiriman(b)
  BY DEF PilihBulan
<1>3. /\ ajax' \in Seq(Ajax) /\ Len(ajax') = Len(ajax) + Cardinality(Jenis)
      /\ DOMAIN ajax' = 1..Len(ajax')
      /\ \A y \in DOMAIN ajax : y \in DOMAIN ajax' /\ ajax'[y] = ajax[y]
      /\ \A y \in DOMAIN ajax' \ DOMAIN ajax :
            /\ y > Len(ajax) /\ ajax'[y].st = "antre" /\ ajax'[y].hasil = Kosongan
  BY <1>1, <1>2, SambunganAjax
<1>4. /\ UNCHANGED vars /\ akun' = akun /\ tampak' = tampak /\ Len(ajax) < MaxAjax
      /\ usik' = [q \in DOMAIN ajax' |-> IF q \in DOMAIN ajax THEN usik[q] ELSE 0]
  BY DEF PilihBulan
<1>5. Kerja' BY <1>1, <1>4, LangkahKerja
<1>6. login' = login /\ pemakaian' = pemakaian BY <1>4 DEF vars
<1>7. Cardinality(Jenis) \in 0..2 BY <1>2, KirimanIsi
<1>8. TipePapan'
  <2>1. \E k \in 1..MaxPilih : Len(ajax') = Cardinality(Jenis) * k
    <3>1. PICK k \in 1..MaxPilih : Len(ajax) = Cardinality(Jenis) * k BY <1>1 DEF TipePapan
    <3>2. PICK c \in 0..2 : c = Cardinality(Jenis) BY <1>7
    <3>3. MaxPilih \in Nat \ {0} BY AsumsiDasbor
    <3>4. Len(ajax) = c * k /\ Len(ajax) < c * MaxPilih /\ Len(ajax') = Len(ajax) + c
      BY <1>3, <1>4, <3>1, <3>2 DEF MaxAjax
    <3>5. k + 1 \in 1..MaxPilih /\ Len(ajax') = c * (k + 1)
      <4>1. CASE c = 0 BY <1>1, <3>3, <3>4, <4>1
      <4>2. CASE c = 1 BY <1>1, <3>3, <3>4, <4>2
      <4>3. CASE c = 2 BY <1>1, <3>3, <3>4, <4>3
      <4> QED BY <4>1, <4>2, <4>3
    <3> QED BY <3>2, <3>5
  <2>2. \A y \in DOMAIN ajax' : Melayani(y)' => ajax'[y].level \in Level
    BY <1>1, <1>3 DEF TipePapan, Melayani
  <2>3. tampak' \in [Jenis -> 0..Len(ajax')]
    BY <1>1, <1>3, <1>4, <1>7 DEF TipePapan
  <2>4. usik' \in [DOMAIN ajax' -> Nat] BY <1>1, <1>4 DEF TipePapan
  <2> QED BY <1>1, <1>2, <1>3, <1>4, <1>6, <2>1, <2>2, <2>3, <2>4 DEF TipePapan
<1>9. TampakSah' BY <1>1, <1>3, <1>4 DEF TampakSah
<1>10. ASSUME NEW y \in DOMAIN ajax' PROVE BacaUrut(y)' /\ LunasDekat(y)' /\ TercatatDekat(y)'
  <2>1. CASE y \in DOMAIN ajax
    <3>1. ajax'[y] = ajax[y] /\ usik'[y] = usik[y] BY <1>3, <1>4, <2>1
    <3>2. BacaUrut(y) /\ LunasDekat(y) /\ TercatatDekat(y) BY <1>1, <2>1
    <3>3. Dibaca(y)' = Dibaca(y) /\ Melayani(y)' = Melayani(y) BY <3>1 DEF Dibaca, Melayani
    <3>4. BacaUrut(y)' BY <3>1, <3>2, <3>3 DEF BacaUrut
    <3>5. LunasDekat(y)' BY <1>6, <3>1, <3>2, <3>3 DEF LunasDekat, Berstatus, BarisBulan
    <3>6. TercatatDekat(y)' BY <1>6, <3>1, <3>2, <3>3 DEF TercatatDekat, Warga, BarisBulan
    <3> QED BY <3>4, <3>5, <3>6
  <2>2. CASE y \notin DOMAIN ajax
    <3>1. ajax'[y].st = "antre" /\ ajax'[y].hasil = Kosongan BY <1>3, <2>2
    <3>2. Dibaca(y)' = {} BY <3>1 DEF Dibaca, Kosongan
    <3> QED BY <3>1, <3>2, TanpaBaca DEF Melayani
  <2> QED BY <2>1, <2>2
<1> QED BY <1>5, <1>8, <1>9, <1>10 DEF Papan

-----------------------------------------------------------------------------
(* The other sessions *)

\* A step opens at most one account.
LEMMA LoginTumbuh ==
    ASSUME Next PROVE \E u : DOMAIN login' \subseteq DOMAIN login \cup {u}
<1>1. CASE login' = login BY <1>1
<1>2. CASE login' # login
  <2>1. UNCHANGED basis => login' = login BY DEF basis
  <2>2. Detak \/ Tenang => login' = login BY <2>1 DEF Detak, Tenang, vars
  <2>3. PICK s \in Sesi : Jalan(s) BY <1>2, <2>1, <2>2, TanpaTulis DEF Next
  <2>4. JalanMeter(s) \/ JalanTarif(s) \/ JalanBukti(s) \/ CatatLog(s) => login' = login
    BY <2>1 DEF JalanMeter, CekUmur, BacaNoKeUser, BacaTipe, BacaKd, BacaHarga, CekBulan,
       Baca, SisipMeter, UbahMeter, HapusMeter, JalanTarif, CekTarif, SisipTarif, IdGanda,
       UbahTarif, HapusTarif, JalanBukti, TolakBerkas, PindahBerkas, UbahBukti, CatatLog
  <2>5. CekUser(s) \/ CekDaftar(s) \/ KunciGanda(s) \/ HapusAnak(s) => login' = login
    BY <2>1 DEF CekUser, CekDaftar, CekNama, KunciGanda, HapusAnak
  <2>6. SisipUser(s) \/ SisipDaftar(s) \/ UbahUser(s) \/ UbahProfil(s) \/ HapusUser(s)
    BY <1>2, <2>3, <2>4, <2>5 DEF Jalan, JalanUser
  <2>7. CASE SisipUser(s) \/ SisipDaftar(s)
    <3>1. login' = Sisip(login, form[s].username, rek[s].isi)
      BY <2>7 DEF SisipUser, SisipDaftar, SisipNama
    <3> QED BY <3>1 DEF Sisip
  <2>8. CASE UbahUser(s)
    <3>1. DOMAIN login' = DOMAIN login BY <2>8 DEF UbahUser, UbahLogin
    <3> QED BY <3>1
  <2>9. CASE UbahProfil(s)
    <3> DEFINE baru == [u \in DOMAIN login |->
                          IF u = Aktor(s) THEN [login[u] EXCEPT !.data = rek[s].isi.data]
                          ELSE login[u]]
    <3>1. login' = baru BY <2>9 DEF UbahProfil, UbahLogin
    <3>2. DOMAIN baru = DOMAIN login OBVIOUS
    <3> QED BY <3>1, <3>2
  <2>10. CASE HapusUser(s)
    <3>1. login' = Buang(login, {form[s].username}) BY <2>10 DEF HapusUser
    <3> QED BY <3>1 DEF Buang
  <2> QED BY <2>6, <2>7, <2>8, <2>9, <2>10
<1> QED BY <1>1, <1>2

\* So the accounts stay finite in number.
LEMMA LoginHingga ==
    ASSUME Next, IsFiniteSet(DOMAIN login) PROVE IsFiniteSet(DOMAIN login')
<1>1. PICK u : DOMAIN login' \subseteq DOMAIN login \cup {u} BY LoginTumbuh
<1>2. IsFiniteSet(DOMAIN login \cup {u}) BY FS_AddElement
<1>3. DOMAIN login' \in SUBSET (DOMAIN login \cup {u}) BY <1>1
<1> QED BY <1>2, <1>3, FS_Subset

\* The rows of a table a condition tells apart, before and after a step, are
\* among those the step writes.
LEMMA DitulisMuat ==
    ASSUME NEW f, NEW g, IsFiniteSet(DOMAIN f), IsFiniteSet(DOMAIN g)
    PROVE  /\ IsFiniteSet(Ditulis(f, g)) /\ Cardinality(Ditulis(f, g)) \in Nat
           /\ \A k \in DOMAIN f : k \notin DOMAIN g \/ g[k] # f[k] => k \in Ditulis(f, g)
           /\ \A k \in DOMAIN g : k \notin DOMAIN f \/ g[k] # f[k] => k \in Ditulis(f, g)
<1>1. IsFiniteSet(DOMAIN f \cup DOMAIN g) BY FS_Union
<1>2. Ditulis(f, g) \in SUBSET (DOMAIN f \cup DOMAIN g) BY DEF Ditulis
<1>3. IsFiniteSet(Ditulis(f, g)) BY <1>1, <1>2, FS_Subset
<1>4. \A k \in DOMAIN f : k \notin DOMAIN g \/ g[k] # f[k] => k \in Ditulis(f, g)
  BY DEF Ditulis
<1>5. \A k \in DOMAIN g : k \notin DOMAIN f \/ g[k] # f[k] => k \in Ditulis(f, g)
  BY DEF Ditulis
<1> QED BY <1>3, <1>4, <1>5, FS_CardinalityType

\* A step moves the counts of the customers, of the rows of a month and of those
\* with a status by no more than the rows it writes.
LEMMA HitungGeser ==
    ASSUME Kerja, Next, IsFiniteSet(DOMAIN login), NEW b
    PROVE  \E d \in Nat, e \in Nat :
             /\ d = Cardinality(Ditulis(login, login'))
             /\ e = Cardinality(Ditulis(pemakaian, pemakaian'))
             /\ \E x \in Nat, y \in Nat :
                   /\ x = Cardinality(Warga) /\ y = Cardinality(Warga)'
                   /\ x <= y + d /\ y <= x + d
             /\ \E x \in Nat, y \in Nat :
                   /\ x = Cardinality(BarisBulan(b)) /\ y = Cardinality(BarisBulan(b))'
                   /\ x <= y + e /\ y <= x + e
             /\ \E x \in Nat, y \in Nat :
                   /\ x = Cardinality(Berstatus(b, "LUNAS"))
                   /\ y = Cardinality(Berstatus(b, "LUNAS"))'
                   /\ x <= y + e /\ y <= x + e
             /\ \E x \in Nat, y \in Nat :
                   /\ x = Cardinality(BarisBulan(b) \ Berstatus(b, "KOSONG"))
                   /\ y = Cardinality(BarisBulan(b) \ Berstatus(b, "KOSONG"))'
                   /\ x <= y + e /\ y <= x + e
<1> DEFINE D == Ditulis(login, login')
           E == Ditulis(pemakaian, pemakaian')
<1>1. Kerja' BY LangkahKerja
<1>2. IsFiniteSet(DOMAIN login') BY LoginHingga
<1>3. IsFiniteSet(DOMAIN pemakaian) BY TabelHingga
<1>4. IsFiniteSet(DOMAIN pemakaian')
  <2>1. no_akhir' \in Nat /\ DOMAIN pemakaian' \in SUBSET (1..no_akhir')
    BY <1>1 DEF Kerja, TypeOK, TipeBasis
  <2>2. IsFiniteSet(1..no_akhir') BY <2>1, FS_Interval
  <2> QED BY <2>1, <2>2, FS_Subset
<1>5. /\ IsFiniteSet(D) /\ Cardinality(D) \in Nat
      /\ \A k \in DOMAIN login : k \notin DOMAIN login' \/ login'[k] # login[k] => k \in D
      /\ \A k \in DOMAIN login' : k \notin DOMAIN login \/ login'[k] # login[k] => k \in D
  BY <1>2, DitulisMuat
<1>6. /\ IsFiniteSet(E) /\ Cardinality(E) \in Nat
      /\ \A k \in DOMAIN pemakaian :
            k \notin DOMAIN pemakaian' \/ pemakaian'[k] # pemakaian[k] => k \in E
      /\ \A k \in DOMAIN pemakaian' :
            k \notin DOMAIN pemakaian \/ pemakaian'[k] # pemakaian[k] => k \in E
  BY <1>3, <1>4, DitulisMuat
<1> HIDE DEF D, E
<1>7. \E x \in Nat, y \in Nat :
         /\ x = Cardinality(Warga) /\ y = Cardinality(Warga)'
         /\ x <= y + Cardinality(D) /\ y <= x + Cardinality(D)
  <2>1. PICK A, B : A = Warga /\ B = Warga' OBVIOUS
  <2>2. A \ B \subseteq D /\ B \ A \subseteq D BY <1>5, <2>1 DEF Warga
  <2>3. A \in SUBSET DOMAIN login /\ B \in SUBSET DOMAIN login' BY <2>1 DEF Warga
  <2>4. IsFiniteSet(A) /\ IsFiniteSet(B) BY <1>2, <2>3, FS_Subset
  <2>5. /\ Cardinality(A) \in Nat /\ Cardinality(B) \in Nat
        /\ Cardinality(A) <= Cardinality(B) + Cardinality(D)
        /\ Cardinality(B) <= Cardinality(A) + Cardinality(D)
    BY <1>5, <2>2, <2>4, HitungBeda
  <2>6. Cardinality(Warga) = Cardinality(A) /\ Cardinality(Warga)' = Cardinality(B) BY <2>1
  <2> QED BY <2>5, <2>6
<1>8. ASSUME NEW A \in SUBSET DOMAIN pemakaian, NEW B \in SUBSET DOMAIN pemakaian',
             A \ B \subseteq E, B \ A \subseteq E
      PROVE  /\ Cardinality(A) \in Nat /\ Cardinality(B) \in Nat
             /\ Cardinality(A) <= Cardinality(B) + Cardinality(E)
             /\ Cardinality(B) <= Cardinality(A) + Cardinality(E)
  <2>1. IsFiniteSet(A) /\ IsFiniteSet(B) BY <1>3, <1>4, FS_Subset
  <2> QED BY <1>6, <1>8, <2>1, HitungBeda
<1>9. \E x \in Nat, y \in Nat :
         /\ x = Cardinality(BarisBulan(b)) /\ y = Cardinality(BarisBulan(b))'
         /\ x <= y + Cardinality(E) /\ y <= x + Cardinality(E)
  <2>1. PICK A, B : A = BarisBulan(b) /\ B = BarisBulan(b)' OBVIOUS
  <2>2. A \in SUBSET DOMAIN pemakaian /\ B \in SUBSET DOMAIN pemakaian'
    BY <2>1 DEF BarisBulan
  <2>3. A \ B \subseteq E /\ B \ A \subseteq E BY <1>6, <2>1 DEF BarisBulan
  <2>4. /\ Cardinality(A) \in Nat /\ Cardinality(B) \in Nat
        /\ Cardinality(A) <= Cardinality(B) + Cardinality(E)
        /\ Cardinality(B) <= Cardinality(A) + Cardinality(E)
    BY <1>8, <2>2, <2>3
  <2> QED BY <2>1, <2>4
<1>10. \E x \in Nat, y \in Nat :
          /\ x = Cardinality(Berstatus(b, "LUNAS")) /\ y = Cardinality(Berstatus(b, "LUNAS"))'
          /\ x <= y + Cardinality(E) /\ y <= x + Cardinality(E)
  <2>1. PICK A, B : A = Berstatus(b, "LUNAS") /\ B = Berstatus(b, "LUNAS")' OBVIOUS
  <2>2. A \in SUBSET DOMAIN pemakaian /\ B \in SUBSET DOMAIN pemakaian'
    BY <2>1 DEF BarisBulan, Berstatus
  <2>3. A \ B \subseteq E /\ B \ A \subseteq E BY <1>6, <2>1 DEF BarisBulan, Berstatus
  <2>4. /\ Cardinality(A) \in Nat /\ Cardinality(B) \in Nat
        /\ Cardinality(A) <= Cardinality(B) + Cardinality(E)
        /\ Cardinality(B) <= Cardinality(A) + Cardinality(E)
    BY <1>8, <2>2, <2>3
  <2> QED BY <2>1, <2>4
<1>11. \E x \in Nat, y \in Nat :
          /\ x = Cardinality(BarisBulan(b) \ Berstatus(b, "KOSONG"))
          /\ y = Cardinality(BarisBulan(b) \ Berstatus(b, "KOSONG"))'
          /\ x <= y + Cardinality(E) /\ y <= x + Cardinality(E)
  <2>1. PICK A, B : /\ A = BarisBulan(b) \ Berstatus(b, "KOSONG")
                    /\ B = (BarisBulan(b) \ Berstatus(b, "KOSONG"))'
    OBVIOUS
  <2>2. A \in SUBSET DOMAIN pemakaian /\ B \in SUBSET DOMAIN pemakaian'
    BY <2>1 DEF BarisBulan
  <2>3. A \ B \subseteq E /\ B \ A \subseteq E BY <1>6, <2>1 DEF BarisBulan, Berstatus
  <2>4. /\ Cardinality(A) \in Nat /\ Cardinality(B) \in Nat
        /\ Cardinality(A) <= Cardinality(B) + Cardinality(E)
        /\ Cardinality(B) <= Cardinality(A) + Cardinality(E)
    BY <1>8, <2>2, <2>3
  <2> QED BY <2>1, <2>4
<1>12. PICK d \in Nat, e \in Nat : d = Cardinality(D) /\ e = Cardinality(E) BY <1>5, <1>6
<1> QED BY <1>7, <1>9, <1>10, <1>11, <1>12 DEF D, E

\* A distance grows by no more than its ends move.
LEMMA DekatGeser ==
    ASSUME NEW x \in Int, NEW y \in Int, NEW z \in Int, NEW u \in Nat, NEW w \in Nat,
           Selisih(x, y) <= u, y <= z + w, z <= y + w
    PROVE  Selisih(x, z) <= u + w
BY DEF Selisih

\* A column that has been read holds a number.
LEMMA BacaBulat ==
    ASSUME Papan, NEW q \in DOMAIN ajax, NEW k \in Dibaca(q)
    PROVE  ajax[q].hasil[k] \in Int
<1>1. ajax[q] \in Ajax BY NomorAjax DEF Papan
<1> QED BY <1>1 DEF Ajax, Dibaca

\* A step of another session: a request that has read something may be wrong by
\* the rows the step writes, and notes them.
LEMMA LainPapan ==
    ASSUME Papan, SesiLain PROVE Papan'
<1>1. /\ Kerja /\ TipePapan /\ TampakSah
      /\ \A y \in DOMAIN ajax : BacaUrut(y) /\ LunasDekat(y) /\ TercatatDekat(y)
      /\ IsFiniteSet(DOMAIN login)
  BY DEF Papan, TipePapan
<1>2. Next /\ akun' = akun /\ pilih' = pilih /\ ajax' = ajax /\ tampak' = tampak
  BY DEF SesiLain
<1>3. Kerja' BY <1>1, <1>2, LangkahKerja
<1>4. IsFiniteSet(DOMAIN login') BY <1>1, <1>2, LoginHingga
<1>5. PICK t \in Nat : t = Cardinality(Ditulis(login, login')) +
                           Cardinality(Ditulis(pemakaian, pemakaian'))
  <2>1. PICK d \in Nat, e \in Nat : /\ d = Cardinality(Ditulis(login, login'))
                                    /\ e = Cardinality(Ditulis(pemakaian, pemakaian'))
    BY <1>1, <1>2, HitungGeser
  <2>2. d + e \in Nat OBVIOUS
  <2> QED BY <2>1, <2>2
<1>6. usik' = [q \in DOMAIN ajax |->
                 IF Terbaca(q) > 0 THEN usik[q] + t ELSE usik[q]]
  BY <1>5 DEF SesiLain
<1>7. usik \in [DOMAIN ajax -> Nat] BY <1>1 DEF TipePapan
<1>8. usik' \in [DOMAIN ajax -> Nat] BY <1>6, <1>7
<1>9. TipePapan' BY <1>1, <1>2, <1>4, <1>8 DEF TipePapan, Melayani
<1>10. TampakSah' BY <1>1, <1>2 DEF TampakSah
<1>11. ASSUME NEW q \in DOMAIN ajax PROVE BacaUrut(q)' /\ LunasDekat(q)' /\ TercatatDekat(q)'
  <2>1. Dibaca(q)' = Dibaca(q) /\ Melayani(q)' = Melayani(q)
    BY <1>2 DEF Dibaca, Melayani
  <2>2. BacaUrut(q) /\ LunasDekat(q) /\ TercatatDekat(q) BY <1>1
  <2>3. BacaUrut(q)' BY <1>2, <2>1, <2>2 DEF BacaUrut
  <2>4. PICK b : b = ajax[q].bulan OBVIOUS
  <2>5. PICK d \in Nat, e \in Nat :
          /\ d = Cardinality(Ditulis(login, login'))
          /\ e = Cardinality(Ditulis(pemakaian, pemakaian'))
          /\ \E x \in Nat, y \in Nat :
                /\ x = Cardinality(Warga) /\ y = Cardinality(Warga)'
                /\ x <= y + d /\ y <= x + d
          /\ \E x \in Nat, y \in Nat :
                /\ x = Cardinality(BarisBulan(b)) /\ y = Cardinality(BarisBulan(b))'
                /\ x <= y + e /\ y <= x + e
          /\ \E x \in Nat, y \in Nat :
                /\ x = Cardinality(Berstatus(b, "LUNAS"))
                /\ y = Cardinality(Berstatus(b, "LUNAS"))'
                /\ x <= y + e /\ y <= x + e
          /\ \E x \in Nat, y \in Nat :
                /\ x = Cardinality(BarisBulan(b) \ Berstatus(b, "KOSONG"))
                /\ y = Cardinality(BarisBulan(b) \ Berstatus(b, "KOSONG"))'
                /\ x <= y + e /\ y <= x + e
    BY <1>1, <1>2, HitungGeser
  <2>6. PICK W \in Nat, V \in Nat : /\ W = Cardinality(Warga) /\ V = Cardinality(Warga)'
                                    /\ W <= V + d /\ V <= W + d
    BY <2>5
  <2>7. PICK S \in Nat, Ct \in Nat :
          /\ S = Cardinality(BarisBulan(b)) /\ Ct = Cardinality(BarisBulan(b))'
          /\ S <= Ct + e /\ Ct <= S + e
    BY <2>5
  <2>8. PICK L \in Nat, M \in Nat :
          /\ L = Cardinality(Berstatus(b, "LUNAS")) /\ M = Cardinality(Berstatus(b, "LUNAS"))'
          /\ L <= M + e /\ M <= L + e
    BY <2>5
  <2>9. PICK C \in Nat, D \in Nat :
          /\ C = Cardinality(BarisBulan(b) \ Berstatus(b, "KOSONG"))
          /\ D = Cardinality(BarisBulan(b) \ Berstatus(b, "KOSONG"))'
          /\ C <= D + e /\ D <= C + e
    BY <2>5
  <2>10. t = d + e BY <1>5, <2>5
  <2>11. PICK u \in Nat : u = usik[q] BY <1>7
  <2>12. Melayani(q) /\ Dibaca(q) # {} => usik'[q] = u + (d + e)
    BY <1>6, <2>10, <2>11, TerbacaNol
  <2>13. LunasDekat(q)'
    <3> SUFFICES ASSUME Melayani(q), ajax[q].jenis = "summary", ajax[q].level = "bendahara"
                 PROVE  /\ "lunas" \in Dibaca(q) /\ "belum" \notin Dibaca(q) =>
                             Selisih(ajax[q].hasil["lunas"], M) <= usik'[q]
                        /\ "belum" \in Dibaca(q) =>
                             Selisih(ajax[q].hasil["lunas"] + ajax[q].hasil["belum"], D)
                               <= usik'[q]
      BY <1>2, <2>1, <2>4, <2>8, <2>9 DEF LunasDekat
    <3>1. ASSUME "lunas" \in Dibaca(q), "belum" \notin Dibaca(q)
          PROVE  Selisih(ajax[q].hasil["lunas"], M) <= usik'[q]
      <4>1. PICK x \in Int : x = ajax[q].hasil["lunas"] BY <3>1, BacaBulat
      <4>2. Selisih(x, L) <= u BY <2>2, <2>4, <2>8, <2>11, <3>1, <4>1 DEF LunasDekat
      <4>3. Selisih(x, M) <= u + (d + e)
        <5>1. PICK w \in Nat, y \in Int, z \in Int : w = d + e /\ y = L /\ z = M
          OBVIOUS
        <5>2. y <= z + w /\ z <= y + w BY <2>8, <5>1
        <5> QED BY <4>2, <5>1, <5>2, DekatGeser
      <4> QED BY <2>12, <3>1, <4>1, <4>3
    <3>2. ASSUME "belum" \in Dibaca(q)
          PROVE  Selisih(ajax[q].hasil["lunas"] + ajax[q].hasil["belum"], D) <= usik'[q]
      <4>0. "lunas" \in Dibaca(q) BY <2>2, <3>2 DEF BacaUrut, Awalan
      <4>1. PICK x \in Int : x = ajax[q].hasil["lunas"] + ajax[q].hasil["belum"]
        <5>1. ajax[q].hasil["lunas"] \in Int /\ ajax[q].hasil["belum"] \in Int
          BY <3>2, <4>0, BacaBulat
        <5> QED BY <5>1
      <4>2. Selisih(x, C) <= u BY <2>2, <2>4, <2>9, <2>11, <3>2, <4>1 DEF LunasDekat
      <4>3. Selisih(x, D) <= u + (d + e)
        <5>1. PICK w \in Nat, y \in Int, z \in Int : w = d + e /\ y = C /\ z = D
          OBVIOUS
        <5>2. y <= z + w /\ z <= y + w BY <2>9, <5>1
        <5> QED BY <4>2, <5>1, <5>2, DekatGeser
      <4> QED BY <2>12, <3>2, <4>1, <4>3
    <3> QED BY <3>1, <3>2
  <2>14. TercatatDekat(q)'
    <3> SUFFICES ASSUME Melayani(q), ajax[q].jenis = "summary",
                        ajax[q].level \in {"admin", "petugas"}
                 PROVE  /\ "pelanggan" \in Dibaca(q) /\ "tercatat" \notin Dibaca(q) =>
                             Selisih(ajax[q].hasil["pelanggan"], V) <= usik'[q]
                        /\ "tercatat" \in Dibaca(q) =>
                             Selisih(ajax[q].hasil["pelanggan"] - ajax[q].hasil["tercatat"],
                                     V - Ct) <= usik'[q]
      BY <1>2, <2>1, <2>4, <2>6, <2>7 DEF TercatatDekat
    <3>1. ASSUME "pelanggan" \in Dibaca(q), "tercatat" \notin Dibaca(q)
          PROVE  Selisih(ajax[q].hasil["pelanggan"], V) <= usik'[q]
      <4>1. PICK x \in Int : x = ajax[q].hasil["pelanggan"] BY <3>1, BacaBulat
      <4>2. Selisih(x, W) <= u BY <2>2, <2>4, <2>6, <2>11, <3>1, <4>1 DEF TercatatDekat
      <4>3. Selisih(x, V) <= u + (d + e)
        <5>1. PICK w \in Nat, y \in Int, z \in Int : w = d + e /\ y = W /\ z = V
          OBVIOUS
        <5>2. y <= z + w /\ z <= y + w BY <2>6, <5>1
        <5> QED BY <4>2, <5>1, <5>2, DekatGeser
      <4> QED BY <2>12, <3>1, <4>1, <4>3
    <3>2. ASSUME "tercatat" \in Dibaca(q)
          PROVE  Selisih(ajax[q].hasil["pelanggan"] - ajax[q].hasil["tercatat"], V - Ct)
                   <= usik'[q]
      <4>0. "pelanggan" \in Dibaca(q) BY <2>2, <3>2 DEF BacaUrut, Awalan
      <4>1. PICK x \in Int : x = ajax[q].hasil["pelanggan"] - ajax[q].hasil["tercatat"]
        <5>1. ajax[q].hasil["pelanggan"] \in Int /\ ajax[q].hasil["tercatat"] \in Int
          BY <3>2, <4>0, BacaBulat
        <5> QED BY <5>1
      <4>2. Selisih(x, W - S) <= u
        BY <2>2, <2>4, <2>6, <2>7, <2>11, <3>2, <4>1 DEF TercatatDekat
      <4>3. Selisih(x, V - Ct) <= u + (d + e)
        <5>1. PICK w \in Nat, y \in Int, z \in Int : w = d + e /\ y = W - S /\ z = V - Ct
          OBVIOUS
        <5>2. y <= z + w /\ z <= y + w BY <2>6, <2>7, <5>1
        <5> QED BY <4>2, <5>1, <5>2, DekatGeser
      <4> QED BY <2>12, <3>2, <4>1, <4>3
    <3> QED BY <3>1, <3>2
  <2> QED BY <2>3, <2>13, <2>14
<1> QED BY <1>2, <1>3, <1>9, <1>10, <1>11 DEF Papan

-----------------------------------------------------------------------------
(* The invariant is kept *)

\* The page is ready.
LEMMA InitPapan == InitDasbor => Papan
<1> SUFFICES ASSUME InitDasbor PROVE Papan
  OBVIOUS
<1>1. Init /\ akun \in Penonton /\ pilih = BulanDari[TglPHP[jam]] BY DEF InitDasbor
<1>2. jam = 0 /\ login = LoginAwal BY <1>1 DEF Init, InitPermintaan, InitBasis
<1>3. Kerja BY <1>1, InitTypeOK, InitKendali DEF Kerja
<1>4. pilih \in BulanPilih BY <1>1, <1>2, AsumsiDasbor
<1>5. PICK K : K = Kiriman(pilih) OBVIOUS
<1>6. /\ K \in Seq(Ajax) /\ Len(K) = Cardinality(Jenis) /\ Cardinality(Jenis) \in 0..2
      /\ \A i \in 1..Len(K) : K[i].st = "antre" /\ K[i].hasil = Kosongan
  BY <1>4, <1>5, KirimanIsi
<1>7. /\ ajax = K /\ tampak = [j \in Jenis |-> 0] /\ usik = [q \in DOMAIN ajax |-> 0]
  BY <1>5 DEF InitDasbor
<1>8. DOMAIN ajax = 1..Len(ajax) BY <1>6, <1>7, LenProperties
<1>9. TipePapan
  <2>1. IsFiniteSet(DOMAIN login) BY <1>2, AsumsiDasbor
  <2>2. \E k \in 1..MaxPilih : Len(ajax) = Cardinality(Jenis) * k
    <3>1. 1 \in 1..MaxPilih BY AsumsiDasbor
    <3>2. Len(ajax) = Cardinality(Jenis) * 1 BY <1>6, <1>7
    <3> QED BY <3>1, <3>2
  <2>3. \A q \in DOMAIN ajax : ~Melayani(q) BY <1>6, <1>7, <1>8 DEF Melayani
  <2>4. tampak \in [Jenis -> 0..Len(ajax)] BY <1>6, <1>7
  <2>5. usik \in [DOMAIN ajax -> Nat] BY <1>7
  <2> QED BY <1>1, <1>4, <1>6, <1>7, <1>8, <2>1, <2>2, <2>3, <2>4, <2>5 DEF TipePapan
<1>10. TampakSah BY <1>7 DEF TampakSah
<1>11. ASSUME NEW q \in DOMAIN ajax PROVE BacaUrut(q) /\ LunasDekat(q) /\ TercatatDekat(q)
  <2>1. ajax[q].st = "antre" /\ ajax[q].hasil = Kosongan BY <1>6, <1>7, <1>8
  <2>2. Dibaca(q) = {} /\ ~Melayani(q) BY <2>1, KosongDibaca DEF Melayani
  <2> QED BY <2>1, <2>2 DEF BacaUrut, LunasDekat, TercatatDekat
<1> QED BY <1>3, <1>9, <1>10, <1>11 DEF Papan

\* Every step, of the page, of its requests or of another session.
LEMMA LangkahPapan == Papan /\ [NextDasbor]_semua => Papan'
<1> SUFFICES ASSUME Papan, [NextDasbor]_semua PROVE Papan'
  OBVIOUS
<1>1. CASE UNCHANGED semua
  <2>1. /\ UNCHANGED vars /\ login' = login /\ pemakaian' = pemakaian /\ ajax' = ajax
        /\ akun' = akun /\ pilih' = pilih /\ tampak' = tampak /\ usik' = usik
    BY <1>1 DEF semua, vars, dasborVars
  <2>2. Kerja' BY <2>1, LangkahKerja DEF Papan
  <2>3. TipePapan' /\ TampakSah' BY <2>1 DEF Papan, TipePapan, TampakSah, Melayani
  <2>4. ASSUME NEW q \in DOMAIN ajax PROVE BacaUrut(q)' /\ LunasDekat(q)' /\ TercatatDekat(q)'
    <3>1. BacaUrut(q) /\ LunasDekat(q) /\ TercatatDekat(q) BY DEF Papan
    <3>2. Dibaca(q)' = Dibaca(q) /\ Melayani(q)' = Melayani(q) BY <2>1 DEF Dibaca, Melayani
    <3>3. BacaUrut(q)' BY <2>1, <3>1, <3>2 DEF BacaUrut
    <3>4. LunasDekat(q)' BY <2>1, <3>1, <3>2 DEF LunasDekat, Berstatus, BarisBulan
    <3>5. TercatatDekat(q)' BY <2>1, <3>1, <3>2 DEF TercatatDekat, Warga, BarisBulan
    <3> QED BY <3>3, <3>4, <3>5
  <2> QED BY <2>1, <2>2, <2>3, <2>4 DEF Papan
<1>2. CASE SesiLain BY <1>2, LainPapan
<1>3. CASE PilihBulan BY <1>3, PilihPapan
<1>4. ASSUME NEW q \in DOMAIN ajax, AjaxJalan(q) \/ AjaxMati(q) PROVE Papan'
  BY <1>4, MasukPapan, BacaPapan, JawabPapan, TibaPapan, MatiPapan DEF AjaxJalan
<1> QED BY <1>1, <1>2, <1>3, <1>4 DEF NextDasbor

-----------------------------------------------------------------------------
(* What the page may rely on *)

\* Papan holds in every reachable state of the dashboard.
LEMMA PapanSelalu == SpecDasbor => []Papan
BY InitPapan, LangkahPapan, PTL DEF SpecDasbor

\* The invariant gives the types ...
LEMMA PapanTipe == Papan => TipeDasbor
<1> SUFFICES ASSUME Papan PROVE TipeDasbor
  OBVIOUS
<1>1. TypeOK /\ TipePapan BY DEF Papan, Kerja
<1>2. Len(ajax) \in Nat /\ DOMAIN ajax = 1..Len(ajax) /\ \A q \in DOMAIN ajax : ajax[q] \in Ajax
  BY <1>1, NomorAjax
<1>3. ajax \in [1..Len(ajax) -> Ajax] BY <1>1, <1>2 DEF TipePapan
<1>4. Len(ajax) <= MaxAjax
  <2>1. PICK k \in 1..MaxPilih : Len(ajax) = Cardinality(Jenis) * k BY <1>1 DEF TipePapan
  <2>2. pilih \in BulanPilih BY <1>1 DEF TipePapan
  <2>3. PICK c \in 0..2 : c = Cardinality(Jenis) BY <2>2, KirimanIsi
  <2>4. MaxPilih \in Nat /\ k \in Nat /\ k <= MaxPilih BY AsumsiDasbor
  <2>5. c * k <= c * MaxPilih
    <3>1. CASE c = 0 BY <2>4, <3>1
    <3>2. CASE c = 1 BY <2>4, <3>2
    <3>3. CASE c = 2 BY <2>4, <3>3
    <3> QED BY <3>1, <3>2, <3>3
  <2> QED BY <2>1, <2>3, <2>5 DEF MaxAjax
<1>5. \A q \in DOMAIN ajax : ajax[q].st \in {"jalan", "kirim"} => ajax[q].level \in Level
  BY <1>1 DEF TipePapan, Melayani
<1> QED BY <1>1, <1>3, <1>4, <1>5 DEF TipePapan, TipeDasbor

\* Types, and nothing is read or answered for an account that is not there
\* (ajax.php:8-26), for any tables, months and number of choices.
THEOREM DasborBertipe == SpecDasbor => []TipeDasbor
BY PapanSelalu, PapanTipe, PTL

\* A summary under way or shown has read everything.
SudahJawab(q) == ajax[q].st \in {"kirim", "selesai"}

LEMMA UtuhDijawab ==
    ASSUME Papan, NEW q \in DOMAIN ajax, NEW lv, Utuh(q, lv)
    PROVE  ajax[q].jenis = "summary" /\ ajax[q].level \in lv /\ SudahJawab(q)
<1>1. ajax[q].jenis = "summary" /\ ajax[q].level \in lv BY DEF Utuh
<1>2. CASE ajax[q].st = "kirim" BY <1>1, <1>2 DEF SudahJawab
<1>3. CASE tampak["summary"] = q
  <2>1. q # 0 /\ "summary" \in Jenis BY <1>1, NomorAjax DEF Papan, Ajax
  <2> QED BY <1>1, <1>3, <2>1 DEF Papan, TampakSah, SudahJawab
<1> QED BY <1>2, <1>3 DEF Utuh

\* ... the boxes of bendahara ...
LEMMA PapanRobek == Papan => RobekTerbatas
<1> SUFFICES ASSUME Papan, NEW q \in DOMAIN ajax, Utuh(q, {"bendahara"})
             PROVE  LET b == ajax[q].bulan IN
                    Selisih(ajax[q].hasil["lunas"] + ajax[q].hasil["belum"],
                            Cardinality(BarisBulan(b) \ Berstatus(b, "KOSONG"))) <= usik[q]
  BY DEF RobekTerbatas
<1>1. BacaUrut(q) /\ LunasDekat(q) BY DEF Papan
<1>2. ajax[q].jenis = "summary" /\ ajax[q].level = "bendahara" /\ SudahJawab(q)
  BY UtuhDijawab
<1>3. "belum" \in Dibaca(q) BY <1>1, <1>2 DEF BacaUrut, Penuh, SudahJawab, Melayani
<1> QED BY <1>1, <1>2, <1>3 DEF LunasDekat, SudahJawab, Melayani

\* "Sudah Lunas" and "Belum Bayar" (ajax.php:82, 88) miss or double together no
\* more rows than were written since the summary was read, whoever wrote them, until
\* the answer is covered by another.
THEOREM LunasBelumDekat == SpecDasbor => []RobekTerbatas
BY PapanSelalu, PapanRobek, PTL

\* The rows that are not one too many are one for each customer who has any.
LEMMA LebihHitung ==
    ASSUME Kerja, IsFiniteSet(DOMAIN login), NEW b
    PROVE  /\ Cardinality(BelumAda(b)) \in Nat /\ Cardinality(Lebih(b)) \in Nat
           /\ Cardinality(BelumAda(b)) - Cardinality(Lebih(b))
                = Cardinality(Warga) - Cardinality(BarisBulan(b))
<1> DEFINE S == BarisBulan(b)
           P == S \ Lebih(b)
           C == {u \in Warga : S \cap BarisUser(u) # {}}
           F == [n \in P |-> pemakaian[n].username]
<1>1. IsFiniteSet(Warga) /\ IsFiniteSet(S) BY TabelHingga
<1>2. S \subseteq DOMAIN pemakaian /\ S \subseteq Nat
  BY DEF BarisBulan, Kerja, TypeOK, TipeBasis
<1>3. Lebih(b) \subseteq S BY DEF Lebih
<1>4. F \in [P -> C]
  <2> SUFFICES ASSUME NEW n \in P PROVE pemakaian[n].username \in C
    OBVIOUS
  <2>1. pemakaian[n].username \in Warga BY DEF Lebih
  <2>2. n \in BarisUser(pemakaian[n].username) BY <1>2 DEF BarisUser
  <2> QED BY <2>1, <2>2
<1>5. ASSUME NEW m \in P, NEW n \in P, F[m] = F[n] PROVE m = n
  <2>1. pemakaian[m].username = pemakaian[n].username BY <1>5
  <2>2. ~(m < n) /\ ~(n < m) BY <2>1 DEF Lebih
  <2> QED BY <1>2, <2>2
<1>6. ASSUME NEW u \in C PROVE \E n \in P : F[n] = u
  <2> DEFINE B == S \cap BarisUser(u)
  <2>1. B \in SUBSET Nat /\ B # {} BY <1>2
  <2>2. PICK n \in B : \A m \in B : n <= m BY <2>1, AngkaTerkecil
  <2>3. n \in S /\ pemakaian[n].username = u BY DEF BarisUser
  <2>4. n \notin Lebih(b)
    <3> SUFFICES ASSUME NEW m \in S, m < n, pemakaian[m].username = u PROVE FALSE
      BY <2>3 DEF Lebih
    <3>1. m \in B BY <1>2 DEF BarisUser
    <3>2. n <= m BY <2>2, <3>1
    <3> QED BY <1>2, <2>3, <3>2
  <2> QED BY <2>3, <2>4
<1> HIDE DEF F, C, P
<1>7. F \in Bijection(P, C)
  BY <1>4, <1>5, <1>6 DEF Bijection, Injection, IsInjective, Surjection
<1>8. IsFiniteSet(P) /\ Cardinality(P) = Cardinality(S) - Cardinality(S \cap Lebih(b))
  BY <1>1, FS_Difference DEF P
<1>9. Cardinality(C) = Cardinality(P)
  <2>1. ExistsBijection(P, C) BY <1>7 DEF ExistsBijection
  <2> QED BY <1>8, <2>1, FS_Bijection
<1>10. S \cap Lebih(b) = Lebih(b) /\ IsFiniteSet(Lebih(b)) BY <1>1, <1>3, FS_Subset
<1>11. BelumAda(b) = Warga \ C /\ Warga \cap C = C BY DEF C, BelumAda
<1>12. /\ IsFiniteSet(Warga \ C)
       /\ Cardinality(Warga \ C) = Cardinality(Warga) - Cardinality(Warga \cap C)
  BY <1>1, FS_Difference
<1>13. /\ Cardinality(BelumAda(b)) = Cardinality(Warga) - Cardinality(C)
       /\ Cardinality(P) = Cardinality(S) - Cardinality(Lebih(b))
  BY <1>8, <1>10, <1>11, <1>12
<1>14. /\ Cardinality(BelumAda(b)) \in Nat /\ Cardinality(Lebih(b)) \in Nat
       /\ Cardinality(Warga) \in Nat /\ Cardinality(S) \in Nat
  BY <1>1, <1>10, <1>11, <1>12, FS_CardinalityType
<1>15. Cardinality(C) = Cardinality(Warga) - Cardinality(BelumAda(b))
  BY <1>1, <1>8, <1>9, <1>13, <1>14, FS_CardinalityType
<1> HIDE DEF S
<1>16. PICK ba, le, w, sb \in Int :
         /\ ba = Cardinality(BelumAda(b)) /\ le = Cardinality(Lebih(b))
         /\ w = Cardinality(Warga) /\ sb = Cardinality(S)
  BY <1>14
<1>17. ba - le = w - sb BY <1>9, <1>13, <1>15, <1>16
<1> QED BY <1>14, <1>16, <1>17 DEF S

\* ... with the count above those of admin and petugas ...
LEMMA PapanBelum == Papan => BelumDicatat
<1> SUFFICES ASSUME Papan, NEW q \in DOMAIN ajax, Utuh(q, {"admin", "petugas"})
             PROVE  LET b == ajax[q].bulan IN
                    Selisih(ajax[q].hasil["pelanggan"] - ajax[q].hasil["tercatat"],
                            Cardinality(BelumAda(b)) - Cardinality(Lebih(b))) <= usik[q]
  BY DEF BelumDicatat
<1>1. BacaUrut(q) /\ TercatatDekat(q) /\ Kerja /\ IsFiniteSet(DOMAIN login)
  BY DEF Papan, TipePapan
<1>2. ajax[q].jenis = "summary" /\ ajax[q].level \in {"admin", "petugas"} /\ SudahJawab(q)
  BY UtuhDijawab
<1>3. "tercatat" \in Dibaca(q) BY <1>1, <1>2 DEF BacaUrut, Penuh, SudahJawab, Melayani
<1>4. PICK b : b = ajax[q].bulan OBVIOUS
<1>5. Selisih(ajax[q].hasil["pelanggan"] - ajax[q].hasil["tercatat"],
              Cardinality(Warga) - Cardinality(BarisBulan(b))) <= usik[q]
  BY <1>1, <1>2, <1>3, <1>4 DEF TercatatDekat, SudahJawab, Melayani
<1>6. Cardinality(BelumAda(b)) - Cardinality(Lebih(b))
        = Cardinality(Warga) - Cardinality(BarisBulan(b))
  BY <1>1, <1>4, LebihHitung
<1> QED BY <1>4, <1>5, <1>6

\* "Belum Dicatat" (ajax.php:66) is the number of customers without a row less one
\* for every double and every orphan of the month, but for what was written since.
THEOREM BelumDicatatDekat == SpecDasbor => []BelumDicatat
BY PapanSelalu, PapanBelum, PTL
=============================================================================
