------------------------------ MODULE BukuMeter ------------------------------
(***************************************************************************)
(* What the handlers promise of the meter ledger, without sessions, forms, *)
(* roles or statements: rows come with a new number and the date of their  *)
(* day, and each later write changes one row, in the columns it is for and *)
(* in one step.                                                            *)
(***************************************************************************)
EXTENDS Integers

CONSTANT Tiada

VARIABLES
    baris,  \* number -> row
    nomor,  \* the last number given
    harga,  \* prices that have been in force
    arsip,  \* files uploaded as proofs of payment: <<number of the row, time>>
    hari    \* today

vars == <<baris, nomor, harga, arsip, hari>>

\* A row as every write of its readings leaves it.
Cocok(r) ==
    /\ r.pakai >= 0 /\ r.akhir = r.awal + r.pakai
    /\ r.pakai = 0 => r.status = "LUNAS"
    /\ \E h \in harga \cup {0} : r.tagihan = h * r.pakai

Init ==
    /\ nomor \in Nat /\ DOMAIN baris \subseteq 1..nomor
    /\ arsip = {}
    /\ \A n \in DOMAIN baris :
          Cocok(baris[n]) /\ baris[n].bukti = Tiada /\ baris[n].tgl <= hari

\* The row n is all that a step writes.
Hanya(n) ==
    /\ DOMAIN baris' = DOMAIN baris \cup {n}
    /\ \A m \in DOMAIN baris \ {n} : baris'[m] = baris[m]
    /\ UNCHANGED <<harga, arsip, hari>>

\* A number is given once, also when its row is gone.
Rekam ==
    /\ nomor' = nomor + 1
    /\ Hanya(nomor + 1)
    /\ LET r == baris'[nomor + 1] IN
       Cocok(r) /\ r.tgl = hari /\ r.bukti = Tiada

\* The readings are corrected, with all that follows from them.
Koreksi(n) ==
    /\ n \in DOMAIN baris /\ Hanya(n) /\ UNCHANGED nomor
    /\ LET r == baris'[n] IN
       /\ Cocok(r)
       /\ r = [baris[n] EXCEPT !.awal = r.awal, !.akhir = r.akhir, !.pakai = r.pakai,
                               !.tagihan = r.tagihan, !.status = r.status]

\* A proof that was uploaded for this row is noted in it.
Lampirkan(n) ==
    /\ n \in DOMAIN baris /\ Hanya(n) /\ UNCHANGED nomor
    /\ LET b == baris'[n].bukti IN
       /\ b \in arsip /\ b[1] = n
       /\ baris'[n] = [baris[n] EXCEPT !.bukti = b]

\* One row goes, or with an account all the rows of a customer.
Hapus ==
    /\ \/ \E n \in DOMAIN baris : DOMAIN baris' = DOMAIN baris \ {n}
       \/ \E n \in DOMAIN baris :
             DOMAIN baris' = {m \in DOMAIN baris : baris[m].username # baris[n].username}
    /\ \A n \in DOMAIN baris' : baris'[n] = baris[n]
    /\ UNCHANGED <<nomor, harga, arsip, hari>>

\* Prices and files are added and a day goes by; no row is touched.
Luar ==
    /\ harga \subseteq harga' /\ arsip \subseteq arsip' /\ hari <= hari'
    /\ UNCHANGED <<baris, nomor>>

Next ==
    \/ Rekam \/ Hapus \/ Luar
    \/ \E n \in DOMAIN baris : Koreksi(n) \/ Lampirkan(n)

Spec == Init /\ [][Next]_vars
=============================================================================
