------------------------------ MODULE MCDasbor ------------------------------
(* Instances of Dasbor for TLC. *)
EXTENDS Dasbor, MCSiAir

\* The rows at the start are in month 1; today is in month 2.
BulanHarian == [h \in Hari |-> h + 1]
HariKedua == [j \in Waktu |-> 1]

HanyaAdmin == s1 :> adm
LoginDasbor == [u \in {w1, adm, ben} |-> MCLogin[u]]

\* Two rows of one customer, and one of an account that is gone: what two requests
\* of meter_add, and a meter_add over a user_hapus, leave (the runs ganda and hantu).
PemakaianDasbor == 1 :> BarisAwal(w1) @@ 2 :> BarisAwal(w1) @@ 3 :> BarisAwal(pet)

TombolDasbor == {"meter_add", "meter_edit", "user_hapus"}
=============================================================================
