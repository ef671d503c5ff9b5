----------------------------- MODULE SesiSerial -----------------------------
(***************************************************************************)
(* What the session extension promises to the scripts, without locks, file *)
(* descriptors or steps of a write: a table of session objects.  A request *)
(* joins the object its id names, sees its content, and replaces it; it    *)
(* replaces exactly the content it saw, whatever other requests did in     *)
(* between.  An object that lost its name never gets one again.            *)
(***************************************************************************)
CONSTANTS Req, Id, Ino, Isi, Kosong, Tiada

VARIABLES
    nama,   \* id -> its session object
    isi,    \* object -> content
    ikut,   \* request -> the object it joined
    lihat   \* request -> the content it saw

vars == <<nama, isi, ikut, lihat>>

Dipakai == {nama[i] : i \in Id} \cup {ikut[r] : r \in Req}

Init ==
    /\ nama = [i \in Id |-> Tiada] /\ isi = [n \in Ino |-> Kosong]
    /\ ikut = [r \in Req |-> Tiada] /\ lihat = [r \in Req |-> Tiada]

\* Objects that nothing refers to any more are empty and may be named anew.
Lepaskan(x) == [n \in Ino |-> IF n \in {nama'[i] : i \in Id} \cup {ikut'[r] : r \in Req}
                              THEN x[n] ELSE Kosong]

Gabung(r) ==
    /\ ikut[r] = Tiada
    /\ \E i \in Id : \E n \in Ino :
         /\ \/ nama[i] = n
            \/ nama[i] = Tiada /\ n \notin Dipakai
         /\ nama' = [nama EXCEPT ![i] = n]
         /\ ikut' = [ikut EXCEPT ![r] = n]
         \* A new session is seen, empty, at once: nobody else knows its id.
         /\ \/ lihat' = lihat
            \/ nama[i] = Tiada /\ lihat' = [lihat EXCEPT ![r] = Kosong]
    /\ UNCHANGED isi

Lihat(r) ==
    /\ ikut[r] # Tiada /\ lihat[r] = Tiada
    /\ lihat' = [lihat EXCEPT ![r] = isi[ikut[r]]]
    /\ UNCHANGED <<nama, isi, ikut>>

(***************************************************************************)
(* The request replaces what it saw and leaves; a request that only looked *)
(* leaves the content as it is.                                            *)
(***************************************************************************)
Ganti(r, d) ==
    /\ ikut[r] # Tiada /\ lihat[r] = isi[ikut[r]]
    /\ ikut' = [ikut EXCEPT ![r] = Tiada]
    /\ lihat' = [lihat EXCEPT ![r] = Tiada]
    /\ nama' = nama
    /\ isi' = Lepaskan([isi EXCEPT ![ikut[r]] = d])

\* A shorter content is written in two steps; a request that dies between
\* them leaves the object empty.
Kosongkan(r) ==
    /\ ikut[r] # Tiada /\ lihat[r] = isi[ikut[r]]
    /\ isi' = [isi EXCEPT ![ikut[r]] = Kosong]
    /\ lihat' = [lihat EXCEPT ![r] = Kosong]
    /\ UNCHANGED <<nama, ikut>>

\* The request dies, or gives the session up to destroy it.
Tinggalkan(r) ==
    /\ ikut[r] # Tiada
    /\ ikut' = [ikut EXCEPT ![r] = Tiada]
    /\ lihat' = [lihat EXCEPT ![r] = Tiada]
    /\ nama' = nama
    /\ isi' = Lepaskan(isi)

\* A session is destroyed, by its owner or by the garbage collection.
Cabut(i) ==
    /\ nama' = [nama EXCEPT ![i] = Tiada]
    /\ UNCHANGED <<ikut, lihat>>
    /\ isi' = Lepaskan(isi)

Next ==
    \/ \E r \in Req : \/ Gabung(r) \/ Lihat(r) \/ Kosongkan(r) \/ Tinggalkan(r)
                      \/ \E d \in Isi : Ganti(r, d)
    \/ \E i \in Id : Cabut(i)

Spec == Init /\ [][Next]_vars
=============================================================================
