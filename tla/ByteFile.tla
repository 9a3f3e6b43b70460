-------------------------------- MODULE ByteFile --------------------------------
(***************************************************************************)
(* What a regular file promises its users: one sequence of bytes, and for  *)
(* each open description a position.  A write puts a prefix of its bytes   *)
(* at the position (at the end with O_APPEND) and moves the position by    *)
(* exactly that prefix; a read moves it by what it returned; an operation  *)
(* that fails moves nothing.  Only a resize that fails may leave the bytes *)
(* beyond the shorter of the two lengths zeroed or cut.                    *)
(***************************************************************************)
EXTENDS Naturals, Sequences

CONSTANTS Val, MaxLen, Id

VARIABLES bytes, position, append

bvars == <<bytes, position, append>>

Pad(s, n) == s \o [k \in 1..(n - Len(s)) |-> 0]
Put(s, at, data) ==
  LET base == IF Len(s) < at + Len(data) THEN Pad(s, at + Len(data)) ELSE s
  IN  [k \in DOMAIN base |-> IF k \in (at + 1)..(at + Len(data)) THEN data[k - at] ELSE base[k]]
Resized(s, n) == IF n <= Len(s) THEN SubSeq(s, 1, n) ELSE Pad(s, n)
Zeroed(s, n) == [k \in DOMAIN s |-> IF k > n THEN 0 ELSE s[k]]

Data == UNION {[1..n -> Val] : n \in 0..2}

Start(i) == IF append[i] THEN Len(bytes) ELSE position[i]

AWrite(i) ==
  \E data \in Data :
    /\ i \in DOMAIN position
    /\ bytes' = (IF data = <<>> THEN bytes ELSE Put(bytes, Start(i), data))
    /\ position' = [position EXCEPT ![i] = Start(i) + Len(data)]
    /\ UNCHANGED append

AWriteAt ==
  \E data \in Data, at \in 0..MaxLen :
    /\ data # <<>> /\ bytes' = Put(bytes, at, data)
    /\ UNCHANGED <<position, append>>

ARead(i) ==
  \E n \in 0..MaxLen :
    /\ i \in DOMAIN position
    /\ position[i] + n <= Len(bytes) \/ n = 0
    /\ position' = [position EXCEPT ![i] = @ + n]
    /\ UNCHANGED <<bytes, append>>

ASeek(i) ==
  \E n \in 0..MaxLen :
    /\ i \in DOMAIN position
    /\ position' = [position EXCEPT ![i] = n]
    /\ UNCHANGED <<bytes, append>>

AResize ==
  \E n \in 0..MaxLen :
    /\ bytes' \in {Resized(bytes, n), Zeroed(bytes, n)}
    /\ UNCHANGED <<position, append>>

\* A description appears at 0, an empty file with it if it truncates; or goes.
AOpen(i) ==
  \E a \in BOOLEAN, empty \in BOOLEAN :
    /\ i \notin DOMAIN position
    /\ bytes' = IF empty THEN <<>> ELSE bytes
    /\ position' = [k \in DOMAIN position \cup {i} |-> IF k = i THEN 0 ELSE position[k]]
    /\ append' = [k \in DOMAIN append \cup {i} |-> IF k = i THEN a ELSE append[k]]

AClose(i) ==
  /\ i \in DOMAIN position
  /\ position' = [k \in DOMAIN position \ {i} |-> position[k]]
  /\ append' = [k \in DOMAIN append \ {i} |-> append[k]]
  /\ UNCHANGED bytes

ASetFlags(i) ==
  /\ i \in DOMAIN append
  /\ \E a \in BOOLEAN : append' = [append EXCEPT ![i] = a]
  /\ UNCHANGED <<bytes, position>>

AInit == bytes = <<>> /\ position = [i \in {} |-> 0] /\ append = [i \in {} |-> FALSE]

ANext ==
  \/ AWriteAt \/ AResize
  \/ \E i \in Id : AWrite(i) \/ ARead(i) \/ ASeek(i) \/ AOpen(i) \/ AClose(i) \/ ASetFlags(i)

ASpec == AInit /\ [][ANext]_bvars
=============================================================================
