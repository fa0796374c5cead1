------------------------------- MODULE Board -------------------------------
(***************************************************************************)
(* What the publisher promises to whoever reads /metrics: a board of       *)
(* series per (tenant, query) that changes one whole result set at a time. *)
(* Applying a result set writes every number it reports (the last row of   *)
(* a duplicated tuple wins), keeps the value of a cell it could not read,  *)
(* removes the tuples of the previous result set that are gone, and leaves *)
(* every other owner's series alone.  A result set that makes the writer   *)
(* panic may have written some of its series; it removes none and does not *)
(* become the previous result set.                                         *)
(***************************************************************************)
EXTENDS QueryResults

VARIABLES
    board,    \* board[s]: the value of series s, or Absent
    tracked   \* tracked[<<t, q>>]: the tuples of its last applied result set

boardVars == <<board, tracked>>

(* The board once owner o has received rows. *)
Applied(o, rows) ==
    [ s \in Series |->
        IF Owner(s) # o THEN board[s]
        ELSE IF s[4] \in LabelsOf(rows)
             THEN Written(rows, s[3], Writers(rows, s[3], s[4]), board[s])
        ELSE IF s[4] \in tracked[o] THEN Absent
        ELSE board[s] ]

BoardInit ==
    /\ board = [s \in Series |-> Absent]
    /\ tracked = [o \in Owners |-> {}]

Apply(o, rows) ==
    /\ board' = Applied(o, rows)
    /\ tracked' = [tracked EXCEPT ![o] = LabelsOf(rows)]

(* A panic part of the way: only tuples of the rows themselves may have    *)
(* changed, and nothing has disappeared.                                   *)
Spoil(o, rows) ==
    /\ Poisonous(rows)
    /\ DOMAIN board' = Series
    /\ \A s \in Series :
          \/ board'[s] = board[s]
          \/ /\ Owner(s) = o
             /\ s[4] \in LabelsOf(rows) \ BadLabels
             /\ board'[s] \in { rows[i].cell[s[3]] :
                                i \in Writers(rows, s[3], s[4]) }
    /\ UNCHANGED tracked

BoardNext ==
    \E o \in Owners, rows \in Snapshots : Apply(o, rows) \/ Spoil(o, rows)

BoardSpec == BoardInit /\ [][BoardNext]_boardVars

============================================================================
