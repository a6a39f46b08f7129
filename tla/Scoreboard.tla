------------------------------ MODULE Scoreboard ------------------------------
(***************************************************************************)
(* What the weight value scoreboard promises, apart from the hash table    *)
(* and the file it is kept in: a map from the keys recorded so far to      *)
(* their hotness, which a clean shutdown stores and the next start finds   *)
(* again.  Wvs is shown to implement it.                                   *)
(***************************************************************************)
EXTENDS Integers

CONSTANTS Keys,    \* the keys the promise is about
          Coldest  \* hotness classes are 0 (HOT) .. Coldest (RARE)

VARIABLES score,   \* the live map, empty while no process runs
          stored,  \* the map a start would find
          stage    \* "down", "up" or "closing"

Empty == [k \in {} |-> 0]
Keep(f, D) == [k \in D |-> f[k]]
Extend(f, k, v) == [x \in DOMAIN f \cup {k} |-> IF x = k THEN v ELSE f[x]]

ScoreboardInit == score = Empty /\ stored = Empty /\ stage = "down"

Start ==
  /\ stage = "down"
  /\ stage' = "up"
  /\ score' = stored
  /\ UNCHANGED stored

\* A first access makes a key HOT, a later one warms it by one class at most.
Access(k) ==
  /\ stage = "up"
  /\ \E h \in 0 .. Coldest :
       /\ IF k \in DOMAIN score THEN h \in {score[k], score[k] - 1} ELSE h = 0
       /\ score' = Extend(score, k, h)
  /\ UNCHANGED <<stored, stage>>

\* Decay cools each key by one class at most and forgets none.
Decay ==
  /\ stage = "up"
  /\ \E D \in SUBSET DOMAIN score :
       /\ \A k \in D : score[k] < Coldest
       /\ score' = [k \in DOMAIN score |-> IF k \in D THEN score[k] + 1 ELSE score[k]]
  /\ UNCHANGED <<stored, stage>>

Clear ==
  /\ stage = "up"
  /\ score' = Empty
  /\ UNCHANGED <<stored, stage>>

\* Shutdown gives up the stored map, then writes the live one key by key.
Close ==
  /\ stage = "up"
  /\ stage' = "closing"
  /\ stored' = Empty
  /\ UNCHANGED score

Store(k) ==
  /\ stage = "closing"
  /\ k \in DOMAIN score
  /\ stored' = Extend(stored, k, score[k])
  /\ UNCHANGED <<score, stage>>

Closed ==
  /\ stage = "closing"
  /\ stored = score
  /\ stage' = "down"
  /\ score' = Empty
  /\ UNCHANGED stored

\* The process dies, or gives up writing: what is stored stays as it is.
Stop ==
  /\ stage # "down"
  /\ stage' = "down"
  /\ score' = Empty
  /\ UNCHANGED stored

ScoreboardNext ==
  \/ Start \/ Decay \/ Clear \/ Close \/ Closed \/ Stop
  \/ \E k \in Keys : Access(k) \/ Store(k)

ScoreboardSpec == ScoreboardInit /\ [][ScoreboardNext]_<<score, stored, stage>>
=============================================================================
