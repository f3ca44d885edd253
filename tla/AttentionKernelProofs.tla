------------------------ MODULE AttentionKernelProofs ------------------------
(***************************************************************************)
(* For every shape, tile, block and input: the kernel's threads store each *)
(* output element at most once, inside the buffer, what they store is the  *)
(* element of the host reference, and when all have returned no element is *)
(* left over and the work that was estimated has been done.                *)
(***************************************************************************)
EXTENDS AttentionWork, FiniteSetTheorems, TLAPS

(* Arithmetic of the grid: a number has one pair of digits in base n.      *)
LEMMA Digits ==
  ASSUME NEW n \in Nat \ {0}, NEW a \in Nat, NEW b \in 0..n-1,
         NEW c \in Nat, NEW d \in 0..n-1, a * n + b = c * n + d
  PROVE  a = c /\ b = d
<1>1. ASSUME NEW x \in Nat, NEW y \in Nat, x < y PROVE x * n + n <= y * n
  <2>1. PICK e \in Nat : y = x + 1 + e
    <3>1. y - x - 1 \in Nat /\ y = x + 1 + (y - x - 1)
      BY <1>1
    <3>. QED BY <3>1
  <2>2. y * n = x * n + n + e * n
    BY <2>1
  <2>3. e * n >= 0 /\ e * n \in Int /\ x * n \in Int
    OBVIOUS
  <2>. QED BY <2>2, <2>3
<1>2. a * n \in Int /\ c * n \in Int
  OBVIOUS
<1>3. ~(a < c)
  BY <1>1, <1>2
<1>4. ~(c < a)
  BY <1>1, <1>2
<1>. QED BY <1>3, <1>4

LEMMA LaunchFacts ==
  /\ Sequence \in Nat \ {0} /\ HeadDim \in Nat \ {0}
  /\ QueryTile \in Nat \ {0} /\ HeadDimTile \in Nat \ {0}
  /\ BlockDimX \in Nat \ {0} /\ BlockDimY \in 1..QueryTile
  /\ GridX \in Int /\ GridZ \in Int
BY ShapeAssumption DEF BlockDimX, BlockDimY, GridX, GridZ, CeilDiv

LEMMA ThreadFacts ==
  ASSUME NEW t \in Thread
  PROVE  /\ t.x \in Nat /\ t.z \in Nat
         /\ t.tx \in 0..BlockDimX-1 /\ t.ty \in 0..QueryTile-1
         /\ Query(t) \in Nat /\ DimStart(t) \in Nat /\ DimTileEnd(t) \in Nat
<1>1. /\ t.x \in Nat /\ t.z \in Nat
      /\ t.tx \in 0..BlockDimX-1 /\ t.ty \in 0..QueryTile-1
  BY LaunchFacts DEF Thread
<1>2. t.x * QueryTile \in Nat /\ t.z * HeadDimTile \in Nat
  BY <1>1, LaunchFacts
<1>. QED BY <1>1, <1>2, LaunchFacts DEF Query, DimStart, DimTileEnd

(* Row-major indices: in the buffer, and of one row and column only.       *)
LEMMA IndexFacts ==
  /\ \A q \in Row, d \in Col : Index(q, d) \in Element
  /\ \A q, r \in Row, d, e \in Col : Index(q, d) = Index(r, e) => q = r /\ d = e
<1>1. ASSUME NEW q \in Row, NEW d \in Col PROVE Index(q, d) \in Element
  <2>1. q \in Nat /\ q <= Sequence - 1 /\ d \in Nat /\ d < HeadDim
    BY LaunchFacts DEF Row, Col
  <2>2. PICK e \in Nat : Sequence = q + 1 + e
    <3>1. Sequence - q - 1 \in Nat /\ Sequence = q + 1 + (Sequence - q - 1)
      BY <2>1, LaunchFacts
    <3>. QED BY <3>1
  <2>3. Sequence * HeadDim = q * HeadDim + HeadDim + e * HeadDim
    BY <2>1, <2>2, LaunchFacts
  <2>4. q * HeadDim \in Nat /\ e * HeadDim \in Nat
    BY <2>1, LaunchFacts
  <2>. QED BY <2>1, <2>3, <2>4, LaunchFacts DEF Index, Element
<1>2. ASSUME NEW q \in Row, NEW r \in Row, NEW d \in Col, NEW e \in Col,
             Index(q, d) = Index(r, e)
      PROVE  q = r /\ d = e
  <2>1. /\ HeadDim \in Nat \ {0} /\ q \in Nat /\ r \in Nat
        /\ d \in 0..HeadDim-1 /\ e \in 0..HeadDim-1
        /\ q * HeadDim + d = r * HeadDim + e
    BY <1>2, LaunchFacts DEF Row, Col, Index
  <2>. QED BY ONLY <2>1, Digits
<1>. QED BY <1>1, <1>2

(* No element of the output belongs to two threads of the launch.          *)
LEMMA OneOwner ==
  ASSUME NEW t \in Thread, NEW s \in Thread, NEW d \in Nat,
         Query(t) = Query(s), Owns(t, d), Owns(s, d)
  PROVE  t = s
<1>0. /\ BlockDimX \in Nat \ {0} /\ QueryTile \in Nat \ {0} /\ HeadDimTile \in Nat \ {0}
      /\ t.x \in Nat /\ t.z \in Nat /\ s.x \in Nat /\ s.z \in Nat
      /\ t.tx \in 0..BlockDimX-1 /\ t.ty \in 0..QueryTile-1
      /\ s.tx \in 0..BlockDimX-1 /\ s.ty \in 0..QueryTile-1
  BY LaunchFacts, ThreadFacts
<1>1. t.x = s.x /\ t.ty = s.ty
  <2>1. t.x * QueryTile + t.ty = s.x * QueryTile + s.ty
    BY DEF Query
  <2>2. PICK a \in Nat, b \in 0..QueryTile-1 : a = t.x /\ b = t.ty
    BY <1>0
  <2>3. PICK c \in Nat, e \in 0..QueryTile-1 : c = s.x /\ e = s.ty
    BY <1>0
  <2>4. /\ QueryTile \in Nat \ {0} /\ a \in Nat /\ c \in Nat
        /\ b \in 0..QueryTile-1 /\ e \in 0..QueryTile-1
        /\ a * QueryTile + b = c * QueryTile + e
    BY <1>0, <2>1, <2>2, <2>3
  <2>5. a = c /\ b = e
    BY ONLY <2>4, Digits
  <2>. QED BY <2>2, <2>3, <2>5
<1>2. PICK i \in Nat : d = DimStart(t) + i * BlockDimX
  BY DEF Owns
<1>3. PICK j \in Nat : d = DimStart(s) + j * BlockDimX
  BY DEF Owns
<1>4. i * BlockDimX \in Nat /\ j * BlockDimX \in Nat
      /\ t.z * HeadDimTile \in Nat /\ s.z * HeadDimTile \in Nat
  BY <1>0, <1>2, <1>3
<1>5. PICK o \in 0..HeadDimTile-1 :
        o = t.tx + i * BlockDimX /\ d = t.z * HeadDimTile + o
  BY <1>0, <1>2, <1>4 DEF Owns, DimStart, DimTileEnd
<1>6. PICK p \in 0..HeadDimTile-1 :
        p = s.tx + j * BlockDimX /\ d = s.z * HeadDimTile + p
  BY <1>0, <1>3, <1>4 DEF Owns, DimStart, DimTileEnd
<1>7. t.z = s.z /\ o = p
  <2>1. PICK a \in Nat, c \in Nat : a = t.z /\ c = s.z
    BY <1>0
  <2>2. /\ HeadDimTile \in Nat \ {0} /\ a \in Nat /\ c \in Nat
        /\ o \in 0..HeadDimTile-1 /\ p \in 0..HeadDimTile-1
        /\ a * HeadDimTile + o = c * HeadDimTile + p
    BY <1>0, <1>5, <1>6, <2>1
  <2>3. a = c /\ o = p
    BY ONLY <2>2, Digits
  <2>. QED BY <2>1, <2>3
<1>8. t.tx = s.tx
  <2>1. PICK b \in 0..BlockDimX-1, e \in 0..BlockDimX-1 : b = t.tx /\ e = s.tx
    BY <1>0
  <2>2. /\ BlockDimX \in Nat \ {0} /\ i \in Nat /\ j \in Nat
        /\ b \in 0..BlockDimX-1 /\ e \in 0..BlockDimX-1
        /\ i * BlockDimX + b = j * BlockDimX + e
    BY <1>0, <1>4, <1>5, <1>6, <1>7, <2>1
  <2>3. b = e
    BY ONLY <2>2, Digits
  <2>. QED BY <2>1, <2>3
<1>. QED BY <1>1, <1>7, <1>8 DEF Thread
-----------------------------------------------------------------------------
(* The host reference.                                                     *)

LEMMA DotFacts ==
  ASSUME NEW q \in Row, NEW k \in Row
  PROVE  /\ \A n \in 0..HeadDim : Dot[q][k][n] \in Int
         /\ Dot[q][k][0] = 0
         /\ \A n \in Col : /\ Q[Index(q, n)] \in Int /\ K[Index(k, n)] \in Int
                           /\ Dot[q][k][n + 1] =
                                Dot[q][k][n] + Q[Index(q, n)] * K[Index(k, n)]
         /\ Score(q, k) \in Int
<1>1. \A n \in 0..HeadDim : Dot[q][k][n] \in Int
  <2>1. Dot[q] \in [Row -> [0..HeadDim -> Int]]
    BY DotAssumption, Zenon
  <2>2. Dot[q][k] \in [0..HeadDim -> Int]
    BY <2>1, Zenon
  <2>. QED BY <2>2, Zenon
<1>2. HeadDim \in 0..HeadDim
  BY LaunchFacts
<1>3. \A n \in Col : Q[Index(q, n)] \in Int /\ K[Index(k, n)] \in Int
  BY InputAssumption, IndexFacts
<1>. QED BY <1>1, <1>2, <1>3, DotAssumption DEF Score

(* The scan over all keys ends with the host's maximum.                    *)
LEMMA ScanIsHostMax ==
  ASSUME NEW q \in Row, NEW m \in Int, IsMaxBelow(m, q, Sequence)
  PROVE  m = HostMax(q)
<1>. DEFINE IsMax(x) == \A k \in Row : Score(q, k) <= x
<1>1. m \in {Score(q, k) : k \in Row} /\ IsMax(m)
  BY DEF IsMaxBelow, Row
<1>2. ASSUME NEW x \in {Score(q, k) : k \in Row}, IsMax(x) PROVE x = m
  <2>1. PICK k \in Row : x = Score(q, k)
    BY <1>2
  <2>2. PICK l \in Row : m = Score(q, l)
    BY <1>1
  <2>3. x <= m /\ m <= x /\ x \in Int
    BY <1>1, <1>2, <2>1, <2>2, DotFacts
  <2>. QED BY <2>3
<1>3. /\ HostMax(q) \in {Score(q, k) : k \in Row}
      /\ IsMax(HostMax(q))
  BY <1>1 DEF HostMax
<1>. QED BY <1>2, <1>3

-----------------------------------------------------------------------------
(* A step of one thread and the others.                                    *)

SameRegisters(s) ==
  /\ at'[s] = at[s] /\ dim'[s] = dim[s] /\ key'[s] = key[s]
  /\ depth'[s] = depth[s] /\ dot'[s] = dot[s] /\ maxScore'[s] = maxScore[s]
  /\ denom'[s] = denom[s] /\ numer'[s] = numer[s]

LEMMA OthersUntouched ==
  ASSUME KernelTypeOK, NEW t \in Thread, ThreadStep(t), NEW s \in Thread, s # t
  PROVE  SameRegisters(s)
<1>. USE DEF KernelTypeOK, SameRegisters, Goto, StartDot
<1>1. CASE Entry(t) BY <1>1 DEF Entry
<1>2. CASE NextDim(t) BY <1>2 DEF NextDim
<1>3. CASE LastDim(t) BY <1>3 DEF LastDim
<1>4. CASE DotStep(t) BY <1>4 DEF DotStep
<1>5. CASE Score0Done(t) BY <1>5 DEF Score0Done
<1>6. CASE NextMaxKey(t) BY <1>6 DEF NextMaxKey
<1>7. CASE MaxUpdate(t) BY <1>7 DEF MaxUpdate
<1>8. CASE MaxDone(t) BY <1>8 DEF MaxDone
<1>9. CASE NextSoftmaxKey(t) BY <1>9 DEF NextSoftmaxKey
<1>10. CASE SoftmaxUpdate(t) BY <1>10 DEF SoftmaxUpdate
<1>11. CASE SoftmaxDone(t) BY <1>11 DEF SoftmaxDone
<1>12. CASE StoreOutput(t) BY <1>12 DEF StoreOutput
<1>. QED BY <1>1, <1>2, <1>3, <1>4, <1>5, <1>6, <1>7, <1>8, <1>9, <1>10,
            <1>11, <1>12 DEF ThreadStep

LEMMA RegistersDecide ==
  ASSUME NEW s \in Thread, SameRegisters(s), CellInProgress(s)
  PROVE  CellInProgress(s)'
<1>. USE DEF CellInProgress, SameRegisters
<1>1. OnOwnCell(s)'
  BY DEF OnOwnCell, HasDim
<1>2. DotIsPartial(s)'
  BY DEF DotIsPartial
<1>3. MaxIsPartial(s)'
  BY DEF MaxIsPartial
<1>4. SumsArePartial(s)'
  BY DEF SumsArePartial
<1>. QED BY <1>1, <1>2, <1>3, <1>4

(* What the invariant says of a thread at work on a cell.                  *)
LEMMA AtWork ==
  ASSUME KernelTypeOK, NEW t \in Thread, OnOwnCell(t), at[t] \in Working
  PROVE  Query(t) \in Row /\ dim[t] \in Col /\ Owns(t, dim[t])
BY ThreadFacts, LaunchFacts
   DEF KernelTypeOK, OnOwnCell, HasDim, Owns, Working, Label, Row, Col

-----------------------------------------------------------------------------
(* Each action keeps the registers typed and the thread's own cell right.  *)

LEMMA EntryStep ==
  ASSUME KernelTypeOK, NEW t \in Thread, CellInProgress(t), Entry(t)
  PROVE  KernelTypeOK' /\ CellInProgress(t)'
<1>1. KernelTypeOK'
  BY ThreadFacts DEF KernelTypeOK, Entry, Goto, Label
<1>2. /\ at'[t] = IF QueryOob(t) THEN "exit" ELSE "dim_loop"
      /\ dim'[t] = DimStart(t)
  BY DEF KernelTypeOK, Entry, Goto
<1>3. OnOwnCell(t)'
  <2>1. DimStart(t) = DimStart(t) + 0 * BlockDimX
    BY ThreadFacts, LaunchFacts
  <2>. QED BY <1>2, <2>1, ThreadFacts, LaunchFacts
           DEF OnOwnCell, QueryOob, Working, Label
<1>. QED BY <1>1, <1>2, <1>3
         DEF CellInProgress, DotIsPartial, DotLoop, MaxIsPartial, SumsArePartial

LEMMA NextDimStep ==
  ASSUME KernelTypeOK, NEW t \in Thread, CellInProgress(t), NextDim(t)
  PROVE  KernelTypeOK' /\ CellInProgress(t)'
<1>. USE DEF KernelTypeOK, NextDim, StartDot, Goto
<1>1. KernelTypeOK'
  BY LaunchFacts DEF Label, DotLoop
<1>2. /\ at[t] = "dim_loop" /\ at'[t] = "score0_dot_loop" /\ HasDim(t)
      /\ key'[t] = 0 /\ depth'[t] = 0 /\ dot'[t] = 0 /\ dim'[t] = dim[t]
  OBVIOUS
<1>3. OnOwnCell(t)'
  BY <1>2 DEF CellInProgress, OnOwnCell, HasDim
<1>4. DotIsPartial(t)'
  <2>1. Query(t) \in Row /\ 0 \in Row
    BY <1>2, ThreadFacts, LaunchFacts DEF CellInProgress, OnOwnCell, Row
  <2>. QED BY <1>2, <2>1, DotFacts DEF DotIsPartial
<1>. QED BY <1>1, <1>2, <1>3, <1>4
         DEF CellInProgress, MaxIsPartial, SumsArePartial

LEMMA LastDimStep ==
  ASSUME KernelTypeOK, NEW t \in Thread, CellInProgress(t), LastDim(t)
  PROVE  KernelTypeOK' /\ CellInProgress(t)'
<1>. USE DEF KernelTypeOK, LastDim, Goto
<1>1. KernelTypeOK'
  BY DEF Label
<1>2. at'[t] = "exit"
  OBVIOUS
<1>. QED BY <1>1, <1>2
         DEF CellInProgress, OnOwnCell, Working, DotIsPartial, DotLoop,
             MaxIsPartial, SumsArePartial

LEMMA DotStepStep ==
  ASSUME KernelTypeOK, NEW t \in Thread, CellInProgress(t), DotStep(t)
  PROVE  KernelTypeOK' /\ CellInProgress(t)'
<1>. DEFINE sum == dot[t] + Q[Index(Query(t), depth[t])]
                              * K[Index(key[t], depth[t])]
<1>0. Query(t) \in Row /\ key[t] \in Row /\ dot[t] = Dot[Query(t)][key[t]][depth[t]]
  <2>1. at[t] \in Working /\ at[t] \in DotLoop
    BY DEF DotStep, Working, Label, DotLoop
  <2>. QED BY <2>1, AtWork DEF CellInProgress, DotIsPartial
<1>1. sum = Dot[Query(t)][key[t]][depth[t] + 1] /\ sum \in Int
      /\ depth[t] + 1 \in 0..HeadDim
  <2>1. depth[t] \in 0..HeadDim /\ depth[t] < HeadDim
    BY DEF KernelTypeOK, DotStep
  <2>2. depth[t] \in Col /\ depth[t] + 1 \in 0..HeadDim
    BY <2>1, LaunchFacts DEF Col
  <2>3. /\ sum = Dot[Query(t)][key[t]][depth[t] + 1]
        /\ Dot[Query(t)][key[t]][depth[t] + 1] \in Int
    <3>1. PICK q \in Row, k \in Row, n \in Col :
            q = Query(t) /\ k = key[t] /\ n = depth[t]
      BY <1>0, <2>2
    <3>2. Dot[q][k][n + 1] = Dot[q][k][n] + Q[Index(q, n)] * K[Index(k, n)]
      BY DotFacts
    <3>3. n + 1 \in 0..HeadDim
      BY <2>2, <3>1
    <3>4. Dot[q][k][n + 1] \in Int
      BY <3>3, DotFacts
    <3>. QED BY <1>0, <3>1, <3>2, <3>4
  <2>. QED BY <2>2, <2>3
<1>2. /\ at' = at /\ dim' = dim /\ key' = key /\ maxScore' = maxScore
      /\ denom' = denom /\ numer' = numer /\ out' = out
      /\ dot' = [dot EXCEPT ![t] = sum]
      /\ depth' = [depth EXCEPT ![t] = depth[t] + 1]
  BY DEF DotStep
<1>. HIDE DEF sum
<1>3. KernelTypeOK'
  BY <1>1, <1>2 DEF KernelTypeOK
<1>4. dot'[t] = sum /\ depth'[t] = depth[t] + 1
  BY <1>2 DEF KernelTypeOK
<1>5. OnOwnCell(t)'
  BY <1>2 DEF CellInProgress, OnOwnCell, HasDim
<1>6. DotIsPartial(t)'
  BY <1>0, <1>1, <1>2, <1>4 DEF DotIsPartial
<1>7. MaxIsPartial(t)' /\ SumsArePartial(t)'
  BY <1>2 DEF CellInProgress, MaxIsPartial, SumsArePartial
<1>. QED BY <1>3, <1>5, <1>6, <1>7 DEF CellInProgress

(* A finished dot loop holds the score of its key.                         *)
LEMMA DotLoopDone ==
  ASSUME KernelTypeOK, NEW t \in Thread, CellInProgress(t),
         NEW label \in DotLoop, DotDone(t, label)
  PROVE  /\ Query(t) \in Row /\ key[t] \in Row /\ dim[t] \in Col
         /\ dot[t] = Score(Query(t), key[t]) /\ dot[t] \in Int
<1>1. depth[t] = HeadDim
  BY LaunchFacts DEF KernelTypeOK, DotDone
<1>2. /\ Query(t) \in Row /\ dim[t] \in Col /\ key[t] \in Row
      /\ dot[t] = Dot[Query(t)][key[t]][depth[t]]
  BY AtWork DEF DotDone, CellInProgress, DotIsPartial, Working, Label, DotLoop
<1>. QED BY <1>1, <1>2 DEF Score, KernelTypeOK

LEMMA Score0DoneStep ==
  ASSUME KernelTypeOK, NEW t \in Thread, CellInProgress(t), Score0Done(t)
  PROVE  KernelTypeOK' /\ CellInProgress(t)'
<1>0. /\ Query(t) \in Row /\ key[t] \in Row
      /\ dot[t] = Score(Query(t), key[t]) /\ dot[t] \in Int
  BY DotLoopDone DEF Score0Done, DotLoop
<1>1. KernelTypeOK'
  BY <1>0, LaunchFacts DEF KernelTypeOK, Score0Done, Goto, Label
<1>2. /\ at[t] = "score0_dot_loop" /\ at'[t] = "max_key_loop"
      /\ maxScore'[t] = dot[t] /\ key'[t] = 1 /\ dim'[t] = dim[t]
  BY DEF KernelTypeOK, Score0Done, DotDone, Goto
<1>3. OnOwnCell(t)'
  BY <1>2 DEF CellInProgress, OnOwnCell, HasDim, Working, Label, DotLoop
<1>4. MaxIsPartial(t)'
  <2>1. key[t] = 0
    BY <1>2 DEF CellInProgress, MaxIsPartial
  <2>2. IsMaxBelow(dot[t], Query(t), 1)
    BY <1>0, <2>1 DEF IsMaxBelow
  <2>. QED BY <1>2, <2>2 DEF MaxIsPartial
<1>. QED BY <1>1, <1>2, <1>3, <1>4
         DEF CellInProgress, DotIsPartial, DotLoop, SumsArePartial

LEMMA NextMaxKeyStep ==
  ASSUME KernelTypeOK, NEW t \in Thread, CellInProgress(t), NextMaxKey(t)
  PROVE  KernelTypeOK' /\ CellInProgress(t)'
<1>1. KernelTypeOK'
  BY LaunchFacts DEF KernelTypeOK, NextMaxKey, StartDot, Goto, Label, DotLoop
<1>2. /\ at[t] = "max_key_loop" /\ at'[t] = "max_dot_loop" /\ key[t] < Sequence
      /\ depth'[t] = 0 /\ dot'[t] = 0
      /\ dim' = dim /\ key' = key /\ maxScore' = maxScore
  BY DEF KernelTypeOK, NextMaxKey, StartDot, Goto
<1>3. OnOwnCell(t)'
  BY <1>2 DEF CellInProgress, OnOwnCell, HasDim, Working, Label
<1>4. DotIsPartial(t)'
  <2>1. Query(t) \in Row
    BY <1>2, AtWork DEF CellInProgress, Working, Label
  <2>2. key[t] \in Row
    BY <1>2, LaunchFacts DEF KernelTypeOK, Row
  <2>3. Dot[Query(t)][key[t]][0] = 0
    BY <2>1, <2>2, DotFacts
  <2>. QED BY <1>2, <2>2, <2>3 DEF DotIsPartial
<1>5. MaxIsPartial(t)'
  BY <1>2 DEF CellInProgress, MaxIsPartial
<1>. QED BY <1>1, <1>2, <1>3, <1>4, <1>5 DEF CellInProgress, SumsArePartial

LEMMA MaxUpdateStep ==
  ASSUME KernelTypeOK, NEW t \in Thread, CellInProgress(t), MaxUpdate(t)
  PROVE  KernelTypeOK' /\ CellInProgress(t)'
<1>. DEFINE best == IF dot[t] > maxScore[t] THEN dot[t] ELSE maxScore[t]
<1>0. /\ Query(t) \in Row /\ key[t] \in Row
      /\ dot[t] = Score(Query(t), key[t]) /\ dot[t] \in Int /\ maxScore[t] \in Int
  BY DotLoopDone DEF MaxUpdate, DotLoop, KernelTypeOK
<1>1. key[t] + 1 \in 0..Sequence /\ best \in Int
  BY <1>0, LaunchFacts DEF Row
<1>2. /\ at[t] = "max_dot_loop" /\ at' = [at EXCEPT ![t] = "max_key_loop"]
      /\ maxScore' = [maxScore EXCEPT ![t] = best]
      /\ key' = [key EXCEPT ![t] = key[t] + 1]
      /\ UNCHANGED <<dim, depth, dot, denom, numer, out>>
  BY DEF MaxUpdate, DotDone, Goto, Larger, KeyNext, KernelTypeOK
<1>3. KernelTypeOK'
  <2>. HIDE DEF best
  <2>. QED BY <1>1, <1>2 DEF KernelTypeOK, Label
<1>4. /\ at'[t] = "max_key_loop" /\ maxScore'[t] = best /\ key'[t] = key[t] + 1
      /\ dim'[t] = dim[t]
  BY <1>2 DEF KernelTypeOK
<1>5. OnOwnCell(t)'
  BY <1>2, <1>4 DEF CellInProgress, OnOwnCell, HasDim, Working, Label, DotLoop
<1>6. MaxIsPartial(t)'
  <2>1. IsMaxBelow(maxScore[t], Query(t), key[t])
    BY <1>2 DEF CellInProgress, MaxIsPartial
  <2>2. \A k \in 0..key[t] : k \in 0..key[t]-1 \/ k = key[t]
    BY <1>0 DEF Row
  <2>3. \A k \in 0..key[t] : Score(Query(t), k) \in Int
    <3>1. \A k \in 0..key[t] : k \in Row
      BY <1>0, LaunchFacts DEF Row
    <3>. QED BY <1>0, <3>1, DotFacts
  <2>4. \A k \in 0..key[t] : Score(Query(t), k) <= best
    BY <1>0, <2>1, <2>2, <2>3 DEF IsMaxBelow
  <2>5. \E k \in 0..key[t] : best = Score(Query(t), k)
    <3>1. CASE best = dot[t]
      BY <1>0, <3>1 DEF Row
    <3>2. CASE best = maxScore[t]
      BY <1>0, <2>1, <3>2 DEF IsMaxBelow, Row
    <3>. QED BY <3>1, <3>2
  <2>6. (key[t] + 1) - 1 = key[t]
    BY <1>0 DEF Row
  <2>7. IsMaxBelow(best, Query(t), key[t] + 1)
    <3>. HIDE DEF best
    <3>. QED BY <2>4, <2>5, <2>6 DEF IsMaxBelow
  <2>. QED BY <1>4, <2>7 DEF MaxIsPartial
<1>. QED BY <1>3, <1>4, <1>5, <1>6
         DEF CellInProgress, DotIsPartial, DotLoop, SumsArePartial

LEMMA MaxDoneStep ==
  ASSUME KernelTypeOK, NEW t \in Thread, CellInProgress(t), MaxDone(t)
  PROVE  KernelTypeOK' /\ CellInProgress(t)'
<1>1. KernelTypeOK'
  BY LaunchFacts DEF KernelTypeOK, MaxDone, Goto, Label, InitialSum
<1>2. /\ at[t] = "max_key_loop" /\ at'[t] = "softmax_key_loop"
      /\ key[t] = Sequence /\ key'[t] = 0 /\ denom'[t] = <<>> /\ numer'[t] = <<>>
      /\ dim' = dim /\ maxScore' = maxScore
  BY LaunchFacts DEF KernelTypeOK, MaxDone, Goto, InitialSum
<1>3. OnOwnCell(t)'
  BY <1>2 DEF CellInProgress, OnOwnCell, HasDim, Working, Label
<1>4. MaxIsPartial(t)'
  <2>1. Query(t) \in Row /\ maxScore[t] \in Int
    BY <1>2, AtWork DEF CellInProgress, Working, Label, KernelTypeOK
  <2>2. IsMaxBelow(maxScore[t], Query(t), Sequence)
    BY <1>2 DEF CellInProgress, MaxIsPartial
  <2>3. maxScore[t] = HostMax(Query(t))
    BY <2>1, <2>2, ScanIsHostMax
  <2>. QED BY <1>2, <2>3 DEF MaxIsPartial
<1>5. SumsArePartial(t)'
  BY <1>2 DEF SumsArePartial
<1>. QED BY <1>1, <1>2, <1>3, <1>4, <1>5 DEF CellInProgress, DotIsPartial, DotLoop

LEMMA NextSoftmaxKeyStep ==
  ASSUME KernelTypeOK, NEW t \in Thread, CellInProgress(t), NextSoftmaxKey(t)
  PROVE  KernelTypeOK' /\ CellInProgress(t)'
<1>1. KernelTypeOK'
  BY LaunchFacts DEF KernelTypeOK, NextSoftmaxKey, StartDot, Goto, Label, DotLoop
<1>2. /\ at[t] = "softmax_key_loop" /\ at'[t] = "softmax_dot_loop"
      /\ key[t] < Sequence /\ depth'[t] = 0 /\ dot'[t] = 0
      /\ dim' = dim /\ key' = key /\ maxScore' = maxScore
      /\ denom' = denom /\ numer' = numer
  BY DEF KernelTypeOK, NextSoftmaxKey, StartDot, Goto
<1>3. OnOwnCell(t)'
  BY <1>2 DEF CellInProgress, OnOwnCell, HasDim, Working, Label
<1>4. DotIsPartial(t)'
  <2>1. Query(t) \in Row
    BY <1>2, AtWork DEF CellInProgress, Working, Label
  <2>2. key[t] \in Row
    BY <1>2, LaunchFacts DEF KernelTypeOK, Row
  <2>3. Dot[Query(t)][key[t]][0] = 0
    BY <2>1, <2>2, DotFacts
  <2>. QED BY <1>2, <2>2, <2>3 DEF DotIsPartial
<1>5. MaxIsPartial(t)'
  BY <1>2 DEF CellInProgress, MaxIsPartial
<1>6. SumsArePartial(t)'
  BY <1>2 DEF CellInProgress, SumsArePartial
<1>. QED BY <1>1, <1>3, <1>4, <1>5, <1>6 DEF CellInProgress

LEMMA SoftmaxUpdateStep ==
  ASSUME KernelTypeOK, NEW t \in Thread, CellInProgress(t), SoftmaxUpdate(t)
  PROVE  KernelTypeOK' /\ CellInProgress(t)'
<1>. DEFINE weight == Weight(dot[t], maxScore[t])
            value == WeightedValue(dot[t], maxScore[t], V[Index(key[t], dim[t])])
<1>0. /\ Query(t) \in Row /\ key[t] \in Row /\ dim[t] \in Col
      /\ dot[t] = Score(Query(t), key[t]) /\ dot[t] \in Int /\ maxScore[t] \in Int
      /\ denom[t] \in Seq(Int) /\ numer[t] \in Seq(Int \X Int)
  BY DotLoopDone DEF SoftmaxUpdate, DotLoop, KernelTypeOK
<1>1. weight \in Int /\ value \in Int \X Int /\ key[t] + 1 \in 0..Sequence
  <2>1. V[Index(key[t], dim[t])] \in Int
    BY <1>0, InputAssumption, IndexFacts
  <2>2. key[t] + 1 \in 0..Sequence
    <3>. HIDE DEF weight, value
    <3>. QED BY <1>0, LaunchFacts DEF Row
  <2>. QED BY <1>0, <2>1, <2>2 DEF Weight, WeightedValue
<1>2. /\ at[t] = "softmax_dot_loop" /\ at' = [at EXCEPT ![t] = "softmax_key_loop"]
      /\ denom' = [denom EXCEPT ![t] = Append(denom[t], weight)]
      /\ numer' = [numer EXCEPT ![t] = Append(numer[t], value)]
      /\ key' = [key EXCEPT ![t] = key[t] + 1]
      /\ UNCHANGED <<dim, depth, dot, maxScore, out>>
  BY DEF SoftmaxUpdate, DotDone, Goto, KeyNext, KernelTypeOK
<1>. HIDE DEF weight, value
<1>3. /\ Append(denom[t], weight) \in Seq(Int)
      /\ Append(numer[t], value) \in Seq(Int \X Int)
  BY <1>0, <1>1
<1>4. KernelTypeOK'
  BY <1>1, <1>2, <1>3 DEF KernelTypeOK, Label
<1>5. /\ at'[t] = "softmax_key_loop" /\ key'[t] = key[t] + 1 /\ dim'[t] = dim[t]
      /\ denom'[t] = Append(denom[t], weight) /\ numer'[t] = Append(numer[t], value)
      /\ maxScore'[t] = maxScore[t]
  BY <1>2 DEF KernelTypeOK
<1>6. OnOwnCell(t)'
  BY <1>2, <1>5 DEF CellInProgress, OnOwnCell, HasDim, Working, Label, DotLoop
<1>7. maxScore[t] = HostMax(Query(t))
  BY <1>2 DEF CellInProgress, MaxIsPartial
<1>8. MaxIsPartial(t)'
  BY <1>5, <1>7 DEF MaxIsPartial
<1>9. SumsArePartial(t)'
  <2>1. /\ Len(denom[t]) = key[t] /\ Len(numer[t]) = key[t]
        /\ \A k \in 1..key[t] :
             /\ denom[t][k] = Weight(Score(Query(t), k - 1), HostMax(Query(t)))
             /\ numer[t][k] = WeightedValue(Score(Query(t), k - 1),
                                HostMax(Query(t)), V[Index(k - 1, dim[t])])
    BY <1>2 DEF CellInProgress, SumsArePartial
  <2>2. /\ Len(Append(denom[t], weight)) = key[t] + 1
        /\ Len(Append(numer[t], value)) = key[t] + 1
        /\ Append(denom[t], weight)[key[t] + 1] = weight
        /\ Append(numer[t], value)[key[t] + 1] = value
        /\ \A k \in 1..key[t] : /\ Append(denom[t], weight)[k] = denom[t][k]
                                /\ Append(numer[t], value)[k] = numer[t][k]
    BY <1>0, <1>1, <2>1
  <2>3. /\ weight = Weight(Score(Query(t), key[t]), HostMax(Query(t)))
        /\ value = WeightedValue(Score(Query(t), key[t]), HostMax(Query(t)),
                                 V[Index(key[t], dim[t])])
    <3>1. dot[t] = Score(Query(t), key[t])
      BY <1>0
    <3>. QED BY <3>1, <1>7 DEF weight, value
  <2>4. \A k \in 1..key[t]+1 :
          /\ Append(denom[t], weight)[k]
               = Weight(Score(Query(t), k - 1), HostMax(Query(t)))
          /\ Append(numer[t], value)[k]
               = WeightedValue(Score(Query(t), k - 1),
                               HostMax(Query(t)), V[Index(k - 1, dim[t])])
    <3>. TAKE k \in 1..key[t]+1
    <3>1. CASE k = key[t] + 1
      <4>1. k - 1 = key[t]
        BY <1>0, <3>1 DEF Row
      <4>. QED BY <2>2, <2>3, <3>1, <4>1
    <3>2. CASE k # key[t] + 1
      <4>1. k \in 1..key[t]
        BY <1>0, <3>2 DEF Row
      <4>. QED BY <2>1, <2>2, <4>1
    <3>. QED BY <3>1, <3>2
  <2>. QED BY <1>5, <2>2, <2>4 DEF SumsArePartial
<1>. QED BY <1>4, <1>5, <1>6, <1>8, <1>9 DEF CellInProgress, DotIsPartial, DotLoop

LEMMA SoftmaxDoneStep ==
  ASSUME KernelTypeOK, NEW t \in Thread, CellInProgress(t), SoftmaxDone(t)
  PROVE  KernelTypeOK' /\ CellInProgress(t)'
<1>1. KernelTypeOK'
  BY DEF KernelTypeOK, SoftmaxDone, Goto, Label
<1>2. /\ at[t] = "softmax_key_loop" /\ at'[t] = "store_output"
      /\ key[t] = Sequence
      /\ dim' = dim /\ key' = key /\ maxScore' = maxScore
      /\ denom' = denom /\ numer' = numer
  BY LaunchFacts DEF KernelTypeOK, SoftmaxDone, Goto
<1>3. OnOwnCell(t)'
  BY <1>2 DEF CellInProgress, OnOwnCell, HasDim, Working, Label
<1>4. MaxIsPartial(t)' /\ SumsArePartial(t)'
  BY <1>2 DEF CellInProgress, MaxIsPartial, SumsArePartial
<1>. QED BY <1>1, <1>2, <1>3, <1>4 DEF CellInProgress, DotIsPartial, DotLoop

LEMMA StoreOutputStep ==
  ASSUME KernelTypeOK, NEW t \in Thread, CellInProgress(t), StoreOutput(t)
  PROVE  KernelTypeOK' /\ CellInProgress(t)'
<1>0. dim[t] \in Nat /\ dim[t] + BlockDimX \in Nat
  BY LaunchFacts DEF KernelTypeOK
<1>1. KernelTypeOK'
  BY <1>0 DEF KernelTypeOK, StoreOutput, DimNext, Goto, Label
<1>2. /\ at[t] = "store_output" /\ at'[t] = "dim_loop"
      /\ dim'[t] = dim[t] + BlockDimX
  BY DEF KernelTypeOK, StoreOutput, DimNext, Goto
<1>3. OnOwnCell(t)'
  <2>1. PICK j \in Nat : dim[t] = DimStart(t) + j * BlockDimX
    BY <1>2 DEF CellInProgress, OnOwnCell
  <2>2. dim[t] + BlockDimX = DimStart(t) + (j + 1) * BlockDimX
    <3>1. (j + 1) * BlockDimX = j * BlockDimX + BlockDimX /\ j * BlockDimX \in Nat
      BY LaunchFacts
    <3>. QED BY <2>1, <3>1, ThreadFacts, LaunchFacts
  <2>3. \E i \in Nat : dim'[t] = DimStart(t) + i * BlockDimX
    BY <1>2, <2>2
  <2>. QED BY <1>2, <2>3 DEF CellInProgress, OnOwnCell, Working, Label
<1>. QED BY <1>1, <1>2, <1>3
         DEF CellInProgress, DotIsPartial, DotLoop, MaxIsPartial, SumsArePartial

-----------------------------------------------------------------------------
(* The output buffer.                                                      *)

(* No thread re-enters, and the column a thread is at only grows.          *)
LEMMA ColumnsGrow ==
  ASSUME KernelTypeOK, NEW t \in Thread, ThreadStep(t)
  PROVE  /\ at'[t] # "entry"
         /\ at[t] # "entry" => dim[t] <= dim'[t] /\ dim'[t] \in Nat
<1>. USE LaunchFacts DEF KernelTypeOK, Goto, StartDot
<1>1. CASE Entry(t) BY <1>1 DEF Entry
<1>2. CASE NextDim(t) BY <1>2 DEF NextDim
<1>3. CASE LastDim(t) BY <1>3 DEF LastDim
<1>4. CASE DotStep(t) BY <1>4 DEF DotStep, DotLoop
<1>5. CASE Score0Done(t) BY <1>5 DEF Score0Done
<1>6. CASE NextMaxKey(t) BY <1>6 DEF NextMaxKey
<1>7. CASE MaxUpdate(t) BY <1>7 DEF MaxUpdate
<1>8. CASE MaxDone(t) BY <1>8 DEF MaxDone
<1>9. CASE NextSoftmaxKey(t) BY <1>9 DEF NextSoftmaxKey
<1>10. CASE SoftmaxUpdate(t) BY <1>10 DEF SoftmaxUpdate
<1>11. CASE SoftmaxDone(t) BY <1>11 DEF SoftmaxDone
<1>12. CASE StoreOutput(t) BY <1>12 DEF StoreOutput, DimNext
<1>. QED BY <1>1, <1>2, <1>3, <1>4, <1>5, <1>6, <1>7, <1>8, <1>9, <1>10,
            <1>11, <1>12 DEF ThreadStep

LEMMA OwnersStay ==
  ASSUME KernelTypeOK, NEW t \in Thread, ThreadStep(t),
         NEW s \in Thread, NEW d \in Nat, at[s] # "entry", d < dim[s]
  PROVE  at'[s] # "entry" /\ d < dim'[s]
<1>1. CASE s = t
  <2>1. at'[t] # "entry" /\ dim[t] <= dim'[t] /\ dim'[t] \in Nat
    BY <1>1, ColumnsGrow
  <2>2. dim[t] \in Nat /\ d < dim[t]
    BY <1>1 DEF KernelTypeOK
  <2>. QED BY <1>1, <2>1, <2>2
<1>2. CASE s # t
  BY <1>2, OthersUntouched DEF SameRegisters
<1>. QED BY <1>1, <1>2

(* What a thread stores is the reference value of the cell it is at.       *)
LEMMA StoredValue ==
  ASSUME KernelTypeOK, NEW t \in Thread, CellInProgress(t), at[t] = "store_output"
  PROVE  Quotient(numer[t], denom[t]) = HostCell(Query(t), dim[t])
<1>1. /\ denom[t] \in Seq(Int) /\ numer[t] \in Seq(Int \X Int)
      /\ Len(denom[t]) = Sequence /\ Len(numer[t]) = Sequence
      /\ \A k \in 1..Sequence :
           /\ denom[t][k] = Weight(Score(Query(t), k - 1), HostMax(Query(t)))
           /\ numer[t][k] = WeightedValue(Score(Query(t), k - 1),
                              HostMax(Query(t)), V[Index(k - 1, dim[t])])
  BY DEF KernelTypeOK, CellInProgress, SumsArePartial
<1>2. denom[t] = HostDenom(Query(t))
  <2>1. denom[t] = [k \in 1..Sequence |-> denom[t][k]]
    BY <1>1, LaunchFacts
  <2>2. [k \in 1..Sequence |-> denom[t][k]] = HostDenom(Query(t))
    BY <1>1 DEF HostDenom
  <2>. QED BY <2>1, <2>2
<1>3. numer[t] = HostNumer(Query(t), dim[t])
  <2>1. numer[t] = [k \in 1..Sequence |-> numer[t][k]]
    BY <1>1, LaunchFacts
  <2>2. [k \in 1..Sequence |-> numer[t][k]] = HostNumer(Query(t), dim[t])
    BY <1>1 DEF HostNumer
  <2>. QED BY <2>1, <2>2
<1>. QED BY <1>2, <1>3 DEF HostCell

LEMMA StoredByOwnerStep ==
  ASSUME KernelIInv, NEW t \in Thread, ThreadStep(t)
  PROVE  StoredByOwner'
<1>. SUFFICES ASSUME NEW q \in Row, NEW d \in Col, out'[Index(q, d)] # Unwritten
              PROVE  /\ out'[Index(q, d)].value = HostCell(q, d)
                     /\ \E s \in Thread : /\ q = Query(s) /\ Owns(s, d)
                                          /\ at'[s] # "entry" /\ d < dim'[s]
  BY DEF StoredByOwner, Row, Col, Owns, HostCell, HostNumer, HostDenom, HostMax,
         Score, Query, Index, Unwritten, DimStart, DimTileEnd, Thread
<1>0. KernelTypeOK /\ CellInProgress(t) /\ StoredByOwner /\ d \in Nat
  BY LaunchFacts DEF KernelIInv, Col
<1>1. CASE out'[Index(q, d)] = out[Index(q, d)]
  <2>1. /\ out[Index(q, d)].value = HostCell(q, d)
        /\ \E s \in Thread : /\ q = Query(s) /\ Owns(s, d)
                             /\ at[s] # "entry" /\ d < dim[s]
    BY <1>0, <1>1 DEF StoredByOwner
  <2>. QED BY <1>0, <1>1, <2>1, OwnersStay
<1>2. CASE out'[Index(q, d)] # out[Index(q, d)]
  <2>1. StoreOutput(t)
    BY <1>2 DEF ThreadStep, Entry, NextDim, LastDim, DotStep, Score0Done,
                NextMaxKey, MaxUpdate, MaxDone, NextSoftmaxKey, SoftmaxUpdate,
                SoftmaxDone
  <2>2. at[t] = "store_output"
    BY <2>1 DEF StoreOutput
  <2>3. Query(t) \in Row /\ dim[t] \in Col /\ Owns(t, dim[t])
    BY <1>0, <2>2, AtWork DEF CellInProgress, Working, Label
  <2>4. Index(q, d) \in DOMAIN out
    BY <1>0, IndexFacts DEF KernelTypeOK
  <2>5. /\ Index(q, d) = Index(Query(t), dim[t])
        /\ out'[Index(q, d)] = [by |-> t, value |-> Quotient(numer[t], denom[t])]
    BY <1>2, <2>1, <2>4 DEF StoreOutput
  <2>6. q = Query(t) /\ d = dim[t]
    BY <2>3, <2>5, IndexFacts
  <2>7. at'[t] # "entry" /\ d < dim'[t]
    BY <1>0, <2>1, <2>6, LaunchFacts DEF StoreOutput, DimNext, Goto, KernelTypeOK
  <2>. QED BY <1>0, <2>2, <2>3, <2>5, <2>6, <2>7, StoredValue
<1>. QED BY <1>1, <1>2

-----------------------------------------------------------------------------
(* The invariant.                                                          *)

LEMMA KernelIInvInit == KernelInit => KernelIInv
<1>. SUFFICES ASSUME KernelInit PROVE KernelIInv
  OBVIOUS
<1>1. KernelTypeOK
  BY LaunchFacts DEF KernelInit, KernelTypeOK, Label
<1>2. ASSUME NEW t \in Thread PROVE CellInProgress(t)
  BY DEF KernelInit, CellInProgress, OnOwnCell, Working, DotIsPartial, DotLoop,
         MaxIsPartial, SumsArePartial
<1>3. StoredByOwner
  BY IndexFacts DEF KernelInit, StoredByOwner
<1>. QED BY <1>1, <1>2, <1>3 DEF KernelIInv

LEMMA KernelIInvStep == KernelIInv /\ [KernelNext]_kernelVars => KernelIInv'
<1>1. ASSUME KernelIInv, NEW t \in Thread, ThreadStep(t) PROVE KernelIInv'
  <2>1. KernelTypeOK /\ CellInProgress(t)
    BY <1>1 DEF KernelIInv
  <2>2. KernelTypeOK' /\ CellInProgress(t)'
    BY <1>1, <2>1, EntryStep, NextDimStep, LastDimStep, DotStepStep,
       Score0DoneStep, NextMaxKeyStep, MaxUpdateStep, MaxDoneStep,
       NextSoftmaxKeyStep, SoftmaxUpdateStep, SoftmaxDoneStep, StoreOutputStep
       DEF ThreadStep
  <2>3. ASSUME NEW s \in Thread, s # t PROVE CellInProgress(s)'
    BY <1>1, <2>1, <2>3, OthersUntouched, RegistersDecide DEF KernelIInv
  <2>4. StoredByOwner'
    BY <1>1, StoredByOwnerStep
  <2>. QED BY <2>2, <2>3, <2>4 DEF KernelIInv, Thread
<1>2. ASSUME KernelIInv, UNCHANGED kernelVars PROVE KernelIInv'
  <2>1. ASSUME NEW s \in Thread PROVE CellInProgress(s)'
    <3>1. SameRegisters(s) /\ CellInProgress(s)
      BY <1>2 DEF KernelIInv, SameRegisters, kernelVars
    <3>. QED BY <3>1, RegistersDecide
  <2>2. KernelTypeOK' /\ StoredByOwner'
    BY <1>2 DEF KernelIInv, KernelTypeOK, StoredByOwner, kernelVars
  <2>. QED BY <2>1, <2>2 DEF KernelIInv, Thread
<1>. QED BY <1>1, <1>2 DEF KernelNext

(* The invariant holds in every state of every launch.                     *)
THEOREM KernelInvariant == KernelSpec => []KernelIInv
BY KernelIInvInit, KernelIInvStep, PTL DEF KernelSpec

(* The registers stay in their ranges; keys and depths inside the shape.   *)
THEOREM KernelTypeCorrect == KernelSpec => []KernelTypeOK
<1>1. KernelIInv => KernelTypeOK
  BY DEF KernelIInv
<1>. QED BY <1>1, KernelInvariant, PTL

(* No thread of the compiled grid reads or writes past a buffer made for   *)
(* the runtime shape.                                                      *)
THEOREM KernelInBounds == KernelSpec => []AccessesInBounds
<1>1. KernelIInv => AccessesInBounds
  <2>. SUFFICES ASSUME KernelIInv, NEW t \in Thread
                PROVE  /\ at[t] \in DotLoop /\ depth[t] < HeadDim =>
                            /\ Index(Query(t), depth[t]) \in Element
                            /\ Index(key[t], depth[t]) \in Element
                       /\ at[t] = "softmax_dot_loop" => Index(key[t], dim[t]) \in Element
                       /\ at[t] = "store_output" => Index(Query(t), dim[t]) \in Element
    BY DEF AccessesInBounds
  <2>1. KernelTypeOK /\ CellInProgress(t)
    BY DEF KernelIInv
  <2>2. at[t] \in Working => Query(t) \in Row /\ dim[t] \in Col
    BY <2>1, AtWork DEF CellInProgress
  <2>3. at[t] \in DotLoop => key[t] \in Row /\ at[t] \in Working
    BY <2>1 DEF CellInProgress, DotIsPartial, Working, Label, DotLoop
  <2>4. depth[t] < HeadDim => depth[t] \in Col
    BY <2>1, LaunchFacts DEF KernelTypeOK, Col
  <2>5. at[t] = "store_output" => at[t] \in Working
    BY DEF Working, Label
  <2>6. at[t] = "softmax_dot_loop" => at[t] \in DotLoop
    BY DEF DotLoop
  <2>. QED BY <2>2, <2>3, <2>4, <2>5, <2>6, IndexFacts
<1>. QED BY <1>1, KernelInvariant, PTL

(* Whatever the kernel has stored is what the host reference computes.     *)
THEOREM KernelAgreesWithHost == KernelSpec => []StoredCellIsReference
<1>1. KernelIInv => StoredCellIsReference
  BY DEF KernelIInv, StoredByOwner, StoredCellIsReference
<1>. QED BY <1>1, KernelInvariant, PTL

(* No element of the output is stored twice, by two threads or by one.     *)
THEOREM KernelStoresOnce == KernelSpec => StoredOnce
<1>1. KernelIInv => \A t \in Thread :
        at[t] = "store_output" => out[Index(Query(t), dim[t])] = Unwritten
  <2>. SUFFICES ASSUME KernelIInv, NEW t \in Thread, at[t] = "store_output",
                       out[Index(Query(t), dim[t])] # Unwritten
                PROVE  FALSE
    OBVIOUS
  <2>1. Query(t) \in Row /\ dim[t] \in Col /\ Owns(t, dim[t])
    BY AtWork DEF KernelIInv, CellInProgress, Working, Label
  <2>2. PICK s \in Thread : /\ Query(t) = Query(s) /\ Owns(s, dim[t])
                            /\ dim[t] < dim[s]
    BY <2>1 DEF KernelIInv, StoredByOwner
  <2>3. dim[t] \in Nat
    BY DEF KernelIInv, KernelTypeOK
  <2>4. t = s
    BY <2>1, <2>2, <2>3, OneOwner
  <2>. QED BY <2>2, <2>3, <2>4
<1>2. KernelIInv => [\A t \in Thread : at[t] = "store_output" /\ at'[t] # at[t]
        => out[Index(Query(t), dim[t])] = Unwritten]_kernelVars
  BY <1>1
<1>. QED BY <1>2, KernelInvariant, PTL DEF StoredOnce

-----------------------------------------------------------------------------
(* Coverage: with the workgroups' own launch the threads leave no element  *)
(* of the output unwritten.  The scalar launch is excluded: there it fails.*)
(* A thread that is past its entry has stored its columns below dim, and   *)
(* one that has returned had no column left.                               *)
CellsDone(t) ==
  /\ at[t] # "entry" /\ Query(t) < Sequence =>
       \A d \in Col : Owns(t, d) /\ d < dim[t] => out[Index(Query(t), d)] # Unwritten
  /\ at[t] = "exit" => QueryOob(t) \/ ~HasDim(t)

CoverageIInv == KernelIInv /\ \A t \in Thread : CellsDone(t)

-----------------------------------------------------------------------------
(* Arithmetic of the grid.                                                 *)

LEMMA DivMod ==
  ASSUME NEW a \in Nat, NEW b \in Nat \ {0}
  PROVE  a \div b \in Nat /\ a % b \in 0..b-1 /\ a = (a \div b) * b + (a % b)
<1>1. a \div b \in Int /\ a % b \in 0..b-1
  OBVIOUS
<1>2. a = b * (a \div b) + (a % b)
  BY <1>1
<1>3. a \div b >= 0
  BY <1>1, <1>2
<1>4. b * (a \div b) = (a \div b) * b
  BY <1>1
<1>. QED BY <1>1, <1>2, <1>3, <1>4

LEMMA Multiples ==
  ASSUME NEW x \in Nat, NEW y \in Nat, NEW n \in Nat \ {0}, x * n < y * n
  PROVE  x < y
<1>. SUFFICES ASSUME y <= x PROVE FALSE
  OBVIOUS
<1>1. PICK e \in Nat : x = y + e
  <2>1. x - y \in Nat /\ x = y + (x - y)
    OBVIOUS
  <2>. QED BY <2>1
<1>2. x * n = y * n + e * n
  BY <1>1
<1>3. e * n \in Nat /\ y * n \in Nat /\ x * n \in Nat
  OBVIOUS
<1>. QED BY <1>2, <1>3

(* A tile grid rounded up reaches every position below the size.           *)
LEMMA TileExists ==
  ASSUME NEW size \in Nat \ {0}, NEW tile \in Nat \ {0}, NEW i \in Nat, i < size
  PROVE  i \div tile \in 0..CeilDiv(size, tile) - 1
<1>1. size + tile - 1 \in Nat
  OBVIOUS
<1>. DEFINE g == (size + tile - 1) \div tile
            s == (size + tile - 1) % tile
            x == i \div tile
<1>2. g \in Nat /\ s \in 0..tile-1 /\ size + tile - 1 = g * tile + s
  BY <1>1, DivMod
<1>3. x \in Nat /\ i % tile \in 0..tile-1 /\ i = x * tile + (i % tile)
  BY DivMod
<1>. HIDE DEF g, s, x
<1>4. x * tile \in Nat /\ g * tile \in Nat
  BY <1>2, <1>3
<1>5. x * tile < g * tile
  BY <1>2, <1>3, <1>4
<1>6. x < g
  BY <1>2, <1>3, <1>5, Multiples
<1>. QED BY <1>2, <1>3, <1>6 DEF g, x, CeilDiv

(* Every cell of the runtime shape has an owner in the compiled grid.      *)
LEMMA OwnerExists ==
  ASSUME ~ScalarLaunch, NEW q \in Row, NEW d \in Col
  PROVE  \E t \in Thread : Query(t) = q /\ Owns(t, d)
<1>. DEFINE x == q \div QueryTile
            ty == q % QueryTile
            z == d \div HeadDimTile
            o == d % HeadDimTile
            tx == o % BlockX
            j == o \div BlockX
            t == [x |-> x, z |-> z, tx |-> tx, ty |-> ty]
<1>0. /\ q \in Nat /\ q < CompiledSequence /\ d \in Nat /\ d < HeadDim
      /\ d < CompiledHeadDim
      /\ CompiledSequence \in Nat \ {0} /\ CompiledHeadDim \in Nat \ {0}
      /\ QueryTile \in Nat \ {0} /\ HeadDimTile \in Nat \ {0} /\ BlockX \in Nat \ {0}
  BY ShapeAssumption DEF Row, Col
<1>1. x \in 0..GridX-1 /\ z \in 0..GridZ-1
  BY <1>0, TileExists DEF GridX, GridZ
<1>2. ty \in 0..QueryTile-1 /\ q = x * QueryTile + ty
  BY <1>0, DivMod
<1>3. o \in 0..HeadDimTile-1 /\ d = z * HeadDimTile + o /\ z \in Nat
  BY <1>0, DivMod
<1>4. tx \in 0..BlockX-1 /\ j \in Nat /\ o = j * BlockX + tx
  <2>1. o \in Nat
    BY <1>0, <1>3
  <2>. HIDE DEF o
  <2>. QED BY <1>0, <2>1, DivMod
<1>. HIDE DEF x, ty, z, o, tx, j
<1>5. t \in Thread
  BY <1>1, <1>2, <1>4 DEF Thread, BlockDimX, BlockDimY
<1>6. Query(t) = q
  BY <1>2 DEF Query
<1>7. z * HeadDimTile \in Nat /\ j * BlockX \in Nat
  BY <1>0, <1>3, <1>4
<1>8. Owns(t, d)
  <2>1. d < HeadDim /\ d < DimTileEnd(t)
    BY <1>0, <1>3, <1>7 DEF DimTileEnd
  <2>2. d = DimStart(t) + j * BlockDimX
    BY <1>0, <1>3, <1>4, <1>7 DEF DimStart, BlockDimX
  <2>. QED BY <1>4, <2>1, <2>2 DEF Owns
<1>. QED BY <1>5, <1>6, <1>8

(* The linear index of every element is that of a row and a column.        *)
LEMMA IndexOnto ==
  ASSUME NEW i \in Element
  PROVE  \E q \in Row, d \in Col : i = Index(q, d)
<1>. DEFINE q == i \div HeadDim
            d == i % HeadDim
<1>0. /\ i \in Nat /\ Sequence \in Nat \ {0} /\ HeadDim \in Nat \ {0}
      /\ Sequence * HeadDim \in Nat /\ i < Sequence * HeadDim
  BY LaunchFacts DEF Element
<1>1. q \in Nat /\ d \in 0..HeadDim-1 /\ i = q * HeadDim + d
  BY <1>0, DivMod
<1>. HIDE DEF q, d
<1>2. q * HeadDim \in Nat /\ q * HeadDim < Sequence * HeadDim
  BY <1>0, <1>1
<1>3. q < Sequence
  BY <1>0, <1>1, <1>2, Multiples
<1>4. q \in Row /\ d \in Col
  BY <1>0, <1>1, <1>3 DEF Row, Col
<1>. QED BY <1>1, <1>4 DEF Index

-----------------------------------------------------------------------------
(* The invariant.                                                          *)

LEMMA WrittenStays ==
  ASSUME KernelTypeOK, NEW t \in Thread, ThreadStep(t), NEW i \in Element, out[i] # Unwritten
  PROVE  out'[i] # Unwritten
<1>1. CASE StoreOutput(t)
  <2>1. out' = [out EXCEPT ![Index(Query(t), dim[t])] =
                  [by |-> t, value |-> Quotient(numer[t], denom[t])]]
    BY <1>1 DEF StoreOutput
  <2>2. [by |-> t, value |-> Quotient(numer[t], denom[t])] # Unwritten
    BY DEF Unwritten
  <2>. QED BY <2>1, <2>2 DEF KernelTypeOK
<1>2. CASE out' = out
  BY <1>2
<1>. QED BY <1>1, <1>2 DEF ThreadStep, Entry, NextDim, LastDim, DotStep, Score0Done,
           NextMaxKey, MaxUpdate, MaxDone, NextSoftmaxKey, SoftmaxUpdate, SoftmaxDone

(* The next column of a thread is one stride on: none of its own between.  *)
LEMMA NoneBetween ==
  ASSUME NEW t \in Thread, NEW d \in Nat, NEW e \in Nat, Owns(t, d), Owns(t, e),
         d < e + BlockDimX
  PROVE  d <= e
<1>1. PICK i \in Nat : d = DimStart(t) + i * BlockDimX
  BY DEF Owns
<1>2. PICK j \in Nat : e = DimStart(t) + j * BlockDimX
  BY DEF Owns
<1>3. /\ BlockDimX \in Nat \ {0} /\ DimStart(t) \in Nat
      /\ i * BlockDimX \in Nat /\ j * BlockDimX \in Nat
  BY LaunchFacts, ThreadFacts
<1>4. (j + 1) * BlockDimX = j * BlockDimX + BlockDimX
  BY <1>3
<1>5. i * BlockDimX < (j + 1) * BlockDimX
  BY <1>1, <1>2, <1>3, <1>4
<1>6. i < j + 1
  BY <1>3, <1>5, Multiples
<1>. SUFFICES ASSUME e < d PROVE FALSE
  OBVIOUS
<1>7. j * BlockDimX < i * BlockDimX
  BY <1>1, <1>2, <1>3
<1>8. j < i
  BY <1>3, <1>7, Multiples
<1>. QED BY <1>6, <1>8

LEMMA OwnCellsStep ==
  ASSUME KernelIInv, NEW t \in Thread, CellsDone(t), ThreadStep(t)
  PROVE  CellsDone(t)'
<1>0. KernelTypeOK /\ CellInProgress(t) /\ at[t] \in Label /\ dim[t] \in Nat
  BY DEF KernelIInv, KernelTypeOK
<1>1. CASE Entry(t)
  <2>1. /\ dim'[t] = DimStart(t)
        /\ at'[t] = IF QueryOob(t) THEN "exit" ELSE "dim_loop"
    BY <1>0, <1>1 DEF Entry, Goto, KernelTypeOK
  <2>2. ASSUME NEW d \in Col, Owns(t, d) PROVE ~(d < DimStart(t))
    <3>1. PICK i \in Nat : d = DimStart(t) + i * BlockDimX
      BY <2>2 DEF Owns
    <3>2. i * BlockDimX \in Nat /\ DimStart(t) \in Nat
      BY LaunchFacts, ThreadFacts
    <3>. QED BY <3>1, <3>2
  <2>. QED BY <2>1, <2>2 DEF CellsDone, Owns, QueryOob
<1>2. CASE StoreOutput(t)
  <2>1. /\ at[t] = "store_output" /\ at'[t] = "dim_loop"
        /\ dim'[t] = dim[t] + BlockDimX
    BY <1>0, <1>2 DEF StoreOutput, Goto, DimNext, KernelTypeOK
  <2>2. Query(t) \in Row /\ dim[t] \in Col /\ Owns(t, dim[t])
    BY <1>0, <2>1, AtWork DEF CellInProgress, Working, Label
  <2>3. out'[Index(Query(t), dim[t])] # Unwritten
    <3>1. Index(Query(t), dim[t]) \in DOMAIN out
      BY <1>0, <2>2, IndexFacts DEF KernelTypeOK
    <3>2. out'[Index(Query(t), dim[t])] = [by |-> t, value |-> Quotient(numer[t], denom[t])]
      BY <1>2, <3>1 DEF StoreOutput
    <3>. QED BY <3>2 DEF Unwritten
  <2>4. ASSUME NEW d \in Col, Owns(t, d), d < dim[t] + BlockDimX
        PROVE  out'[Index(Query(t), d)] # Unwritten
    <3>1. d \in Nat /\ d <= dim[t]
      BY <1>0, <2>2, <2>4, NoneBetween DEF Col
    <3>2. CASE d = dim[t]
      BY <2>3, <3>2
    <3>3. CASE d < dim[t]
      <4>1. out[Index(Query(t), d)] # Unwritten
        BY <2>1, <2>2, <2>4, <3>3, LaunchFacts DEF CellsDone, Row
      <4>2. Index(Query(t), d) \in Element
        BY <2>2, IndexFacts
      <4>. QED BY <1>0, <4>1, <4>2, WrittenStays
    <3>. QED BY <1>0, <3>1, <3>2, <3>3
  <2>. QED BY <2>1, <2>4 DEF CellsDone, Owns
<1>3. CASE LastDim(t)
  <2>1. at[t] = "dim_loop" /\ ~HasDim(t) /\ dim' = dim /\ out' = out
    BY <1>3 DEF LastDim
  <2>. QED BY <2>1 DEF CellsDone, Owns, HasDim
<1>4. CASE /\ at[t] \notin {"entry", "exit"} /\ at'[t] # "exit"
           /\ dim' = dim /\ out' = out
  BY <1>4 DEF CellsDone, Owns
<1>5. ASSUME at[t] # "entry", ~StoreOutput(t), ~LastDim(t)
      PROVE  /\ at[t] \notin {"entry", "exit"} /\ at'[t] # "exit"
             /\ dim' = dim /\ out' = out
  BY <1>0, <1>5 DEF ThreadStep, Entry, NextDim, DotStep, DotDone, DotLoop, Score0Done,
     NextMaxKey, MaxUpdate, MaxDone, NextSoftmaxKey, SoftmaxUpdate, SoftmaxDone,
     Goto, StartDot, KernelTypeOK
<1>. QED BY <1>1, <1>2, <1>3, <1>4, <1>5 DEF ThreadStep, NextDim, DotStep, DotDone,
        DotLoop, Score0Done, NextMaxKey, MaxUpdate, MaxDone, NextSoftmaxKey,
        SoftmaxUpdate, SoftmaxDone

LEMMA OtherCellsStep ==
  ASSUME KernelTypeOK, NEW t \in Thread, ThreadStep(t),
         NEW s \in Thread, s # t, CellsDone(s)
  PROVE  CellsDone(s)'
<1>1. at'[s] = at[s] /\ dim'[s] = dim[s]
  BY OthersUntouched DEF SameRegisters
<1>2. ASSUME at[s] # "entry", Query(s) < Sequence,
             NEW d \in Col, Owns(s, d), d < dim[s]
      PROVE  out'[Index(Query(s), d)] # Unwritten
  <2>1. out[Index(Query(s), d)] # Unwritten
    BY <1>2 DEF CellsDone
  <2>2. Query(s) \in Row
    BY <1>2, ThreadFacts, LaunchFacts DEF Row
  <2>. QED BY <2>1, <2>2, IndexFacts, WrittenStays
<1>. QED BY <1>1, <1>2 DEF CellsDone, Owns, HasDim

LEMMA CoverageInit == KernelInit => CoverageIInv
<1>1. KernelInit => KernelIInv
  BY KernelIInvInit
<1>2. ASSUME KernelInit, NEW t \in Thread PROVE CellsDone(t)
  BY <1>2 DEF KernelInit, CellsDone
<1>. QED BY <1>1, <1>2 DEF CoverageIInv

LEMMA CoverageStep == CoverageIInv /\ [KernelNext]_kernelVars => CoverageIInv'
<1>. SUFFICES ASSUME CoverageIInv, [KernelNext]_kernelVars PROVE CoverageIInv'
  OBVIOUS
<1>1. KernelIInv /\ KernelIInv'
  BY KernelIInvStep DEF CoverageIInv
<1>2. ASSUME NEW t \in Thread, ThreadStep(t), NEW s \in Thread PROVE CellsDone(s)'
  BY <1>1, <1>2, OwnCellsStep, OtherCellsStep DEF CoverageIInv, KernelIInv
<1>3. ASSUME UNCHANGED kernelVars, NEW s \in Thread PROVE CellsDone(s)'
  <2>1. CellsDone(s)
    BY DEF CoverageIInv
  <2>. QED BY <1>3, <2>1 DEF kernelVars, CellsDone, Owns, HasDim
<1>. QED BY <1>1, <1>2, <1>3 DEF CoverageIInv, KernelNext, Thread

LEMMA NothingIsLeft ==
  ASSUME ~ScalarLaunch PROVE CoverageIInv => NoCellLeft
<1>. SUFFICES ASSUME CoverageIInv, AllExited, NEW i \in Element
              PROVE  out[i] # Unwritten
  BY DEF NoCellLeft
<1>1. PICK q \in Row, d \in Col : i = Index(q, d)
  BY IndexOnto
<1>2. PICK t \in Thread : Query(t) = q /\ Owns(t, d)
  BY OwnerExists
<1>3. q < Sequence /\ q \in Nat /\ d \in Nat /\ dim[t] \in Nat
  BY LaunchFacts DEF Row, Col, CoverageIInv, KernelIInv, KernelTypeOK
<1>4. CellsDone(t) /\ at[t] = "exit"
  BY DEF CoverageIInv, AllExited
<1>5. ~HasDim(t)
  BY <1>2, <1>3, <1>4, LaunchFacts DEF CellsDone, QueryOob
<1>6. d < dim[t]
  BY <1>2, <1>3, <1>5, LaunchFacts, ThreadFacts DEF HasDim, Owns
<1>. QED BY <1>1, <1>2, <1>3, <1>4, <1>6 DEF CellsDone

(* When all threads of the compiled grid have returned, the host reads no  *)
(* element back that none of them wrote, for every runtime shape up to the *)
(* compiled one; the scalar launch override is what breaks it.             *)
THEOREM KernelCoversOutput ==
  ASSUME ~ScalarLaunch PROVE KernelSpec => []NoCellLeft
<1>1. CoverageIInv => NoCellLeft
  BY NothingIsLeft
<1>2. KernelSpec => []CoverageIInv
  BY CoverageInit, CoverageStep, PTL DEF KernelSpec
<1>. QED BY <1>1, <1>2, PTL

-----------------------------------------------------------------------------
(* The work.                                                               *)
(* The multiply-adds of a launch: of every cell, each step of the 2 *      *)
(* Sequence dot products (a key each of the first pass, then of the        *)
(* second), and the weighted value of each key.                            *)
DotSpace == (Element \X (0..2*Sequence-1)) \X Col
ValueSpace == Element \X Row

Written == {i \in Element : out[i] # Unwritten}
Cell(t) == Index(Query(t), dim[t])

(* Those a thread has executed of the cell it is at: of the dot products   *)
(* before the one with number DotNumber(t), and in that one up to depth.     *)
DotNumber(t) ==
  IF at[t] = "score0_dot_loop" THEN 0
  ELSE IF at[t] \in {"max_key_loop", "max_dot_loop"} THEN key[t]
  ELSE Sequence + key[t]
Multiplied(t, p, n) ==
  /\ at[t] \in Working
  /\ p < DotNumber(t) \/ (at[t] \in DotLoop /\ p = DotNumber(t) /\ n < depth[t])
Weighted(t, k) ==
  at[t] \in {"softmax_key_loop", "softmax_dot_loop", "store_output"} /\ k < key[t]

DotUnits ==
  {u \in DotSpace : \/ u[1][1] \in Written
                    \/ \E t \in Thread : Cell(t) = u[1][1] /\ Multiplied(t, u[1][2], u[2])}
ValueUnits ==
  {u \in ValueSpace : \/ u[1] \in Written
                      \/ \E t \in Thread : Cell(t) = u[1] /\ Weighted(t, u[2])}

(* The counters count these units, each of which is executed once.         *)
CountersAgree ==
  /\ macs = Cardinality(DotUnits) + Cardinality(ValueUnits)
  /\ loads = 2 * Cardinality(DotUnits) + Cardinality(ValueUnits)
  /\ stores = Cardinality(Written)

WorkIInv == CoverageIInv /\ CountersAgree

LEMMA WorkIsStep ==
  ASSUME NEW t \in Thread, WorkStep(t) PROVE ThreadStep(t)
BY DEF WorkStep, ThreadStep

(* A cell in progress is one thread's, and not yet written.                *)
LEMMA OneWorker ==
  ASSUME KernelIInv, NEW t \in Thread, NEW s \in Thread,
         at[t] \in Working, at[s] \in Working, Cell(t) = Cell(s)
  PROVE  t = s
<1>1. /\ Query(t) \in Row /\ dim[t] \in Col /\ Owns(t, dim[t])
      /\ Query(s) \in Row /\ dim[s] \in Col /\ Owns(s, dim[s])
  BY AtWork DEF KernelIInv, CellInProgress
<1>2. Query(t) = Query(s) /\ dim[t] = dim[s]
  BY <1>1, IndexFacts DEF Cell
<1>3. dim[t] \in Nat
  BY DEF KernelIInv, KernelTypeOK
<1>. QED BY <1>1, <1>2, <1>3, OneOwner

LEMMA FreshCell ==
  ASSUME KernelIInv, NEW t \in Thread, at[t] \in Working
  PROVE  Cell(t) \in Element /\ Cell(t) \notin Written
<1>1. Query(t) \in Row /\ dim[t] \in Col /\ Owns(t, dim[t])
  BY AtWork DEF KernelIInv, CellInProgress
<1>2. Cell(t) \in Element
  BY <1>1, IndexFacts DEF Cell
<1>3. ASSUME Cell(t) \in Written PROVE FALSE
  <2>1. out[Index(Query(t), dim[t])] # Unwritten
    BY <1>3 DEF Written, Cell
  <2>2. PICK s \in Thread : /\ Query(t) = Query(s) /\ Owns(s, dim[t])
                            /\ dim[t] < dim[s]
    BY <1>1, <2>1 DEF KernelIInv, StoredByOwner
  <2>3. dim[t] \in Nat
    BY DEF KernelIInv, KernelTypeOK
  <2>4. t = s
    BY <1>1, <2>2, <2>3, OneOwner
  <2>. QED BY <2>2, <2>3, <2>4
<1>. QED BY <1>2, <1>3

Passes == 0..2*Sequence-1
AtUnit(t, i, p, n) == Cell(t) = i /\ Multiplied(t, p, n)
AtValue(t, i, k) == Cell(t) = i /\ Weighted(t, k)

LEMMA PositionTyped ==
  ASSUME KernelIInv, NEW t \in Thread
  PROVE  /\ key[t] \in 0..Sequence /\ depth[t] \in 0..HeadDim /\ at[t] \in Label
         /\ DotNumber(t) \in Nat
         /\ at[t] \in DotLoop => key[t] \in Row /\ DotNumber(t) \in Passes
         /\ at[t] = "score0_dot_loop" => key[t] = 0
         /\ at[t] = "store_output" => key[t] = Sequence
<1>1. key[t] \in 0..Sequence /\ depth[t] \in 0..HeadDim /\ at[t] \in Label
  BY DEF KernelIInv, KernelTypeOK
<1>2. /\ at[t] \in DotLoop => key[t] \in Row
      /\ at[t] = "score0_dot_loop" => key[t] = 0
      /\ at[t] = "store_output" => key[t] = Sequence
  BY DEF KernelIInv, CellInProgress, DotIsPartial, MaxIsPartial, SumsArePartial
<1>3. Sequence \in Nat \ {0}
  BY LaunchFacts
<1>. QED BY <1>1, <1>2, <1>3 DEF DotNumber, Passes, Row, DotLoop

(* An action that multiplies nothing and stores nothing.                   *)
Quiet(t) ==
  \/ Entry(t) \/ NextDim(t) \/ LastDim(t) \/ Score0Done(t) \/ NextMaxKey(t)
  \/ MaxUpdate(t) \/ MaxDone(t) \/ NextSoftmaxKey(t) \/ SoftmaxDone(t)

LEMMA QuietUnits ==
  ASSUME KernelIInv, NEW t \in Thread, Quiet(t) \/ SoftmaxUpdate(t),
         NEW i, NEW p \in Passes, NEW n \in Col
  PROVE  AtUnit(t, i, p, n)' <=> AtUnit(t, i, p, n)
<1>t. /\ key[t] \in 0..Sequence /\ depth[t] \in 0..HeadDim /\ at[t] \in Label
      /\ at[t] \in DotLoop => key[t] \in Row /\ DotNumber(t) \in Passes
      /\ at[t] = "score0_dot_loop" => key[t] = 0
  BY PositionTyped
<1>f. Sequence \in Nat \ {0} /\ HeadDim \in Nat \ {0} /\ p \in Nat /\ n \in 0..HeadDim-1
  BY LaunchFacts DEF Passes, Col
<1>d. /\ at \in [Thread -> Label] /\ dim \in [Thread -> Nat]
      /\ key \in [Thread -> 0..Sequence] /\ depth \in [Thread -> 0..HeadDim]
  BY DEF KernelIInv, KernelTypeOK
<1>. USE DEF AtUnit, Cell, Multiplied, DotNumber, Working, Label, DotLoop, Goto, StartDot
<1>1. CASE Entry(t) BY <1>1, <1>d DEF Entry
<1>2. CASE NextDim(t) BY <1>2, <1>d, <1>f DEF NextDim
<1>3. CASE LastDim(t) BY <1>3, <1>d DEF LastDim
<1>4. CASE Score0Done(t) BY <1>4, <1>d, <1>t, <1>f DEF Score0Done, DotDone
<1>5. CASE NextMaxKey(t) BY <1>5, <1>d, <1>t, <1>f DEF NextMaxKey
<1>6. CASE MaxUpdate(t) BY <1>6, <1>d, <1>t, <1>f DEF MaxUpdate, DotDone, KeyNext
<1>7. CASE MaxDone(t) BY <1>7, <1>d, <1>t, <1>f DEF MaxDone
<1>8. CASE NextSoftmaxKey(t) BY <1>8, <1>d, <1>t, <1>f DEF NextSoftmaxKey
<1>9. CASE SoftmaxDone(t) BY <1>9, <1>d, <1>t, <1>f DEF SoftmaxDone
<1>10. CASE SoftmaxUpdate(t) BY <1>10, <1>d, <1>t, <1>f DEF SoftmaxUpdate, DotDone, KeyNext
<1>. QED BY <1>1, <1>2, <1>3, <1>4, <1>5, <1>6, <1>7, <1>8, <1>9, <1>10 DEF Quiet

LEMMA QuietValues ==
  ASSUME KernelIInv, NEW t \in Thread, Quiet(t) \/ DotStep(t),
         NEW i, NEW k \in Row
  PROVE  AtValue(t, i, k)' <=> AtValue(t, i, k)
<1>t. /\ key[t] \in 0..Sequence /\ at[t] \in Label
  BY PositionTyped
<1>f. Sequence \in Nat \ {0} /\ k \in Nat /\ k < Sequence
  BY LaunchFacts DEF Row
<1>d. /\ at \in [Thread -> Label] /\ dim \in [Thread -> Nat]
      /\ key \in [Thread -> 0..Sequence] /\ depth \in [Thread -> 0..HeadDim]
  BY DEF KernelIInv, KernelTypeOK
<1>. USE DEF AtValue, Cell, Weighted, Label, DotLoop, Goto, StartDot
<1>1. CASE Entry(t) BY <1>1, <1>d DEF Entry
<1>2. CASE NextDim(t) BY <1>2, <1>d, <1>f DEF NextDim
<1>3. CASE LastDim(t) BY <1>3, <1>d DEF LastDim
<1>4. CASE Score0Done(t) BY <1>4, <1>d, <1>t, <1>f DEF Score0Done, DotDone
<1>5. CASE NextMaxKey(t) BY <1>5, <1>d, <1>t, <1>f DEF NextMaxKey
<1>6. CASE MaxUpdate(t) BY <1>6, <1>d, <1>t, <1>f DEF MaxUpdate, DotDone, KeyNext
<1>7. CASE MaxDone(t) BY <1>7, <1>d, <1>t, <1>f DEF MaxDone
<1>8. CASE NextSoftmaxKey(t) BY <1>8, <1>d, <1>t, <1>f DEF NextSoftmaxKey
<1>9. CASE SoftmaxDone(t) BY <1>9, <1>d, <1>t, <1>f DEF SoftmaxDone
<1>10. CASE DotStep(t) BY <1>10, <1>d DEF DotStep
<1>. QED BY <1>1, <1>2, <1>3, <1>4, <1>5, <1>6, <1>7, <1>8, <1>9, <1>10 DEF Quiet

(* A multiply-add is one unit that was not executed before.                *)
LEMMA DotAddsUnit ==
  ASSUME KernelIInv, NEW t \in Thread, DotStep(t)
  PROVE  /\ Cell(t) \in Element /\ DotNumber(t) \in Passes /\ depth[t] \in Col
         /\ at[t] \in Working
         /\ ~Multiplied(t, DotNumber(t), depth[t])
         /\ \A i, p, n : p \in Passes /\ n \in Col =>
              (AtUnit(t, i, p, n)' <=>
                 \/ AtUnit(t, i, p, n)
                 \/ i = Cell(t) /\ p = DotNumber(t) /\ n = depth[t])
<1>1. at[t] \in DotLoop /\ depth[t] < HeadDim /\ at[t] \in Working
  BY DEF DotStep, DotLoop, Working, Label
<1>2. DotNumber(t) \in Passes /\ depth[t] \in 0..HeadDim /\ DotNumber(t) \in Nat
  BY <1>1, PositionTyped
<1>3. depth[t] \in Col /\ Cell(t) \in Element
  BY <1>1, <1>2, FreshCell, LaunchFacts DEF Col
<1>4. ~Multiplied(t, DotNumber(t), depth[t])
  BY <1>2 DEF Multiplied
<1>5. /\ depth'[t] = depth[t] + 1 /\ at' = at /\ key' = key /\ dim' = dim
  BY DEF DotStep, KernelIInv, KernelTypeOK
<1>6. ASSUME NEW i, NEW p \in Passes, NEW n \in Col
      PROVE  AtUnit(t, i, p, n)' <=>
                 \/ AtUnit(t, i, p, n)
                 \/ i = Cell(t) /\ p = DotNumber(t) /\ n = depth[t]
  <2>1. Cell(t)' = Cell(t) /\ DotNumber(t)' = DotNumber(t)
    BY <1>5 DEF Cell, DotNumber
  <2>2. Multiplied(t, p, n)' <=> Multiplied(t, p, n) \/ (p = DotNumber(t) /\ n = depth[t])
    <3>1. n < depth[t] + 1 <=> n < depth[t] \/ n = depth[t]
      BY <1>2, LaunchFacts DEF Col
    <3>2. ~(depth[t] < depth[t]) /\ ~(DotNumber(t) < DotNumber(t))
      BY <1>2
    <3>. QED BY <1>1, <1>5, <2>1, <3>1, <3>2 DEF Multiplied
  <2>. QED BY <2>1, <2>2 DEF AtUnit
<1>. QED BY <1>1, <1>2, <1>3, <1>4, <1>6

(* So is a weighted value.                                                 *)
LEMMA WeightAddsUnit ==
  ASSUME KernelIInv, NEW t \in Thread, SoftmaxUpdate(t)
  PROVE  /\ Cell(t) \in Element /\ key[t] \in Row
         /\ at[t] \in Working
         /\ ~Weighted(t, key[t])
         /\ \A i, k : k \in Row =>
              (AtValue(t, i, k)' <=> AtValue(t, i, k) \/ (i = Cell(t) /\ k = key[t]))
<1>1. at[t] = "softmax_dot_loop" /\ at[t] \in Working /\ at[t] \in DotLoop
  BY DEF SoftmaxUpdate, DotDone, DotLoop, Working, Label
<1>2. key[t] \in Row /\ key[t] \in Nat
  BY <1>1, PositionTyped, LaunchFacts DEF Row
<1>3. Cell(t) \in Element
  BY <1>1, FreshCell
<1>4. ~Weighted(t, key[t])
  BY <1>2 DEF Weighted
<1>5. at'[t] = "softmax_key_loop" /\ key'[t] = key[t] + 1 /\ dim' = dim
  BY DEF SoftmaxUpdate, KernelIInv, KernelTypeOK, Goto, KeyNext
<1>6. ASSUME NEW i, NEW k \in Row
      PROVE  AtValue(t, i, k)' <=> AtValue(t, i, k) \/ (i = Cell(t) /\ k = key[t])
  <2>1. Cell(t)' = Cell(t)
    BY <1>5 DEF Cell
  <2>2. k < key[t] + 1 <=> k < key[t] \/ k = key[t]
    BY <1>2, LaunchFacts DEF Row
  <2>. QED BY <1>1, <1>5, <2>1, <2>2 DEF AtValue, Weighted
<1>. QED BY <1>1, <1>2, <1>3, <1>4, <1>6

(* At the store all units of the cell have been executed.                  *)
LEMMA StoreHasAll ==
  ASSUME KernelIInv, NEW t \in Thread, StoreOutput(t)
  PROVE  /\ at[t] \in Working
         /\ Written' = Written \cup {Cell(t)} /\ Cell(t) \in Element
         /\ \A i, p, n : p \in Passes /\ n \in Col =>
              (AtUnit(t, i, p, n) <=> i = Cell(t)) /\ ~AtUnit(t, i, p, n)'
         /\ \A i, k : k \in Row => (AtValue(t, i, k) <=> i = Cell(t)) /\ ~AtValue(t, i, k)'
<1>1. at[t] = "store_output" /\ at[t] \in Working
  BY DEF StoreOutput, Working, Label
<1>2. key[t] = Sequence /\ Sequence \in Nat
  BY <1>1, PositionTyped, LaunchFacts
<1>3. at'[t] = "dim_loop"
  BY DEF StoreOutput, Goto, KernelIInv, KernelTypeOK
<1>4. Cell(t) \in Element
  BY <1>1, FreshCell
<1>5. Written' = Written \cup {Cell(t)}
  <2>1. /\ DOMAIN out = Element
        /\ out' = [out EXCEPT ![Cell(t)] = [by |-> t, value |-> Quotient(numer[t], denom[t])]]
    BY DEF StoreOutput, Cell, KernelIInv, KernelTypeOK
  <2>2. [by |-> t, value |-> Quotient(numer[t], denom[t])] # Unwritten
    BY DEF Unwritten
  <2>. QED BY <1>4, <2>1, <2>2 DEF Written
<1>6. ASSUME NEW i, NEW p \in Passes, NEW n \in Col
      PROVE  (AtUnit(t, i, p, n) <=> i = Cell(t)) /\ ~AtUnit(t, i, p, n)'
  <2>1. p < Sequence + Sequence
    BY <1>2 DEF Passes
  <2>2. Multiplied(t, p, n)
    BY <1>1, <1>2, <2>1 DEF Multiplied, DotNumber
  <2>3. ~Multiplied(t, p, n)'
    BY <1>3 DEF Multiplied, Working
  <2>. QED BY <2>2, <2>3 DEF AtUnit
<1>7. ASSUME NEW i, NEW k \in Row
      PROVE  (AtValue(t, i, k) <=> i = Cell(t)) /\ ~AtValue(t, i, k)'
  <2>1. k < Sequence
    BY <1>2 DEF Row
  <2>. QED BY <1>1, <1>2, <1>3, <2>1 DEF AtValue, Weighted
<1>. QED BY <1>1, <1>4, <1>5, <1>6, <1>7

(* Other threads' units are what they were.                                *)
LEMMA OthersUnits ==
  ASSUME KernelIInv, NEW t \in Thread, ThreadStep(t), NEW s \in Thread, s # t
  PROVE  /\ \A i, p, n : AtUnit(s, i, p, n)' <=> AtUnit(s, i, p, n)
         /\ \A i, k : AtValue(s, i, k)' <=> AtValue(s, i, k)
<1>1. SameRegisters(s)
  BY OthersUntouched DEF KernelIInv
<1>. QED BY <1>1
         DEF SameRegisters, AtUnit, AtValue, Cell, Multiplied, Weighted, DotNumber

(* Hence the sets of units: nothing changes, one unit is added, or a cell  *)
(* passes from its thread to the output.                                   *)
UnitFacts ==
  /\ DotUnits \subseteq DotSpace /\ ValueUnits \subseteq ValueSpace
  /\ \A i \in Element, p \in Passes, n \in Col :
       <<<<i, p>>, n>> \in DotUnits <=>
         i \in Written \/ \E t \in Thread : AtUnit(t, i, p, n)
  /\ \A i \in Element, k \in Row :
       <<i, k>> \in ValueUnits <=> i \in Written \/ \E t \in Thread : AtValue(t, i, k)

LEMMA UnitSets == UnitFacts
BY DEF UnitFacts, DotUnits, ValueUnits, DotSpace, ValueSpace, AtUnit, AtValue, Passes

LEMMA NextUnitSets == UnitFacts'
BY DEF UnitFacts, DotUnits, ValueUnits, DotSpace, ValueSpace, AtUnit, AtValue, Passes

LEMMA SpaceElements ==
  /\ \A u \in DotSpace : \E i \in Element, p \in Passes, n \in Col : u = <<<<i, p>>, n>>
  /\ \A u \in ValueSpace : \E i \in Element, k \in Row : u = <<i, k>>
BY DEF DotSpace, ValueSpace, Passes

(* Every unit of an unwritten cell is some thread's, of a step.            *)
LEMMA ThreadsUnits ==
  ASSUME KernelIInv, NEW t \in Thread, ThreadStep(t)
  PROVE  /\ \A i, p, n : (\E s \in Thread : AtUnit(s, i, p, n))'
                           <=> AtUnit(t, i, p, n)' \/ \E s \in Thread \ {t} : AtUnit(s, i, p, n)
         /\ \A i, k : (\E s \in Thread : AtValue(s, i, k))'
                           <=> AtValue(t, i, k)' \/ \E s \in Thread \ {t} : AtValue(s, i, k)
<1>1. \A s \in Thread \ {t} : \A i, p, n : AtUnit(s, i, p, n)' <=> AtUnit(s, i, p, n)
  BY OthersUnits
<1>2. \A s \in Thread \ {t} : \A i, k : AtValue(s, i, k)' <=> AtValue(s, i, k)
  BY OthersUnits
<1>3. Thread' = Thread
  BY DEF Thread
<1>. QED BY <1>1, <1>2, <1>3

LEMMA DotUnitsKept ==
  ASSUME KernelIInv, NEW t \in Thread, Quiet(t) \/ SoftmaxUpdate(t)
  PROVE  DotUnits' = DotUnits
<1>1. ThreadStep(t) /\ Written' = Written
  BY DEF Quiet, ThreadStep, Entry, NextDim, LastDim, Score0Done, NextMaxKey, MaxUpdate, MaxDone,
         NextSoftmaxKey, SoftmaxDone, SoftmaxUpdate, Written
<1>2. ASSUME NEW i \in Element, NEW p \in Passes, NEW n \in Col
      PROVE  <<<<i, p>>, n>> \in DotUnits' <=> <<<<i, p>>, n>> \in DotUnits
  <2>1. AtUnit(t, i, p, n)' <=> AtUnit(t, i, p, n)
    BY QuietUnits
  <2>2. (\E s \in Thread : AtUnit(s, i, p, n))' <=> \E s \in Thread : AtUnit(s, i, p, n)
    BY <1>1, <2>1, ThreadsUnits
  <2>. QED BY <1>1, <2>2, UnitSets, NextUnitSets DEF UnitFacts
<1>3. DotUnits \subseteq DotSpace /\ DotUnits' \subseteq DotSpace
  BY UnitSets, NextUnitSets DEF UnitFacts, DotSpace
<1>. QED BY <1>2, <1>3, SpaceElements

LEMMA ValueUnitsKept ==
  ASSUME KernelIInv, NEW t \in Thread, Quiet(t) \/ DotStep(t)
  PROVE  ValueUnits' = ValueUnits /\ Written' = Written
<1>1. ThreadStep(t) /\ Written' = Written
  BY DEF Quiet, ThreadStep, Entry, NextDim, LastDim, Score0Done, NextMaxKey, MaxUpdate, MaxDone,
         NextSoftmaxKey, SoftmaxDone, DotStep, Written
<1>2. ASSUME NEW i \in Element, NEW k \in Row
      PROVE  <<i, k>> \in ValueUnits' <=> <<i, k>> \in ValueUnits
  <2>1. AtValue(t, i, k)' <=> AtValue(t, i, k)
    BY QuietValues
  <2>2. (\E s \in Thread : AtValue(s, i, k))' <=> \E s \in Thread : AtValue(s, i, k)
    BY <1>1, <2>1, ThreadsUnits
  <2>. QED BY <1>1, <2>2, UnitSets, NextUnitSets DEF UnitFacts
<1>3. ValueUnits \subseteq ValueSpace /\ ValueUnits' \subseteq ValueSpace
  BY UnitSets, NextUnitSets DEF UnitFacts, ValueSpace
<1>. QED BY <1>1, <1>2, <1>3, SpaceElements

LEMMA DotUnitsGrow ==
  ASSUME KernelIInv, NEW t \in Thread, DotStep(t)
  PROVE  \E u \in DotSpace : u \notin DotUnits /\ DotUnits' = DotUnits \cup {u}
<1>. DEFINE c == Cell(t)
            d == DotNumber(t)
            m == depth[t]
            u == <<<<c, d>>, m>>
<1>1. /\ c \in Element /\ d \in Passes /\ m \in Col
      /\ at[t] \in Working
      /\ ~Multiplied(t, d, m)
      /\ \A i, p, n : p \in Passes /\ n \in Col =>
           (AtUnit(t, i, p, n)' <=> AtUnit(t, i, p, n) \/ (i = c /\ p = d /\ n = m))
  BY DotAddsUnit
<1>2. ThreadStep(t) /\ Written' = Written
  BY DEF ThreadStep, DotStep, Written
<1>3. c \notin Written
  BY <1>1, FreshCell
<1>4. ASSUME NEW s \in Thread, AtUnit(s, c, d, m) PROVE FALSE
  <2>1. at[s] \in Working /\ Cell(s) = Cell(t)
    BY <1>4 DEF AtUnit, Multiplied
  <2>2. s = t
    BY <1>1, <2>1, OneWorker
  <2>. QED BY <1>1, <1>4, <2>2 DEF AtUnit
<1>. HIDE DEF c, d, m
<1>5. u \in DotSpace
  BY <1>1 DEF DotSpace, Passes
<1>6. u \notin DotUnits
  BY <1>1, <1>3, <1>4, UnitSets DEF UnitFacts
<1>7. ASSUME NEW i \in Element, NEW p \in Passes, NEW n \in Col
      PROVE  <<<<i, p>>, n>> \in DotUnits' <=> <<<<i, p>>, n>> \in DotUnits \cup {u}
  <2>1. AtUnit(t, i, p, n)' <=> AtUnit(t, i, p, n) \/ (i = c /\ p = d /\ n = m)
    BY <1>1
  <2>2. (\E s \in Thread : AtUnit(s, i, p, n))'
          <=> (\E s \in Thread : AtUnit(s, i, p, n)) \/ (i = c /\ p = d /\ n = m)
    BY <1>2, <2>1, ThreadsUnits
  <2>3. <<<<i, p>>, n>> \in DotUnits' <=>
          <<<<i, p>>, n>> \in DotUnits \/ (i = c /\ p = d /\ n = m)
    BY <1>2, <2>2, UnitSets, NextUnitSets DEF UnitFacts
  <2>. QED BY <2>3
<1>8. DotUnits \subseteq DotSpace /\ DotUnits' \subseteq DotSpace
  BY UnitSets, NextUnitSets DEF UnitFacts, DotSpace
<1>. HIDE DEF u
<1>9. DotUnits' = DotUnits \cup {u}
  BY <1>5, <1>7, <1>8, SpaceElements
<1>. QED BY <1>5, <1>6, <1>9

LEMMA ValueUnitsGrow ==
  ASSUME KernelIInv, NEW t \in Thread, SoftmaxUpdate(t)
  PROVE  /\ \E u \in ValueSpace : u \notin ValueUnits /\ ValueUnits' = ValueUnits \cup {u}
         /\ Written' = Written
<1>. DEFINE c == Cell(t)
            m == key[t]
            u == <<c, m>>
<1>1. /\ c \in Element /\ m \in Row
      /\ at[t] \in Working
      /\ ~Weighted(t, m)
      /\ \A i, k : k \in Row =>
           (AtValue(t, i, k)' <=> AtValue(t, i, k) \/ (i = c /\ k = m))
  BY WeightAddsUnit
<1>2. ThreadStep(t) /\ Written' = Written
  BY DEF ThreadStep, SoftmaxUpdate, Written
<1>3. c \notin Written
  BY <1>1, FreshCell
<1>4. ASSUME NEW s \in Thread, AtValue(s, c, m) PROVE FALSE
  <2>1. at[s] \in Working /\ Cell(s) = Cell(t)
    BY <1>4 DEF AtValue, Weighted, Working, Label, DotLoop
  <2>2. s = t
    BY <1>1, <2>1, OneWorker
  <2>. QED BY <1>1, <1>4, <2>2 DEF AtValue
<1>. HIDE DEF c, m
<1>5. u \in ValueSpace
  BY <1>1 DEF ValueSpace
<1>6. u \notin ValueUnits
  BY <1>1, <1>3, <1>4, UnitSets DEF UnitFacts
<1>7. ASSUME NEW i \in Element, NEW k \in Row
      PROVE  <<i, k>> \in ValueUnits' <=> <<i, k>> \in ValueUnits \cup {u}
  <2>1. AtValue(t, i, k)' <=> AtValue(t, i, k) \/ (i = c /\ k = m)
    BY <1>1
  <2>2. (\E s \in Thread : AtValue(s, i, k))'
          <=> (\E s \in Thread : AtValue(s, i, k)) \/ (i = c /\ k = m)
    BY <1>2, <2>1, ThreadsUnits
  <2>3. <<i, k>> \in ValueUnits' <=> <<i, k>> \in ValueUnits \/ (i = c /\ k = m)
    BY <1>2, <2>2, UnitSets, NextUnitSets DEF UnitFacts
  <2>. QED BY <2>3
<1>8. ValueUnits \subseteq ValueSpace /\ ValueUnits' \subseteq ValueSpace
  BY UnitSets, NextUnitSets DEF UnitFacts, ValueSpace
<1>. HIDE DEF u
<1>9. ValueUnits' = ValueUnits \cup {u}
  BY <1>5, <1>7, <1>8, SpaceElements
<1>. QED BY <1>2, <1>5, <1>6, <1>9

LEMMA StoreMovesUnits ==
  ASSUME KernelIInv, NEW t \in Thread, StoreOutput(t)
  PROVE  /\ DotUnits' = DotUnits /\ ValueUnits' = ValueUnits
         /\ Cell(t) \in Element /\ Cell(t) \notin Written /\ Written' = Written \cup {Cell(t)}
<1>1. /\ at[t] \in Working
      /\ Written' = Written \cup {Cell(t)} /\ Cell(t) \in Element
      /\ \A i, p, n : p \in Passes /\ n \in Col =>
           (AtUnit(t, i, p, n) <=> i = Cell(t)) /\ ~AtUnit(t, i, p, n)'
      /\ \A i, k : k \in Row => (AtValue(t, i, k) <=> i = Cell(t)) /\ ~AtValue(t, i, k)'
  BY StoreHasAll
<1>2. ThreadStep(t)
  BY DEF ThreadStep
<1>3. ASSUME NEW i \in Element, NEW p \in Passes, NEW n \in Col
      PROVE  <<<<i, p>>, n>> \in DotUnits' <=> <<<<i, p>>, n>> \in DotUnits
  <2>1. (AtUnit(t, i, p, n) <=> i = Cell(t)) /\ ~AtUnit(t, i, p, n)'
    BY <1>1
  <2>2. i \in Written' \/ (\E s \in Thread : AtUnit(s, i, p, n))'
          <=> i \in Written \/ (\E s \in Thread : AtUnit(s, i, p, n))
    BY <1>1, <1>2, <2>1, ThreadsUnits
  <2>. QED BY <2>2, UnitSets, NextUnitSets DEF UnitFacts
<1>4. ASSUME NEW i \in Element, NEW k \in Row
      PROVE  <<i, k>> \in ValueUnits' <=> <<i, k>> \in ValueUnits
  <2>1. (AtValue(t, i, k) <=> i = Cell(t)) /\ ~AtValue(t, i, k)'
    BY <1>1
  <2>2. i \in Written' \/ (\E s \in Thread : AtValue(s, i, k))'
          <=> i \in Written \/ (\E s \in Thread : AtValue(s, i, k))
    BY <1>1, <1>2, <2>1, ThreadsUnits
  <2>. QED BY <2>2, UnitSets, NextUnitSets DEF UnitFacts
<1>5. /\ DotUnits \subseteq DotSpace /\ DotUnits' \subseteq DotSpace
      /\ ValueUnits \subseteq ValueSpace /\ ValueUnits' \subseteq ValueSpace
  BY UnitSets, NextUnitSets DEF UnitFacts, DotSpace, ValueSpace
<1>6. DotUnits' = DotUnits
  BY <1>3, <1>5, SpaceElements
<1>7. ValueUnits' = ValueUnits
  <2>1. ASSUME NEW u \in ValueSpace PROVE u \in ValueUnits' <=> u \in ValueUnits
    <3>1. PICK i \in Element, k \in Row : u = <<i, k>>
      BY SpaceElements
    <3>. QED BY <1>4, <3>1
  <2>. QED BY <1>5, <2>1
<1>. QED BY <1>1, <1>6, <1>7, FreshCell

-----------------------------------------------------------------------------
(* The counters.                                                           *)
LEMMA Finiteness ==
  /\ IsFiniteSet(Element) /\ IsFiniteSet(Passes) /\ IsFiniteSet(Col) /\ IsFiniteSet(Row)
  /\ IsFiniteSet(DotSpace) /\ IsFiniteSet(ValueSpace)
<1>1. /\ Sequence*HeadDim-1 \in Int /\ 2*Sequence-1 \in Int /\ HeadDim-1 \in Int /\ Sequence-1 \in Int
  BY LaunchFacts
<1>2. IsFiniteSet(Element) /\ IsFiniteSet(Passes) /\ IsFiniteSet(Col) /\ IsFiniteSet(Row)
  BY <1>1, FS_Interval DEF Element, Passes, Col, Row
<1>3. IsFiniteSet(Element \X Passes) /\ IsFiniteSet(Element \X Row)
  BY <1>2, FS_Product
<1>4. IsFiniteSet((Element \X Passes) \X Col)
  BY <1>2, <1>3, FS_Product
<1>. QED BY <1>2, <1>3, <1>4 DEF DotSpace, ValueSpace, Passes

LEMMA FiniteUnits ==
  IsFiniteSet(DotUnits) /\ IsFiniteSet(ValueUnits) /\ IsFiniteSet(Written)
<1>1. DotUnits \subseteq DotSpace /\ ValueUnits \subseteq ValueSpace /\ Written \subseteq Element
  BY UnitSets DEF UnitFacts, Written
<1>. QED BY <1>1, Finiteness, FS_Subset

LEMMA CountNats ==
  /\ Cardinality(DotUnits) \in Nat /\ Cardinality(ValueUnits) \in Nat
  /\ Cardinality(Written) \in Nat
BY FiniteUnits, FS_CardinalityType

LEMMA WorkInitIInv == WorkInit => WorkIInv
<1>. SUFFICES ASSUME WorkInit PROVE WorkIInv
  OBVIOUS
<1>1. CoverageIInv
  BY CoverageInit DEF WorkInit
<1>2. Written = {}
  BY DEF WorkInit, KernelInit, Written
<1>3. \A t \in Thread : at[t] = "entry"
  BY DEF WorkInit, KernelInit
<1>4. DotUnits = {} /\ ValueUnits = {}
  BY <1>2, <1>3 DEF DotUnits, ValueUnits, Multiplied, Weighted, Working
<1>5. CountersAgree
  BY <1>2, <1>4, FS_EmptySet DEF CountersAgree, WorkInit
<1>. QED BY <1>1, <1>5 DEF WorkIInv

LEMMA WorkStepKeeps ==
  ASSUME WorkIInv, NEW t \in Thread, WorkStep(t) PROVE CountersAgree'
<1>1. /\ KernelIInv
      /\ macs = Cardinality(DotUnits) + Cardinality(ValueUnits)
      /\ loads = 2 * Cardinality(DotUnits) + Cardinality(ValueUnits)
      /\ stores = Cardinality(Written)
  BY DEF WorkIInv, CoverageIInv, CountersAgree
<1>2. CASE DotStep(t) /\ Count(1, 2, 0)
  <2>1. ValueUnits' = ValueUnits /\ Written' = Written
    BY <1>1, <1>2, ValueUnitsKept
  <2>2. PICK u \in DotSpace : u \notin DotUnits /\ DotUnits' = DotUnits \cup {u}
    BY <1>1, <1>2, DotUnitsGrow
  <2>3. Cardinality(DotUnits') = Cardinality(DotUnits) + 1
    BY <2>2, FiniteUnits, FS_AddElement
  <2>4. macs' = macs + 1 /\ loads' = loads + 2 /\ stores' = stores + 0
    BY <1>2 DEF Count
  <2>. QED BY <1>1, <2>1, <2>3, <2>4, CountNats DEF CountersAgree
<1>3. CASE SoftmaxUpdate(t) /\ Count(1, 1, 0)
  <2>1. DotUnits' = DotUnits
    BY <1>1, <1>3, DotUnitsKept
  <2>2. PICK u \in ValueSpace : u \notin ValueUnits /\ ValueUnits' = ValueUnits \cup {u}
    BY <1>1, <1>3, ValueUnitsGrow
  <2>3. Cardinality(ValueUnits') = Cardinality(ValueUnits) + 1 /\ Written' = Written
    BY <1>1, <1>3, <2>2, FiniteUnits, FS_AddElement, ValueUnitsGrow
  <2>4. macs' = macs + 1 /\ loads' = loads + 1 /\ stores' = stores + 0
    BY <1>3 DEF Count
  <2>. QED BY <1>1, <2>1, <2>3, <2>4, CountNats DEF CountersAgree
<1>4. CASE StoreOutput(t) /\ Count(0, 0, 1)
  <2>1. /\ DotUnits' = DotUnits /\ ValueUnits' = ValueUnits
        /\ Cell(t) \in Element /\ Cell(t) \notin Written /\ Written' = Written \cup {Cell(t)}
    BY <1>1, <1>4, StoreMovesUnits
  <2>2. Cardinality(Written') = Cardinality(Written) + 1
    BY <2>1, FiniteUnits, FS_AddElement
  <2>3. macs' = macs + 0 /\ loads' = loads + 0 /\ stores' = stores + 1
    BY <1>4 DEF Count
  <2>. QED BY <1>1, <2>1, <2>2, <2>3, CountNats DEF CountersAgree
<1>5. CASE Quiet(t) /\ Count(0, 0, 0)
  <2>1. DotUnits' = DotUnits /\ ValueUnits' = ValueUnits /\ Written' = Written
    BY <1>1, <1>5, DotUnitsKept, ValueUnitsKept
  <2>2. macs' = macs + 0 /\ loads' = loads + 0 /\ stores' = stores + 0
    BY <1>5 DEF Count
  <2>. QED BY <1>1, <2>1, <2>2, CountNats DEF CountersAgree
<1>. QED BY <1>2, <1>3, <1>4, <1>5 DEF WorkStep, Quiet

LEMMA WorkIInvStep == WorkIInv /\ [WorkNext]_workVars => WorkIInv'
<1>. SUFFICES ASSUME WorkIInv, [WorkNext]_workVars PROVE WorkIInv'
  OBVIOUS
<1>1. [KernelNext]_kernelVars
  BY WorkIsStep DEF WorkNext, KernelNext, workVars
<1>2. CoverageIInv'
  BY <1>1, CoverageStep DEF WorkIInv
<1>3. CASE UNCHANGED workVars
  <2>1. DotUnits' = DotUnits /\ ValueUnits' = ValueUnits /\ Written' = Written
    BY <1>3 DEF workVars, kernelVars, DotUnits, ValueUnits, Written, Cell, Multiplied, Weighted,
                DotNumber, Thread, Query
  <2>. QED BY <1>2, <1>3, <2>1 DEF workVars, WorkIInv, CountersAgree
<1>4. CASE WorkNext
  BY <1>2, <1>4, WorkStepKeeps DEF WorkNext, WorkIInv
<1>. QED BY <1>3, <1>4

(* What all units come to.                                                 *)
LEMMA AllUnits ==
  /\ Cardinality(Element) = Sequence * HeadDim
  /\ Cardinality(DotSpace) = ((Sequence * HeadDim) * (2 * Sequence)) * HeadDim
  /\ Cardinality(ValueSpace) = (Sequence * HeadDim) * Sequence
<1>. DEFINE N == Sequence * HeadDim
            P == 2 * Sequence
<1>1. N \in Nat \ {0} /\ P \in Nat \ {0} /\ HeadDim \in Nat \ {0} /\ Sequence \in Nat \ {0}
  BY LaunchFacts
<1>2. Element = 0..N-1 /\ Passes = 0..P-1 /\ Col = 0..HeadDim-1 /\ Row = 0..Sequence-1
  BY DEF Element, Passes, Col, Row
<1>. HIDE DEF N, P
<1>3. /\ Cardinality(Element) = N /\ Cardinality(Passes) = P
      /\ Cardinality(Col) = HeadDim /\ Cardinality(Row) = Sequence
  <2>1. ASSUME NEW n \in Nat \ {0} PROVE Cardinality(0..n-1) = n
    <3>1. 0 \in Int /\ n-1 \in Int /\ ~(0 > n-1) /\ (n - 1) - 0 + 1 = n
      OBVIOUS
    <3>. QED BY <3>1, FS_Interval
  <2>. QED BY <1>1, <1>2, <2>1
<1>4. /\ IsFiniteSet(Element \X Passes) /\ Cardinality(Element \X Passes) = N * P
      /\ Cardinality(Element \X Row) = N * Sequence
  BY <1>3, Finiteness, FS_Product
<1>5. Cardinality((Element \X Passes) \X Col) = (N * P) * HeadDim
  BY <1>3, <1>4, Finiteness, FS_Product
<1>. QED BY <1>3, <1>4, <1>5 DEF N, P, DotSpace, ValueSpace, Passes

(* The estimate, if it does not overflow, is the products.                 *)
LEMMA EstimateIsProducts ==
  ASSUME ~Plan!EstimateOverflows(Sequence, HeadDim)
  PROVE  LET e == Plan!Estimate(Sequence, HeadDim)
             qk == (((Sequence * Sequence) * HeadDim) * HeadDim) * 2
             value == (Sequence * Sequence) * HeadDim
         IN /\ e.lowered_macs = qk + value
            /\ e.bytes_read = qk * 2 + value
            /\ e.bytes_written = Sequence * HeadDim
<1>. DEFINE e == Plan!Estimate(Sequence, HeadDim)
            score == Plan!Score(Sequence, HeadDim)
            qk == Plan!LoweredQkMacs(Sequence, HeadDim)
            value == (Sequence * Sequence) * HeadDim
<1>1. /\ e.lowered_macs = Plan!Add(qk, score) /\ e.bytes_read = Plan!Add(Plan!Mul(qk, 2), score)
      /\ e.bytes_written = Plan!Mul(Sequence, HeadDim)
      /\ e.lowered_macs # Overflow /\ e.bytes_read # Overflow /\ e.bytes_written # Overflow
  BY DEF Plan!EstimateOverflows, Plan!Estimate
<1>2. ASSUME NEW a, NEW b, Plan!Mul(a, b) # Overflow
      PROVE  a # Overflow /\ b # Overflow /\ Plan!Mul(a, b) = a * b
  BY <1>2 DEF Plan!Mul, Plan!CheckedMul
<1>3. ASSUME NEW a, NEW b, Plan!Add(a, b) # Overflow
      PROVE  a # Overflow /\ b # Overflow /\ Plan!Add(a, b) = a + b
  BY <1>3 DEF Plan!Add
<1>4. qk # Overflow /\ score # Overflow /\ e.lowered_macs = qk + score
  BY <1>1, <1>3
<1>5. Plan!Mul(qk, 2) # Overflow /\ e.bytes_read = Plan!Mul(qk, 2) + score
  BY <1>1, <1>3
<1>6. Plan!Mul(qk, 2) = qk * 2
  BY <1>2, <1>5
<1>7. score = value
  BY <1>2, <1>4 DEF Plan!Score
<1>8. qk = (value * HeadDim) * 2
  BY <1>2, <1>4, <1>7 DEF Plan!LoweredQkMacs
<1>9. e.bytes_written = Sequence * HeadDim
  BY <1>1, <1>2
<1>. QED BY <1>4, <1>5, <1>6, <1>7, <1>8, <1>9

(* The reported figures are what is executed: for every shape, tile and    *)
(* grid, when the last thread has returned each MAC, byte loaded and byte  *)
(* stored of the estimate has been executed, and no other (crates/         *)
(* profiler, estimate_gpu_attention_prefill).                              *)
THEOREM EstimateHolds ==
  ASSUME ~ScalarLaunch PROVE WorkSpec => []EstimateIsExecuted
<1>1. WorkIInv => EstimateIsExecuted
  <2>. SUFFICES ASSUME WorkIInv, AllExited, ~Plan!EstimateOverflows(Sequence, HeadDim)
                PROVE  LET estimate == Plan!Estimate(Sequence, HeadDim)
                       IN /\ macs = estimate.lowered_macs
                          /\ loads = estimate.bytes_read
                          /\ stores = estimate.bytes_written
    BY DEF EstimateIsExecuted
  <2>. DEFINE S == Sequence
              D == HeadDim
  <2>1. Written = Element
    BY NothingIsLeft DEF WorkIInv, NoCellLeft, Written
  <2>2. DotUnits = DotSpace /\ ValueUnits = ValueSpace
    BY <2>1 DEF DotUnits, ValueUnits, DotSpace, ValueSpace
  <2>3. /\ macs = ((S * D) * (2 * S)) * D + (S * D) * S
        /\ loads = 2 * (((S * D) * (2 * S)) * D) + (S * D) * S
        /\ stores = S * D
    BY <2>1, <2>2, AllUnits DEF WorkIInv, CountersAgree
  <2>4. /\ ((S * D) * (2 * S)) * D = (((S * S) * D) * D) * 2
        /\ (S * D) * S = (S * S) * D
    BY LaunchFacts
  <2>5. /\ (((S * S) * D) * D) * 2 \in Nat /\ (S * S) * D \in Nat
    BY LaunchFacts
  <2>. QED BY <2>3, <2>4, <2>5, EstimateIsProducts
<1>2. WorkSpec => []WorkIInv
  BY WorkInitIInv, WorkIInvStep, PTL DEF WorkSpec
<1>. QED BY <1>1, <1>2, PTL
=============================================================================
