------------------------------ MODULE HubProofs ------------------------------
(***************************************************************************)
(* What the hub keeps and says, for any lines, events, goroutines, tokens, *)
(* rules, readings and faults: an accepted log line is in one place, a     *)
(* sidecar has its payload, a write that was acknowledged has been made, a *)
(* pairing is claimed once, for a token that works, an alert fires for     *)
(* readings that lasted, and notifications stay under their ceiling.       *)
(***************************************************************************)
EXTENDS LogStore, RelationalStore, HubAccess, Alerting, FiniteSetTheorems,
        WellFoundedInduction, TLAPS

-----------------------------------------------------------------------------
(* The log store. *)

Frame == [at : {"idle", "flush", "payload", "meta"}, key : Keys \cup {NoKey},
          lines : SUBSET Lines]

Buffered(l) == \E k \in Keys : l \in buffers[k].lines

InHand(w, l) == writer[w].at = "payload" /\ l \in writer[w].lines

Handed(l) == \E w \in Writers : InHand(w, l)

InBlock(l) == \E b \in blocks : l \in b.lines

LTypes ==
  /\ buffers \in [Keys -> [lines : SUBSET Lines, firstAt : Nat]]
  /\ clock \in Nat
  /\ writer \in [Writers -> Frame]
  /\ \A w \in Writers : writer[w].at = "flush" => writer[w].key \in Keys
  /\ blocks \subseteq [lines : SUBSET Lines, payload : BOOLEAN, meta : BOOLEAN]
  /\ taken \subseteq Lines
  /\ lost \subseteq Lines

\* The kinds of place exclude each other, and within each kind the place is
\* one: a buffer holds lines of its own key, no two goroutines hold a line, and
\* no two blocks do.
OfLine(l) ==
  /\ l \in taken <=> (Buffered(l) \/ Handed(l) \/ InBlock(l) \/ l \in lost)
  /\ Buffered(l) => ~Handed(l) /\ ~InBlock(l) /\ l \notin lost
  /\ Handed(l) => ~InBlock(l) /\ l \notin lost
  /\ InBlock(l) => l \notin lost
  /\ \A k \in Keys : l \in buffers[k].lines => k = KeyOf[l]
  /\ \A v, w \in Writers : InHand(v, l) /\ InHand(w, l) => v = w
  /\ \A a, b \in blocks : l \in a.lines /\ l \in b.lines => a = b

PlaceInv == \A l \in Lines : OfLine(l)

PayloadFirst == \A b \in blocks : b.meta => b.payload

LInv == LTypes /\ PlaceInv /\ PayloadFirst

-----------------------------------------------------------------------------
\* What the invariant says of a line is what LineInOnePlace counts.
LEMMA OnePlace == ASSUME LInv PROVE LineInOnePlace
<1> SUFFICES ASSUME NEW l \in taken PROVE Cardinality(Places(l)) = 1
  BY DEF LineInOnePlace
<1>1. l \in Lines
  BY DEF LInv, LTypes
<1> DEFINE B == {<<"buffer", k>> : k \in {k \in Keys : l \in buffers[k].lines}}
           W == {<<"writer", w>> : w \in {w \in Writers :
                                     writer[w].at = "payload" /\ l \in writer[w].lines}}
           K == {<<"block", b>> : b \in {b \in blocks : l \in b.lines}}
           G == {<<"lost", x>> : x \in lost \cap {l}}
<1>2. (B # {} <=> Buffered(l)) /\ (W # {} <=> Handed(l)) /\ (K # {} <=> InBlock(l))
      /\ (G # {} <=> l \in lost)
  BY Zenon DEF Buffered, Handed, InHand, InBlock
<1>3. /\ \A x, y \in B : x = y
      /\ \A x, y \in W : x = y
      /\ \A x, y \in K : x = y
      /\ \A x, y \in G : x = y
  <2>1. \A x, y \in B : x = y
    BY <1>1, Zenon DEF LInv, PlaceInv, OfLine
  <2>2. \A x, y \in W : x = y
    BY <1>1, Zenon DEF LInv, PlaceInv, OfLine, InHand
  <2>3. \A x, y \in K : x = y
    BY <1>1, Zenon DEF LInv, PlaceInv, OfLine
  <2>4. \A x, y \in G : x = y
    BY Zenon
  <2> QED BY <2>1, <2>2, <2>3, <2>4
<1>4. Places(l) = B \cup W \cup K \cup G
  BY DEF Places
<1> HIDE DEF B, W, K, G
<1>6. ASSUME NEW S, S # {}, \A x, y \in S : x = y PROVE \E x : S = {x}
  <2>1. PICK x : x \in S
    BY <1>6
  <2>2. S = {x}
    BY <1>6, <2>1
  <2> QED BY <2>2
<1>5. \E x : Places(l) = {x}
  <2>1. CASE Buffered(l)
    <3>1. W = {} /\ K = {} /\ G = {} /\ B # {}
      BY <1>1, <1>2, <2>1, Zenon DEF LInv, PlaceInv, OfLine
    <3>2. Places(l) = B
      BY <3>1, <1>4
    <3> QED BY <3>1, <3>2, <1>3, <1>6, Zenon
  <2>2. CASE Handed(l)
    <3>1. B = {} /\ K = {} /\ G = {} /\ W # {}
      BY <1>1, <1>2, <2>2, Zenon DEF LInv, PlaceInv, OfLine
    <3>2. Places(l) = W
      BY <3>1, <1>4
    <3> QED BY <3>1, <3>2, <1>3, <1>6
  <2>3. CASE InBlock(l)
    <3>1. B = {} /\ W = {} /\ G = {} /\ K # {}
      BY <1>1, <1>2, <2>3, Zenon DEF LInv, PlaceInv, OfLine
    <3>2. Places(l) = K
      BY <3>1, <1>4
    <3> QED BY <3>1, <3>2, <1>3, <1>6, Zenon
  <2>4. CASE l \in lost
    <3>1. B = {} /\ W = {} /\ K = {} /\ G # {}
      BY <1>1, <1>2, <2>4, Zenon DEF LInv, PlaceInv, OfLine
    <3>2. Places(l) = G
      BY <3>1, <1>4
    <3> QED BY <3>1, <3>2, <1>3, <1>6
  <2> QED BY <1>1, <2>1, <2>2, <2>3, <2>4, Zenon DEF LInv, PlaceInv, OfLine
<1> QED BY <1>5, FS_Singleton, Zenon

-----------------------------------------------------------------------------
LEMMA AppendStep ==
  ASSUME LInv, NEW w \in Writers, NEW l \in Lines, AppendLine(w, l)
  PROVE  LInv'
<1> USE DEF LInv
<1> DEFINE k == KeyOf[l]
           buf == [lines   |-> buffers[k].lines \cup {l},
                   firstAt |-> IF buffers[k].lines = {} THEN clock ELSE buffers[k].firstAt]
<1>1. /\ l \notin taken /\ writer[w] = Idle
      /\ taken' = taken \cup {l}
      /\ buffers' = [buffers EXCEPT ![k] = buf]
      /\ \/ writer' = writer
         \/ writer' = [writer EXCEPT ![w] = [Idle EXCEPT !.at = "flush", !.key = k]]
      /\ UNCHANGED <<clock, blocks, lost>>
  BY DEF AppendLine
<1>2. k \in Keys /\ buf \in [lines : SUBSET Lines, firstAt : Nat]
      /\ buf.lines = buffers[k].lines \cup {l}
  BY DEF LTypes, Keys
<1> HIDE DEF buf, k
<1>9. PICK f \in Frame : f.at = "flush" /\ f.key = k
                        /\ (writer' = writer \/ writer' = [writer EXCEPT ![w] = f])
  <2> DEFINE f == [Idle EXCEPT !.at = "flush", !.key = k]
  <2>1. f \in Frame /\ f.at = "flush" /\ f.key = k
    BY <1>2, Zenon DEF Frame, Idle
  <2> QED BY <1>1, <2>1, Zenon
<1>3. \A j \in Keys : buffers'[j].lines = IF j = k THEN buffers[k].lines \cup {l}
                                          ELSE buffers[j].lines
  BY <1>1, <1>2, Zenon DEF LTypes
<1>4. LTypes'
  <2>1. writer' \in [Writers -> Frame]
    BY <1>9 DEF LTypes
  <2>2. buffers' \in [Keys -> [lines : SUBSET Lines, firstAt : Nat]]
    BY <1>1, <1>2 DEF LTypes
  <2>3. \A v \in Writers : writer'[v].at = "flush" => writer'[v].key \in Keys
    BY <1>2, <1>9 DEF LTypes
  <2> QED BY <1>1, <2>1, <2>2, <2>3 DEF LTypes
<1>5. \A v \in Writers, m \in Lines : InHand(v, m)' <=> InHand(v, m)
  <2>1. \A v \in Writers : v # w => writer'[v] = writer[v]
    BY <1>9 DEF LTypes
  <2>2. writer[w].at # "payload" /\ writer'[w].at # "payload"
    BY <1>1, <1>9 DEF LTypes, Idle
  <2> QED BY <2>1, <2>2, Zenon DEF InHand
<1>6. /\ \A m \in Lines : Handed(m)' <=> Handed(m)
      /\ \A m \in Lines : InBlock(m)' <=> InBlock(m)
  BY <1>1, <1>5, Zenon DEF Handed, InBlock
<1>7. \A m \in Lines : Buffered(m)' <=> (Buffered(m) \/ m = l)
  BY <1>2, <1>3, Zenon DEF Buffered
<1>8. PlaceInv'
  <2> SUFFICES ASSUME NEW m \in Lines PROVE OfLine(m)'
    BY DEF PlaceInv
  <2>1. \A j \in Keys : m \in buffers'[j].lines => j = KeyOf[m]
    BY <1>3 DEF PlaceInv, OfLine, k
  <2>2. m \in taken' <=> (m \in taken \/ m = l)
    BY <1>1
  <2>3. lost' = lost /\ blocks' = blocks /\ l \notin taken
    BY <1>1
  <2>4. OfLine(m) /\ (m = l => ~Handed(m) /\ ~InBlock(m) /\ m \notin lost)
    BY <2>3, Zenon DEF PlaceInv, OfLine
  <2>5. m \in taken' <=> (Buffered(m)' \/ Handed(m)' \/ InBlock(m)' \/ m \in lost')
    BY <1>6, <1>7, <2>2, <2>3, <2>4, Zenon DEF OfLine
  <2>6. /\ Buffered(m)' => ~Handed(m)' /\ ~InBlock(m)' /\ m \notin lost'
        /\ Handed(m)' => ~InBlock(m)' /\ m \notin lost'
        /\ InBlock(m)' => m \notin lost'
    BY <1>6, <1>7, <2>3, <2>4, Zenon DEF OfLine
  <2>7. \A u, v \in Writers : InHand(u, m)' /\ InHand(v, m)' => u = v
    BY <1>5, <2>4, Zenon DEF OfLine
  <2>8. \A c, d \in blocks' : m \in c.lines /\ m \in d.lines => c = d
    BY <2>3, <2>4, Zenon DEF OfLine
  <2> QED BY <2>1, <2>5, <2>6, <2>7, <2>8, Zenon DEF OfLine
<1> QED BY <1>1, <1>4, <1>8 DEF PayloadFirst

\* Steps that move no line.
LEMMA QuietLogStep ==
  ASSUME LInv, UNCHANGED <<buffers, blocks, taken, lost>>, clock' \in Nat,
         writer' \in [Writers -> Frame],
         \A w \in Writers : writer'[w].at = "flush" => writer'[w].key \in Keys,
         \A w \in Writers, l \in Lines : InHand(w, l)' <=> InHand(w, l)
  PROVE  LInv'
<1> USE DEF LInv
<1>1. LTypes'
  BY DEF LTypes
<1>2. PlaceInv'
  <2> SUFFICES ASSUME NEW m \in Lines PROVE OfLine(m)'
    BY DEF PlaceInv
  <2>1. (Buffered(m)' <=> Buffered(m)) /\ (InBlock(m)' <=> InBlock(m))
    BY DEF Buffered, InBlock
  <2>2. Handed(m)' <=> Handed(m)
    BY Zenon DEF Handed
  <2> QED BY <2>1, <2>2 DEF PlaceInv, OfLine
<1> QED BY <1>1, <1>2 DEF PayloadFirst

LEMMA FlushStep ==
  ASSUME LInv, NEW w \in Writers, Flush(w)
  PROVE  LInv'
<1> USE DEF LInv
<1>1. PICK k \in Keys : writer[w].key = k /\ writer[w].at = "flush"
  BY DEF Flush, LTypes
<1>2. writer \in [Writers -> Frame] /\ buffers \in [Keys -> [lines : SUBSET Lines, firstAt : Nat]]
  BY DEF LTypes
<1>3. CASE buffers[k].lines = {}
  <2>1. writer' = [writer EXCEPT ![w] = Idle] /\ UNCHANGED <<clock, buffers, blocks, taken, lost>>
    BY <1>1, <1>3 DEF Flush
  <2>2. Idle \in Frame /\ Idle.at = "idle"
    BY DEF Idle, Frame
  <2>3. /\ writer' \in [Writers -> Frame]
        /\ \A v \in Writers : v # w => writer'[v] = writer[v]
        /\ writer'[w].at = "idle"
    BY <1>2, <2>1, <2>2
  <2>4. \A v \in Writers : writer'[v].at = "flush" => writer'[v].key \in Keys
    BY <2>3 DEF LTypes
  <2>5. \A v \in Writers, l \in Lines : InHand(v, l)' <=> InHand(v, l)
    BY <1>1, <2>3 DEF InHand
  <2> QED BY <2>1, <2>3, <2>4, <2>5, QuietLogStep DEF LTypes
<1>4. CASE buffers[k].lines # {}
  <2>1. PICK S \in SUBSET Lines : S = buffers[k].lines
    BY <1>2
  <2>2. /\ writer' = [writer EXCEPT ![w].at = "payload", ![w].lines = S]
        /\ buffers' = [buffers EXCEPT ![k] = Empty]
        /\ UNCHANGED <<clock, blocks, taken, lost>>
    BY <1>1, <1>4, <2>1 DEF Flush
  <2>3. /\ writer' \in [Writers -> Frame]
        /\ \A v \in Writers : v # w => writer'[v] = writer[v]
        /\ writer'[w].at = "payload" /\ writer'[w].lines = S
    BY <1>2, <2>2, Zenon DEF Frame
  <2>4. /\ buffers' \in [Keys -> [lines : SUBSET Lines, firstAt : Nat]]
        /\ \A j \in Keys : buffers'[j].lines = IF j = k THEN {} ELSE buffers[j].lines
    BY <1>2, <2>2 DEF Empty
  <2>5. LTypes'
    <3>1. \A v \in Writers : writer'[v].at = "flush" => writer'[v].key \in Keys
      BY <2>3 DEF LTypes
    <3> QED BY <2>2, <2>3, <2>4, <3>1 DEF LTypes
  <2>6. PlaceInv'
    <3> SUFFICES ASSUME NEW m \in Lines PROVE OfLine(m)'
      BY DEF PlaceInv
    <3>1. \A j \in Keys : m \in buffers[j].lines => j = KeyOf[m]
      BY DEF PlaceInv, OfLine
    <3>2. Buffered(m)' <=> (Buffered(m) /\ m \notin S)
      BY <2>1, <2>4, <3>1 DEF Buffered
    <3>3. /\ InHand(w, m)' <=> m \in S
          /\ ~InHand(w, m)
          /\ \A v \in Writers : v # w => (InHand(v, m)' <=> InHand(v, m))
      BY <1>1, <2>3 DEF InHand
    <3>4. Handed(m)' <=> (Handed(m) \/ m \in S)
      BY <3>3, Zenon DEF Handed
    <3>5. m \in S => Buffered(m)
      BY <2>1 DEF Buffered
    <3>6. InBlock(m)' <=> InBlock(m)
      BY <2>2 DEF InBlock
    <3>7. \A j \in Keys : m \in buffers'[j].lines => j = KeyOf[m]
      BY <2>4, <3>1
    <3>8. \A u, v \in Writers : InHand(u, m)' /\ InHand(v, m)' => u = v
      <4>1. m \in S => \A v \in Writers : ~InHand(v, m)
        BY <3>5 DEF PlaceInv, OfLine, Handed
      <4>2. \A u, v \in Writers : InHand(u, m) /\ InHand(v, m) => u = v
        BY DEF PlaceInv, OfLine
      <4> QED BY <3>3, <4>1, <4>2, Zenon
    <3>9. taken' = taken /\ lost' = lost /\ blocks' = blocks
      BY <2>2
    <3> QED BY <3>2, <3>4, <3>5, <3>6, <3>7, <3>8, <3>9, Zenon DEF PlaceInv, OfLine
  <2> QED BY <2>2, <2>5, <2>6 DEF PayloadFirst
<1> QED BY <1>3, <1>4

LEMMA FlushAllStep ==
  ASSUME LInv, NEW w \in Writers, FlushAll(w)
  PROVE  LInv'
<1> USE DEF LInv
<1>1. PICK k \in Keys : writer' = [writer EXCEPT ![w] = [Idle EXCEPT !.at = "flush", !.key = k]]
  BY Zenon DEF FlushAll
<1>2. PICK f \in Frame : f.at = "flush" /\ f.key = k /\ writer' = [writer EXCEPT ![w] = f]
  <2> DEFINE f == [Idle EXCEPT !.at = "flush", !.key = k]
  <2>1. f \in Frame /\ f.at = "flush" /\ f.key = k
    BY Zenon DEF Frame, Idle
  <2> QED BY <1>1, <2>1, Zenon
<1>3. /\ writer' \in [Writers -> Frame]
      /\ \A v \in Writers : v # w => writer'[v] = writer[v]
      /\ writer'[w] = f
  BY <1>2 DEF LTypes
<1>4. \A v \in Writers, l \in Lines : InHand(v, l)' <=> InHand(v, l)
  <2>1. writer[w].at # "payload"
    BY DEF FlushAll, Idle
  <2> QED BY <1>2, <1>3, <2>1 DEF InHand
<1>5. \A v \in Writers : writer'[v].at = "flush" => writer'[v].key \in Keys
  BY <1>2, <1>3 DEF LTypes
<1> QED BY <1>3, <1>4, <1>5, QuietLogStep DEF FlushAll, LTypes

LEMMA WritePayloadStep ==
  ASSUME LInv, NEW w \in Writers, WritePayload(w)
  PROVE  LInv'
<1> USE DEF LInv
<1>1. PICK S \in SUBSET Lines : S = writer[w].lines
  BY DEF LTypes, Frame
<1>2. PICK nb : nb = [lines |-> S, payload |-> TRUE, meta |-> FALSE]
  BY Zenon
<1>3. /\ writer[w].at = "payload"
      /\ blocks' = blocks \cup {nb}
      /\ writer' = [writer EXCEPT ![w].at = "meta"]
      /\ UNCHANGED <<clock, buffers, taken, lost>>
  BY <1>1, <1>2 DEF WritePayload
<1>4. nb \in [lines : SUBSET Lines, payload : BOOLEAN, meta : BOOLEAN]
      /\ nb.lines = S /\ nb.payload = TRUE
  BY <1>2
<1>5. /\ writer' \in [Writers -> Frame]
      /\ \A v \in Writers : v # w => writer'[v] = writer[v]
      /\ writer'[w].at = "meta"
  BY <1>3 DEF LTypes, Frame
<1>6. LTypes'
  <2>1. \A v \in Writers : writer'[v].at = "flush" => writer'[v].key \in Keys
    BY <1>5 DEF LTypes
  <2>2. blocks' \subseteq [lines : SUBSET Lines, payload : BOOLEAN, meta : BOOLEAN]
    BY <1>3, <1>4 DEF LTypes
  <2> QED BY <1>3, <1>5, <2>1, <2>2 DEF LTypes
<1>7. PlaceInv'
  <2> SUFFICES ASSUME NEW m \in Lines PROVE OfLine(m)'
    BY DEF PlaceInv
  <2>1. /\ InHand(w, m) <=> m \in S
        /\ ~InHand(w, m)'
        /\ \A v \in Writers : v # w => (InHand(v, m)' <=> InHand(v, m))
    BY <1>1, <1>3, <1>5 DEF InHand
  <2>2. \A u, v \in Writers : InHand(u, m) /\ InHand(v, m) => u = v
    BY DEF PlaceInv, OfLine
  <2>3. Handed(m)' <=> (Handed(m) /\ m \notin S)
    BY <2>1, <2>2, Zenon DEF Handed
  <2>4. InBlock(m)' <=> (InBlock(m) \/ m \in S)
    BY <1>3, <1>4, Zenon DEF InBlock
  <2>5. m \in S => Handed(m) /\ ~InBlock(m)
    BY <2>1, Zenon DEF Handed, PlaceInv, OfLine
  <2>6. Buffered(m)' <=> Buffered(m)
    BY <1>3 DEF Buffered
  <2>7. \A u, v \in Writers : InHand(u, m)' /\ InHand(v, m)' => u = v
    BY <2>1, <2>2, Zenon
  <2>8. \A a, b \in blocks' : m \in a.lines /\ m \in b.lines => a = b
    <3>1. \A a, b \in blocks : m \in a.lines /\ m \in b.lines => a = b
      BY DEF PlaceInv, OfLine
    <3> QED BY <1>3, <1>4, <2>5, <3>1, Zenon DEF InBlock
  <2>9. taken' = taken /\ lost' = lost /\ buffers' = buffers
    BY <1>3
  <2> QED BY <2>3, <2>4, <2>5, <2>6, <2>7, <2>8, <2>9, Zenon DEF PlaceInv, OfLine
<1>8. PayloadFirst'
  BY <1>3, <1>4 DEF PayloadFirst
<1> QED BY <1>6, <1>7, <1>8

LEMMA WriteMetaStep ==
  ASSUME LInv, NEW w \in Writers, WriteMeta(w)
  PROVE  LInv'
<1> USE DEF LInv
<1> DEFINE Named(b) == IF b.lines = writer[w].lines
                         THEN [b EXCEPT !.payload = TRUE, !.meta = TRUE] ELSE b
           Block == [lines : SUBSET Lines, payload : BOOLEAN, meta : BOOLEAN]
<1>1. /\ writer[w].at = "meta"
      /\ blocks' = {Named(b) : b \in blocks}
      /\ writer' = [writer EXCEPT ![w] = Idle]
      /\ UNCHANGED <<clock, buffers, taken, lost>>
  BY Zenon DEF WriteMeta
<1>2. \A b \in blocks : /\ Named(b) \in Block /\ Named(b).lines = b.lines
                        /\ Named(b).meta => Named(b).payload
  <2> SUFFICES ASSUME NEW b \in blocks
               PROVE  Named(b) \in Block /\ Named(b).lines = b.lines
                      /\ (Named(b).meta => Named(b).payload)
    BY Zenon
  <2>1. b \in Block /\ (b.meta => b.payload)
    BY DEF LTypes, PayloadFirst
  <2> QED BY <2>1, Zenon
<1>3. /\ writer' \in [Writers -> Frame]
      /\ \A v \in Writers : v # w => writer'[v] = writer[v]
      /\ writer'[w].at = "idle"
  <2>1. Idle \in Frame /\ Idle.at = "idle"
    BY DEF Idle, Frame
  <2> QED BY <1>1, <2>1, Zenon DEF LTypes
<1> HIDE DEF Named
<1>4. LTypes'
  <2>1. \A v \in Writers : writer'[v].at = "flush" => writer'[v].key \in Keys
    BY <1>3 DEF LTypes
  <2>2. blocks' \subseteq Block
    BY <1>1, <1>2
  <2> QED BY <1>1, <1>3, <2>1, <2>2 DEF LTypes
<1>5. PlaceInv'
  <2> SUFFICES ASSUME NEW m \in Lines PROVE OfLine(m)'
    BY DEF PlaceInv
  <2>1. \A v \in Writers : InHand(v, m)' <=> InHand(v, m)
    BY <1>1, <1>3 DEF InHand
  <2>2. Handed(m)' <=> Handed(m)
    BY <2>1, Zenon DEF Handed
  <2>3. InBlock(m)' <=> InBlock(m)
    BY <1>1, <1>2, Zenon DEF InBlock
  <2>4. Buffered(m)' <=> Buffered(m)
    BY <1>1 DEF Buffered
  <2>5. \A a, b \in blocks' : m \in a.lines /\ m \in b.lines => a = b
    <3>1. \A a, b \in blocks : m \in a.lines /\ m \in b.lines => a = b
      BY DEF PlaceInv, OfLine
    <3> SUFFICES ASSUME NEW a \in blocks', NEW b \in blocks', m \in a.lines, m \in b.lines
                 PROVE  a = b
      OBVIOUS
    <3>2. PICK c \in blocks, d \in blocks : a = Named(c) /\ b = Named(d)
      BY <1>1
    <3>3. m \in c.lines /\ m \in d.lines
      BY <1>2, <3>2
    <3> QED BY <3>1, <3>2, <3>3
  <2>6. taken' = taken /\ lost' = lost /\ buffers' = buffers
    BY <1>1
  <2> QED BY <2>1, <2>2, <2>3, <2>4, <2>5, <2>6, Zenon DEF PlaceInv, OfLine
<1>6. PayloadFirst'
  BY <1>1, <1>2, Zenon DEF PayloadFirst
<1> QED BY <1>4, <1>5, <1>6

LEMMA WriteFailsStep ==
  ASSUME LInv, NEW w \in Writers, WriteFails(w)
  PROVE  LInv'
<1> USE DEF LInv
<1>1. PICK S \in SUBSET Lines : S = IF writer[w].at = "payload" THEN writer[w].lines ELSE {}
  BY Zenon DEF LTypes, Frame
<1>2. /\ writer[w].at \in {"payload", "meta"}
      /\ lost' = lost \cup S
      /\ writer' = [writer EXCEPT ![w] = Idle]
      /\ UNCHANGED <<clock, buffers, blocks, taken>>
  BY <1>1 DEF WriteFails
<1>3. /\ writer' \in [Writers -> Frame]
      /\ \A v \in Writers : v # w => writer'[v] = writer[v]
      /\ writer'[w].at = "idle"
  <2>1. Idle \in Frame /\ Idle.at = "idle"
    BY DEF Idle, Frame
  <2> QED BY <1>2, <2>1 DEF LTypes
<1>4. LTypes'
  <2>1. \A v \in Writers : writer'[v].at = "flush" => writer'[v].key \in Keys
    BY <1>3 DEF LTypes
  <2> QED BY <1>2, <1>3, <2>1 DEF LTypes
<1>5. PlaceInv'
  <2> SUFFICES ASSUME NEW m \in Lines PROVE OfLine(m)'
    BY DEF PlaceInv
  <2>1. /\ InHand(w, m) <=> m \in S
        /\ ~InHand(w, m)'
        /\ \A v \in Writers : v # w => (InHand(v, m)' <=> InHand(v, m))
    BY <1>1, <1>3 DEF InHand
  <2>2. \A u, v \in Writers : InHand(u, m) /\ InHand(v, m) => u = v
    BY DEF PlaceInv, OfLine
  <2>3. Handed(m)' <=> (Handed(m) /\ m \notin S)
    BY <2>1, <2>2, Zenon DEF Handed
  <2>4. m \in S => Handed(m)
    BY <2>1, Zenon DEF Handed
  <2>5. (InBlock(m)' <=> InBlock(m)) /\ (Buffered(m)' <=> Buffered(m))
    BY <1>2 DEF InBlock, Buffered
  <2>6. \A u, v \in Writers : InHand(u, m)' /\ InHand(v, m)' => u = v
    BY <2>1, <2>2, Zenon
  <2>7. taken' = taken /\ blocks' = blocks /\ buffers' = buffers
        /\ (m \in lost' <=> m \in lost \/ m \in S)
    BY <1>2
  <2> QED BY <2>3, <2>4, <2>5, <2>6, <2>7, Zenon DEF PlaceInv, OfLine
<1> QED BY <1>2, <1>4, <1>5 DEF PayloadFirst

LEMMA CrashHubStep == ASSUME LInv, CrashHub PROVE LInv'
<1> USE DEF LInv
<1>1. /\ buffers' = [k \in Keys |-> Empty]
      /\ writer' = [w \in Writers |-> Idle]
      /\ UNCHANGED <<clock, blocks, taken>>
  BY DEF CrashHub
<1>2. /\ Idle \in Frame /\ Idle.at = "idle"
      /\ Empty \in [lines : SUBSET Lines, firstAt : Nat] /\ Empty.lines = {}
  BY DEF Idle, Frame, Empty
<1>3. \A m : m \in lost' <=> m \in lost \/ Buffered(m) \/ Handed(m)
  <2> DEFINE A == UNION {buffers[k].lines : k \in Keys}
             B == UNION {writer[w].lines : w \in {v \in Writers : writer[v].at = "payload"}}
  <2>1. \A m : m \in A <=> Buffered(m)
    BY Zenon DEF Buffered
  <2>2. \A m : m \in B <=> Handed(m)
    BY Zenon DEF Handed, InHand
  <2>3. lost' = lost \cup A \cup B
    BY Zenon DEF CrashHub
  <2> HIDE DEF A, B
  <2> QED BY <2>1, <2>2, <2>3
<1>4. LTypes'
  <2>1. lost' \subseteq Lines
    <3>1. \A k \in Keys : buffers[k].lines \subseteq Lines
      BY DEF LTypes
    <3>2. \A w \in Writers : writer[w].lines \subseteq Lines
      BY DEF LTypes, Frame
    <3> QED BY <1>3, <3>1, <3>2 DEF LTypes, Buffered, Handed, InHand
  <2> QED BY <1>1, <1>2, <2>1 DEF LTypes
<1>5. PlaceInv'
  <2> SUFFICES ASSUME NEW m \in Lines PROVE OfLine(m)'
    BY DEF PlaceInv
  <2>1. ~Buffered(m)' /\ ~Handed(m)' /\ (InBlock(m)' <=> InBlock(m))
    BY <1>1, <1>2 DEF Buffered, Handed, InHand, InBlock
  <2>2. \A w \in Writers : ~InHand(w, m)'
    BY <2>1 DEF Handed
  <2>3. \A j \in Keys : m \notin buffers'[j].lines
    BY <1>1, <1>2
  <2> QED BY <1>1, <1>3, <2>1, <2>2, <2>3, Zenon DEF PlaceInv, OfLine
<1> QED BY <1>1, <1>4, <1>5 DEF PayloadFirst

LEMMA LogStep == ASSUME LInv, [LogNext]_logVars PROVE LInv'
<1>1. CASE Tick \/ UNCHANGED logVars
  <2>1. UNCHANGED <<buffers, blocks, taken, lost, writer>> /\ clock' \in Nat
    BY <1>1 DEF Tick, logVars, LInv, LTypes
  <2> QED BY <2>1, QuietLogStep DEF LInv, LTypes, InHand
<1> QED BY <1>1, AppendStep, FlushStep, FlushAllStep, WritePayloadStep, WriteMetaStep,
         WriteFailsStep, CrashHubStep, Zenon DEF LogNext

LEMMA LogStart == ASSUME LogInit PROVE LInv
<1>1. /\ Idle \in Frame /\ Idle.at = "idle"
      /\ Empty \in [lines : SUBSET Lines, firstAt : Nat] /\ Empty.lines = {}
  BY DEF Idle, Frame, Empty
<1>2. LTypes
  BY <1>1 DEF LogInit, LTypes
<1>3. PlaceInv
  BY <1>1 DEF LogInit, PlaceInv, OfLine, Buffered, Handed, InHand, InBlock
<1> QED BY <1>2, <1>3 DEF LInv, PayloadFirst, LogInit

\* The log store keeps its invariant.
LEMMA LogInvariance == LogSpec => []LInv
<1>1. LogInit => LInv
  BY LogStart
<1>2. LInv /\ [LogNext]_logVars => LInv'
  BY LogStep
<1> QED BY <1>1, <1>2, PTL DEF LogSpec

\* A line logstore.Append accepted is in one buffer, in the hands of one flush,
\* in one block or given up, however the requests interleave around the unlocked
\* writeBlock.
THEOREM LinesKept == LogSpec => []LineInOnePlace
<1>1. LInv => LineInOnePlace
  BY OnePlace
<1> QED BY <1>1, LogInvariance, PTL

\* No crash or failed write of writeBlock leaves a sidecar without its payload,
\* so ScanIndex finds no block it cannot read.
THEOREM SidecarsFollow == LogSpec => []NoOrphanMeta
<1>1. LInv => NoOrphanMeta
  BY DEF LInv, PayloadFirst, NoOrphanMeta, ScanIndex
<1> QED BY <1>1, LogInvariance, PTL

-----------------------------------------------------------------------------
(* The relational store. *)

\* What the theorem asks of the constants: an event is no inventory, and no
\* inventory is the empty table.
Distinct == Events \cap Inventories = {} /\ Nothing \notin Inventories

Busy == writerAt.at \in {"row", "fts"}

\* The write is in its table, and for an event in the index too unless the
\* second statement failed.
Made(r) ==
  /\ r \in Events => r \in stored /\ r \in indexed \cup cut
  /\ r \in Inventories => inventory # Nothing

STypes ==
  /\ caller \in [Callers -> [at : {"idle", "offer", "wait"}, n : Nat,
                             req : Writes \cup {Nothing}, reply : {"none", "ok", "err"}]]
  /\ \A c \in Callers : /\ caller[c].at # "idle" => caller[c].req \in Writes
                        /\ caller[c].at = "offer" => caller[c].reply = "none"
  /\ writerAt.at \in {"select", "row", "fts", "stopped"}
  /\ Busy => writerAt.by \in Callers /\ writerAt.req \in Writes
  /\ indexed \subseteq stored
  /\ acked \subseteq Writes

\* A caller that waits for the write under way waits for that write, and no
\* caller's count of calls is behind the writer's.
CallInv ==
  Busy => LET c == caller[writerAt.by]
          IN  writerAt.n <= c.n /\ writerAt.n \in Nat
              /\ (c.at = "wait" /\ c.n = writerAt.n => c.req = writerAt.req)

\* Whoever was answered "ok" was told the truth; what the index lacks is under
\* way or was cut off.
AnswerInv ==
  /\ \A c \in Callers : caller[c].at = "wait" /\ caller[c].reply = "ok" => Made(caller[c].req)
  /\ \A r \in acked : Made(r)
  /\ writerAt.at = "fts" => writerAt.req \in stored /\ writerAt.req \in Events
  /\ \A e \in stored \ indexed : e \in cut \/ (writerAt.at = "fts" /\ writerAt.req = e)

SInv == STypes /\ CallInv /\ AnswerInv

\* The truth of an answer is what AckedIsStored asks for.
LEMMA AckedFromInvariant == ASSUME SInv PROVE AckedIsStored
<1>1. \A e \in acked \cap Events : Made(e)
  BY DEF SInv, AnswerInv
<1>2. acked \cap Inventories # {} => inventory # Nothing
  BY DEF SInv, AnswerInv, Made
<1> QED BY <1>1, <1>2 DEF SInv, AnswerInv, Made, AckedIsStored, SearchEventTitles

\* No step takes a written row back.
LEMMA MadeGrows ==
  ASSUME stored \subseteq stored', indexed \subseteq indexed', cut \subseteq cut',
         inventory' = inventory \/ inventory' # Nothing, NEW r, Made(r)
  PROVE  Made(r)'
  BY DEF Made

\* The steps of a caller leave the writer and the tables alone.
LEMMA CallerStep ==
  ASSUME SInv, NEW c \in Callers,
         (\E r \in Writes : Enqueue(c, r)) \/ GiveUp(c) \/ OfferRefused(c) \/ Receive(c)
  PROVE  SInv'
<1> USE DEF SInv
<1>1. UNCHANGED <<writerAt, stored, indexed, inventory, cut>>
  BY DEF Enqueue, GiveUp, OfferRefused, Receive
<1>2. PICK f \in [at : {"idle", "offer"}, n : Nat, req : Writes \cup {Nothing}, reply : {"none"}] :
        /\ caller' = [caller EXCEPT ![c] = f]
        /\ f.n >= caller[c].n
        /\ f.at = "offer" => f.req \in Writes
  <2>1. caller[c].n \in Nat
    BY DEF STypes
  <2>2. CASE GiveUp(c) \/ OfferRefused(c) \/ Receive(c)
    <3> DEFINE f == [Resting EXCEPT !.n = caller[c].n]
    <3>1. f \in [at : {"idle", "offer"}, n : Nat, req : Writes \cup {Nothing}, reply : {"none"}]
          /\ f.n >= caller[c].n /\ f.at = "idle"
      BY <2>1 DEF Resting
    <3>2. caller' = [caller EXCEPT ![c] = f]
      BY <2>2 DEF GiveUp, OfferRefused, Receive
    <3> HIDE DEF f
    <3> QED BY <3>1, <3>2, Zenon
  <2>3. CASE \E r \in Writes : Enqueue(c, r)
    <3>1. PICK r \in Writes : Enqueue(c, r)
      BY <2>3
    <3> DEFINE k == caller[c].n + 1
               f == [at |-> "offer", n |-> k, req |-> r, reply |-> "none"]
    <3>2. k \in Nat /\ k >= caller[c].n
      BY <2>1
    <3>3. caller' = [caller EXCEPT ![c] = f]
      BY <3>1 DEF Enqueue
    <3> HIDE DEF k
    <3>4. f \in [at : {"idle", "offer"}, n : Nat, req : Writes \cup {Nothing}, reply : {"none"}]
          /\ f.n = k /\ f.req \in Writes
      BY <3>2, Zenon
    <3> HIDE DEF f
    <3> QED BY <3>2, <3>3, <3>4, Zenon
  <2> QED BY <2>2, <2>3
<1>3. \A d \in Callers : caller'[d] = IF d = c THEN f ELSE caller[d]
  BY <1>2 DEF STypes
<1>4. \A r \in acked' : Made(r) /\ r \in Writes
  BY DEF Enqueue, GiveUp, OfferRefused, Receive, AnswerInv, STypes
<1>5. Busy' <=> Busy
  BY <1>1 DEF Busy
<1>6. STypes'
  <2>1. caller' \in [Callers -> [at : {"idle", "offer", "wait"}, n : Nat,
                             req : Writes \cup {Nothing}, reply : {"none", "ok", "err"}]]
    BY <1>2 DEF STypes
  <2>2. \A d \in Callers : /\ caller'[d].at # "idle" => caller'[d].req \in Writes
                           /\ caller'[d].at = "offer" => caller'[d].reply = "none"
    BY <1>2, <1>3 DEF STypes
  <2> QED BY <1>1, <1>4, <1>5, <2>1, <2>2 DEF STypes
<1>7. CallInv'
  <2>1. \A d \in Callers : caller[d].n \in Nat /\ caller'[d].n >= caller[d].n
                           /\ (caller'[d].at = "wait" => caller'[d] = caller[d])
    BY <1>2, <1>3 DEF STypes
  <2> QED BY <1>1, <1>2, <1>5, <2>1, SMTT(30) DEF CallInv, STypes
<1>8. AnswerInv'
  <2>1. \A d \in Callers : caller'[d].at = "wait" => caller'[d] = caller[d]
    BY <1>2, <1>3
  <2> QED BY <1>1, <1>4, <2>1 DEF AnswerInv, Made
<1> QED BY <1>6, <1>7, <1>8

LEMMA HandOverStep ==
  ASSUME SInv, NEW c \in Callers, HandOver(c)
  PROVE  SInv'
<1> USE DEF SInv
<1>1. /\ caller[c].at = "offer" /\ caller[c].reply = "none" /\ caller[c].req \in Writes
      /\ caller[c].n \in Nat
  BY DEF HandOver, STypes
<1>2. /\ caller' = [caller EXCEPT ![c].at = "wait"]
      /\ writerAt' = [at |-> "row", by |-> c, n |-> caller[c].n, req |-> caller[c].req]
      /\ UNCHANGED <<stored, indexed, inventory, acked, cut>> /\ writerAt.at = "select"
  BY DEF HandOver
<1>3. /\ \A d \in Callers : d # c => caller'[d] = caller[d]
      /\ caller'[c].at = "wait" /\ caller'[c].reply = "none" /\ caller'[c].req = caller[c].req
      /\ caller'[c].n = caller[c].n
  BY <1>1, <1>2 DEF STypes
<1>4. /\ writerAt'.at = "row" /\ writerAt'.by = c /\ writerAt'.n = caller[c].n
      /\ writerAt'.req = caller[c].req
  BY <1>2
<1>5. STypes'
  <2>1. caller' \in [Callers -> [at : {"idle", "offer", "wait"}, n : Nat,
                             req : Writes \cup {Nothing}, reply : {"none", "ok", "err"}]]
    BY <1>2 DEF STypes
  <2>2. \A d \in Callers : /\ caller'[d].at # "idle" => caller'[d].req \in Writes
                           /\ caller'[d].at = "offer" => caller'[d].reply = "none"
    BY <1>1, <1>3 DEF STypes
  <2> QED BY <1>1, <1>2, <1>4, <2>1, <2>2 DEF STypes
<1>6. CallInv'
  <2>1. /\ writerAt'.n <= caller'[c].n /\ writerAt'.n \in Nat
        /\ caller'[c].req = writerAt'.req
    BY <1>1, <1>3, <1>4
  <2> QED BY <2>1, <1>4, Zenon DEF CallInv
<1>7. AnswerInv'
  <2>1. \A d \in Callers : caller'[d].at = "wait" /\ caller'[d].reply = "ok" => caller'[d] = caller[d]
    BY <1>3
  <2>2. \A r : Made(r) => Made(r)'
    BY <1>2 DEF Made
  <2>3. \A e \in stored \ indexed : e \in cut
    BY <1>2 DEF AnswerInv
  <2>4. /\ \A d \in Callers : caller'[d].at = "wait" /\ caller'[d].reply = "ok" => Made(caller'[d].req)
        /\ \A r \in acked : Made(r)
    BY <2>1 DEF AnswerInv
  <2> QED BY <1>2, <1>4, <2>2, <2>3, <2>4 DEF AnswerInv
<1> QED BY <1>5, <1>6, <1>7

\* The writer answers and selects again; nothing is under way.
LEMMA AnswerStep ==
  ASSUME SInv, Busy, NEW result \in {"ok", "err"}, Answer(result),
         stored \subseteq stored', indexed \subseteq indexed', cut \subseteq cut',
         inventory' = inventory \/ inventory' # Nothing, acked' = acked,
         indexed' \subseteq stored', \A e \in stored' \ indexed' : e \in cut',
         result = "ok" => \A r : r = writerAt.req => Made(r)'
  PROVE  SInv'
<1> USE DEF SInv
<1>1. writerAt' = Selecting /\ writerAt'.at = "select" /\ ~Busy'
  BY DEF Answer, Selecting, Busy
<1>2. PICK c \in Callers : c = writerAt.by
  BY DEF STypes
<1>3. \A r : Made(r) => Made(r)'
  BY MadeGrows
<1>4. \/ caller' = caller
      \/ /\ caller[c].at = "wait" /\ caller[c].n = writerAt.n
         /\ caller' = [caller EXCEPT ![c].reply = result]
  BY <1>2 DEF Answer
<1>5. \A d \in Callers :
        \/ caller'[d] = caller[d]
        \/ /\ caller'[d].at = "wait" /\ caller'[d].n = caller[d].n /\ caller'[d].reply = result
           /\ caller'[d].req = writerAt.req
  BY <1>2, <1>4 DEF CallInv, STypes
<1>6. STypes'
  <2>1. caller' \in [Callers -> [at : {"idle", "offer", "wait"}, n : Nat,
                             req : Writes \cup {Nothing}, reply : {"none", "ok", "err"}]]
    BY <1>4 DEF STypes
  <2>2. \A d \in Callers : /\ caller'[d].at # "idle" => caller'[d].req \in Writes
                           /\ caller'[d].at = "offer" => caller'[d].reply = "none"
    BY <1>5 DEF STypes
  <2> QED BY <1>1, <2>1, <2>2 DEF STypes
<1>7. CallInv'
  BY <1>1 DEF CallInv
<1>8. AnswerInv'
  <2>1. \A d \in Callers : caller'[d].at = "wait" /\ caller'[d].reply = "ok" =>
          \E r : r = caller'[d].req /\ Made(r)'
    BY <1>3, <1>5 DEF AnswerInv
  <2>2. \A r \in acked : Made(r)'
    BY <1>3 DEF AnswerInv
  <2> QED BY <1>1, <2>1, <2>2 DEF AnswerInv
<1> QED BY <1>6, <1>7, <1>8

LEMMA WriteRowStep == ASSUME Distinct, SInv, WriteRow PROVE SInv'
<1> USE DEF SInv
<1>1. PICK e \in Events : e = writerAt.req
  BY DEF WriteRow
<1>2. /\ writerAt.at = "row" /\ Busy /\ stored' = stored \cup {e}
      /\ UNCHANGED <<indexed, inventory, acked, cut>>
  BY <1>1 DEF WriteRow, Busy
<1>3. \A x \in stored \ indexed : x \in cut
  BY <1>2 DEF AnswerInv
<1>4. CASE e \in stored
  <2>1. Answer("ok") /\ stored' = stored
    BY <1>1, <1>2, <1>4 DEF WriteRow
  <2>2. \A r : r = writerAt.req => Made(r)'
    BY <1>1, <1>2, <1>3, <1>4, <2>1 DEF Made, Distinct
  <2> QED BY <1>2, <1>3, <2>1, <2>2, AnswerStep DEF STypes
<1>5. CASE e \notin stored
  <2>1. writerAt' = [writerAt EXCEPT !.at = "fts"] /\ caller' = caller
    BY <1>1, <1>2, <1>5 DEF WriteRow
  <2>2. PICK by, n : /\ writerAt.by = by /\ writerAt'.by = by
                     /\ writerAt.n = n /\ writerAt'.n = n
                     /\ writerAt'.at = "fts" /\ writerAt'.req = e
    BY <1>1, <2>1
  <2>3. STypes'
    BY <1>1, <1>2, <2>1, <2>2 DEF STypes, Busy, Writes
  <2>4. CallInv'
    BY <1>1, <1>2, <2>1, <2>2 DEF CallInv, Busy
  <2>5. AnswerInv'
    <3>1. \A r : Made(r) => Made(r)'
      BY <1>2 DEF Made
    <3>2. \A c \in Callers : caller[c].at = "wait" /\ caller[c].reply = "ok" => Made(caller[c].req)
      BY DEF AnswerInv
    <3>3. \A r \in acked : Made(r)
      BY DEF AnswerInv
    <3> QED BY <1>1, <1>2, <1>3, <2>1, <2>2, <3>1, <3>2, <3>3 DEF AnswerInv
  <2> QED BY <2>3, <2>4, <2>5
<1> QED BY <1>4, <1>5

LEMMA WriterStep ==
  ASSUME Distinct, SInv, UpsertInventory \/ WriteIndex \/ StatementFails
  PROVE  SInv'
<1> USE DEF SInv
<1>1. Busy /\ acked' = acked /\ stored' = stored /\ indexed \subseteq stored
  BY DEF UpsertInventory, WriteIndex, StatementFails, Busy, STypes
<1>2. CASE UpsertInventory
  <2>1. /\ Answer("ok") /\ UNCHANGED <<indexed, cut>> /\ inventory' = writerAt.req
        /\ writerAt.req \in Inventories /\ writerAt.at = "row"
    BY <1>2 DEF UpsertInventory
  <2>2. inventory' # Nothing /\ \A r : r = writerAt.req => Made(r)'
    BY <2>1 DEF Made, Distinct
  <2>3. \A e \in stored' \ indexed' : e \in cut'
    BY <1>1, <2>1 DEF AnswerInv
  <2> QED BY <1>1, <2>1, <2>2, <2>3, AnswerStep
<1>3. CASE WriteIndex
  <2>1. /\ Answer("ok") /\ UNCHANGED <<inventory, cut>> /\ indexed' = indexed \cup {writerAt.req}
        /\ writerAt.at = "fts" /\ writerAt.req \in stored /\ writerAt.req \in Events
    BY <1>3 DEF WriteIndex, AnswerInv
  <2>2. \A r : r = writerAt.req => Made(r)'
    BY <1>1, <2>1 DEF Made, Distinct
  <2>3. \A e \in stored' \ indexed' : e \in cut'
    BY <1>1, <2>1 DEF AnswerInv
  <2> QED BY <1>1, <2>1, <2>2, <2>3, AnswerStep
<1>4. CASE StatementFails
  <2>1. /\ Answer("err") /\ UNCHANGED <<inventory, indexed>>
        /\ cut' = IF writerAt.at = "fts" THEN cut \cup {writerAt.req} ELSE cut
    BY <1>4 DEF StatementFails
  <2>2. \A e \in stored' \ indexed' : e \in cut'
    BY <1>1, <2>1 DEF AnswerInv
  <2> QED BY <1>1, <2>1, <2>2, AnswerStep
<1> QED BY <1>2, <1>3, <1>4

\* The writer stops, the hub restarts, a query opens a database or Close is
\* called: no table changes.
LEMMA StoreQuietStep ==
  ASSUME SInv,
         WriterStops \/ StoreRestart \/ CloseStore \/ ListEvents(Months) \/ GetInventory
           \/ UNCHANGED storeVars
  PROVE  SInv'
<1> USE DEF SInv
<1>1. UNCHANGED <<stored, indexed, inventory, acked>>
  BY DEF WriterStops, StoreRestart, CloseStore, ListEvents, GetInventory, storeVars
<1>2. CASE UNCHANGED <<writerAt, caller, cut>>
  BY <1>1, <1>2 DEF STypes, CallInv, AnswerInv, Made, Busy
<1>3. CASE WriterStops
  <2>1. writerAt'.at = "stopped" /\ writerAt.at = "select" /\ UNCHANGED <<caller, cut>>
    BY <1>3 DEF WriterStops, Selecting
  <2>2. AnswerInv'
    BY <1>1, <2>1 DEF AnswerInv, Made
  <2> QED BY <1>1, <2>1, <2>2 DEF STypes, CallInv, Busy
<1>4. CASE StoreRestart
  <2>1. /\ writerAt' = Selecting /\ writerAt'.at = "select"
        /\ caller' = [c \in Callers |-> [Resting EXCEPT !.n = caller[c].n]]
        /\ cut' = IF writerAt.at = "fts" THEN cut \cup {writerAt.req} ELSE cut
    BY <1>4 DEF StoreRestart, Selecting
  <2>2. \A c \in Callers :
          /\ caller'[c] \in [at : {"idle"}, n : Nat, req : {Nothing}, reply : {"none"}]
    BY <2>1 DEF STypes, Resting
  <2>3. STypes'
    <3>1. caller' \in [Callers -> [at : {"idle", "offer", "wait"}, n : Nat,
                             req : Writes \cup {Nothing}, reply : {"none", "ok", "err"}]]
      BY <2>1, <2>2
    <3> QED BY <1>1, <2>1, <2>2, <3>1 DEF STypes, Busy
  <2>4. AnswerInv'
    <3>1. \A r \in acked : Made(r)'
      BY <1>1, <2>1 DEF AnswerInv, Made
    <3>2. \A e \in stored \ indexed : e \in cut'
      BY <2>1 DEF AnswerInv
    <3> QED BY <1>1, <2>1, <2>2, <3>1, <3>2 DEF AnswerInv
  <2> QED BY <2>1, <2>3, <2>4 DEF CallInv, Busy
<1> QED BY <1>2, <1>3, <1>4 DEF CloseStore, ListEvents, GetInventory, storeVars

\* A row a caller of InsertEvent or UpsertInventory was told of is there and
\* stays, whoever gives up, closes the store or restarts the hub: the writer
\* answers a write after it and never the wrong call.
THEOREM AckedKept == Distinct /\ StoreSpec => []AckedIsStored
<1> SUFFICES ASSUME Distinct PROVE StoreSpec => []AckedIsStored
  OBVIOUS
<1>1. StoreInit => SInv
  <2> SUFFICES ASSUME StoreInit PROVE SInv
    OBVIOUS
  <2>1. Resting \in [at : {"idle"}, n : Nat, req : {Nothing}, reply : {"none"}]
        /\ Selecting.at = "select"
    BY DEF Resting, Selecting
  <2> QED BY <2>1 DEF StoreInit, SInv, STypes, CallInv, AnswerInv, Busy
<1>2. SInv /\ [StoreNext]_storeVars => SInv'
  BY CallerStep, HandOverStep, WriteRowStep, WriterStep, StoreQuietStep, Zenon
     DEF StoreNext, StoreWriter
<1>3. SInv => AckedIsStored
  BY AckedFromInvariant
<1> QED BY <1>1, <1>2, <1>3, PTL DEF StoreSpec

-----------------------------------------------------------------------------
(* Pairing, claiming and enrolling. *)

\* A row inserted at the end of a table.
LEMMA RowAppended ==
  ASSUME NEW R, NEW s \in Seq(R), NEW x \in R
  PROVE  /\ Append(s, x) \in Seq(R)
         /\ DOMAIN Append(s, x) = DOMAIN s \cup {Len(s) + 1}
         /\ Append(s, x)[Len(s) + 1] = x
         /\ \A i \in DOMAIN s : Append(s, x)[i] = s[i]
         /\ Len(s) + 1 \notin DOMAIN s
OBVIOUS

PairingRecords == [token : Nat, expiresAt : Nat, claimed : BOOLEAN]
ClaimRecords == [token : Nat, at : Nat, expiresAt : Nat, boot : Nat]

AccessTypes ==
  /\ wall \in Nat /\ boot \in Nat /\ minted \in Nat
  /\ req \in [Requests -> [at : {"idle", "start", "file"}, token : Nat]]
  /\ hashes \subseteq Nat
  /\ \A c \in DOMAIN pairings : pairings[c] \in PairingRecords
  /\ claims \subseteq ClaimRecords

\* The token of a request in flight was minted for it and has gone nowhere
\* else yet; before its code is filed, its hash is stored.
FreshInv ==
  /\ \A r \in Requests : req[r].at # "idle" =>
       /\ req[r].token <= minted
       /\ \A c \in DOMAIN pairings : pairings[c].token # req[r].token
       /\ \A a \in claims : a.token # req[r].token
  /\ \A r \in Requests : req[r].at = "file" => req[r].token \in hashes
  /\ \A r, q \in Requests :
       r # q /\ req[r].at # "idle" /\ req[q].at # "idle" => req[r].token # req[q].token

\* A token is filed under one code, its hash is stored, and it is in an
\* answer only when its record says so.
PairingsInv ==
  /\ \A c \in DOMAIN pairings :
       /\ pairings[c].token <= minted /\ pairings[c].token \in hashes
       /\ ~pairings[c].claimed => \A a \in claims : a.token # pairings[c].token
  /\ \A c, d \in DOMAIN pairings : c # d => pairings[c].token # pairings[d].token

ClaimsInv ==
  /\ \A a \in claims :
       /\ a.token <= minted /\ a.at <= a.expiresAt /\ a.boot <= boot
       /\ a.boot = boot => a.token \in hashes
  /\ \A a, b \in claims : a.token = b.token => a = b

\* A token has one row, and every enrolment has its row.
RowsInv ==
  /\ ingest \in Seq([host : Hosts, token : Nat])
  /\ \A i \in DOMAIN ingest : ingest[i].token <= minted
  /\ \A i, j \in DOMAIN ingest : ingest[i].token = ingest[j].token => i = j
  /\ \A e \in enrolled : \E i \in DOMAIN ingest : ingest[i] = e

AccessInv == AccessTypes /\ FreshInv /\ PairingsInv /\ ClaimsInv /\ RowsInv

\* Tokens are numbers wherever they are.
LEMMA TokensAreNumbers ==
  ASSUME AccessInv
  PROVE  /\ \A q \in Requests : req[q].token \in Nat
         /\ \A c \in DOMAIN pairings : pairings[c].token \in Nat
         /\ \A a \in claims : a.token \in Nat
         /\ \A i \in DOMAIN ingest : ingest[i].token \in Nat
<1>1. \A q \in Requests : req[q].token \in Nat
  BY DEF AccessInv, AccessTypes
<1>2. \A c \in DOMAIN pairings : pairings[c].token \in Nat
  BY DEF AccessInv, AccessTypes, PairingRecords
<1>3. \A a \in claims : a.token \in Nat
  BY DEF AccessInv, AccessTypes, ClaimRecords
<1>4. \A i \in DOMAIN ingest : ingest[i].token \in Nat
  <2>1. ingest \in Seq([host : Hosts, token : Nat])
    BY DEF AccessInv, RowsInv
  <2>2. ASSUME NEW R, ingest \in Seq(R)
        PROVE  \A i \in DOMAIN ingest : ingest[i] \in R
    BY <2>2
  <2>3. \A i \in DOMAIN ingest : ingest[i] \in [host : Hosts, token : Nat]
    BY <2>1, <2>2, Zenon
  <2> QED
    BY <2>3
<1> QED
  BY <1>1, <1>2, <1>3, <1>4

\* A device asks for a code: a token nobody has seen.
LEMMA DevicePairStep ==
  ASSUME AccessInv, NEW r \in Requests, NEW token, DevicePair(r, token)
  PROVE  AccessInv'
<1> DEFINE q1 == [at |-> "start", token |-> minted + 1]
<1>1. /\ req' = [req EXCEPT ![r] = q1] /\ minted' = minted + 1
      /\ UNCHANGED <<wall, boot, hashes, pairings, ingest, enrolled, claims>>
  BY DEF DevicePair
<1>2. AccessTypes
  BY DEF AccessInv
<1>3. /\ req'[r].at = "start" /\ req'[r].token = minted + 1
      /\ \A q \in Requests \ {r} : req'[q] = req[q]
  BY <1>1, <1>2 DEF AccessTypes
<1>4. AccessTypes'
  <2>1. q1 \in [at : {"idle", "start", "file"}, token : Nat]
    BY <1>2 DEF AccessTypes
  <2> HIDE DEF q1
  <2> QED
    BY <1>1, <1>2, <2>1 DEF AccessTypes
<1>5. /\ \A q \in Requests : req[q].token \in Nat
      /\ \A c \in DOMAIN pairings : pairings[c].token \in Nat
      /\ \A a \in claims : a.token \in Nat
      /\ \A i \in DOMAIN ingest : ingest[i].token \in Nat
  BY TokensAreNumbers
<1>6. FreshInv'
  <2>1. /\ \A q \in Requests : req[q].at # "idle" => req[q].token # minted + 1
        /\ \A c \in DOMAIN pairings : pairings[c].token # minted + 1
        /\ \A a \in claims : a.token # minted + 1
    <3>1. minted \in Nat
      BY <1>2 DEF AccessTypes
    <3>2. \A n \in Nat : n <= minted => n # minted + 1
      BY <3>1
    <3>3. \A q \in Requests : req[q].at # "idle" => req[q].token # minted + 1
      BY <1>5, <3>2, Zenon DEF AccessInv, FreshInv
    <3>4. \A c \in DOMAIN pairings : pairings[c].token # minted + 1
      BY <1>5, <3>2, Zenon DEF AccessInv, PairingsInv
    <3>5. \A a \in claims : a.token # minted + 1
      BY <1>5, <3>2, Zenon DEF AccessInv, ClaimsInv
    <3> QED
      BY <3>3, <3>4, <3>5, Zenon
  <2>2. \A q \in Requests : req'[q].at # "idle" => req'[q].token <= minted'
    <3>1. minted \in Nat /\ minted' = minted + 1
      BY <1>1, <1>2 DEF AccessTypes
    <3>2. \A n \in Nat : n <= minted => n <= minted'
      BY <3>1
    <3>3. minted + 1 <= minted'
      BY <3>1
    <3> QED
      BY <1>3, <1>5, <3>2, <3>3, Zenon DEF AccessInv, FreshInv
  <2>3. \A q \in Requests : req'[q].at # "idle" =>
          /\ \A c \in DOMAIN pairings' : pairings'[c].token # req'[q].token
          /\ \A a \in claims' : a.token # req'[q].token
    <3> SUFFICES ASSUME NEW q \in Requests, req'[q].at # "idle"
                 PROVE  /\ \A c \in DOMAIN pairings : pairings[c].token # req'[q].token
                        /\ \A a \in claims : a.token # req'[q].token
      BY <1>1
    <3>1. CASE q = r
      BY <1>3, <2>1, <3>1, Zenon
    <3>2. CASE q # r
      BY <1>3, <3>2, Zenon DEF AccessInv, FreshInv
    <3> QED
      BY <3>1, <3>2
  <2>4. \A q \in Requests : req'[q].at = "file" => req'[q].token \in hashes'
    <3>1. ASSUME NEW q \in Requests, req'[q].at = "file" PROVE req'[q] = req[q]
      BY <3>1, <1>3
    <3>2. \A q \in Requests : req[q].at = "file" => req[q].token \in hashes
      BY Zenon DEF AccessInv, FreshInv
    <3>3. hashes' = hashes
      BY <1>1
    <3> QED BY <3>1, <3>2, <3>3, Zenon
  <2>5. \A q, s \in Requests :
          q # s /\ req'[q].at # "idle" /\ req'[s].at # "idle" => req'[q].token # req'[s].token
    BY <1>3, <2>1 DEF AccessInv, FreshInv
  <2> QED
    BY <2>2, <2>3, <2>4, <2>5, Zenon DEF FreshInv
<1>7. PairingsInv' /\ ClaimsInv' /\ RowsInv'
  <2>1. \A n \in Nat : n <= minted => n <= minted'
    BY <1>1, <1>2 DEF AccessTypes
  <2>2. PairingsInv'
    BY <1>1, <1>5, <2>1, Zenon DEF AccessInv, PairingsInv
  <2>3. ClaimsInv'
    BY <1>1, <1>5, <2>1, Zenon DEF AccessInv, ClaimsInv
  <2>4. RowsInv'
    BY <1>1, <1>5, <2>1, Zenon DEF AccessInv, RowsInv
  <2> QED
    BY <2>2, <2>3, <2>4
<1> QED
  BY <1>4, <1>6, <1>7 DEF AccessInv

\* Start, first half.
LEMMA StartAddTokenStep ==
  ASSUME AccessInv, NEW r \in Requests, StartAddToken(r)
  PROVE  AccessInv'
<1> DEFINE q1 == [req[r] EXCEPT !.at = "file"]
<1>1. /\ req[r].at = "start" /\ hashes' = hashes \cup {req[r].token}
      /\ req' = [req EXCEPT ![r] = q1]
      /\ UNCHANGED <<wall, boot, pairings, ingest, enrolled, minted, claims>>
  BY DEF StartAddToken
<1>2. AccessTypes /\ req[r] \in [at : {"idle", "start", "file"}, token : Nat]
  BY DEF AccessInv, AccessTypes
<1>3. q1 \in [at : {"idle", "start", "file"}, token : Nat]
      /\ q1.at = "file" /\ q1.token = req[r].token
  BY <1>2
<1> HIDE DEF q1
<1>4. req'[r] = q1 /\ \A q \in Requests \ {r} : req'[q] = req[q]
  BY <1>1, <1>2 DEF AccessTypes
<1>5. AccessTypes'
  BY <1>1, <1>2, <1>3, Zenon DEF AccessTypes
<1>6. FreshInv'
  <2>0. \A q \in Requests : req'[q].at # "idle" =>
          req[q].at # "idle" /\ req'[q].token = req[q].token
    <3>1. req[r].at # "idle"
      BY <1>1
    <3> QED BY <3>1, <1>3, <1>4, Zenon
  <2>1. ASSUME NEW q \in Requests, req'[q].at # "idle"
        PROVE  /\ req'[q].token <= minted'
               /\ \A c \in DOMAIN pairings' : pairings'[c].token # req'[q].token
               /\ \A a \in claims' : a.token # req'[q].token
    <3>1. req[q].at # "idle" /\ req'[q].token = req[q].token
      BY <2>0, <2>1, Zenon
    <3>2. minted' = minted /\ pairings' = pairings /\ claims' = claims
      BY <1>1
    <3>3. /\ req[q].token <= minted
          /\ \A c \in DOMAIN pairings : pairings[c].token # req[q].token
          /\ \A a \in claims : a.token # req[q].token
      BY <3>1, Zenon DEF AccessInv, FreshInv
    <3> QED BY <3>1, <3>2, <3>3, Zenon
  <2>2. \A q \in Requests : req'[q].at = "file" => req'[q].token \in hashes'
    <3>1. req[r].token \in hashes' /\ hashes \subseteq hashes'
      BY <1>1
    <3>2. \A q \in Requests : req[q].at = "file" => req[q].token \in hashes
      BY DEF AccessInv, FreshInv
    <3> QED BY <3>1, <3>2, <1>3, <1>4, Zenon
  <2>3. \A q, s \in Requests :
          q # s /\ req'[q].at # "idle" /\ req'[s].at # "idle" => req'[q].token # req'[s].token
    BY <2>0, Zenon DEF AccessInv, FreshInv
  <2> QED
    BY <2>1, <2>2, <2>3, Zenon DEF FreshInv
<1>7. PairingsInv' /\ ClaimsInv' /\ RowsInv'
  <2>1. PairingsInv'
    BY <1>1, Zenon DEF AccessInv, PairingsInv
  <2>2. ClaimsInv'
    BY <1>1, Zenon DEF AccessInv, ClaimsInv
  <2>3. RowsInv'
    BY <1>1, Zenon DEF AccessInv, RowsInv
  <2> QED
    BY <2>1, <2>2, <2>3
<1> QED
  BY <1>5, <1>6, <1>7 DEF AccessInv

\* What gcLocked keeps, it keeps as it was.
LEMMA GcKeeps ==
  /\ DOMAIN Gc(pairings) \subseteq DOMAIN pairings
  /\ \A c \in DOMAIN Gc(pairings) :
       Gc(pairings)[c] = pairings[c] /\ ~pairings[c].claimed /\ pairings[c].expiresAt >= wall
BY DEF Gc, Restrict, Claimable

\* Start, second half: the new record replaces whatever had its code.
LEMMA StartFileStep ==
  ASSUME AccessInv, NEW r \in Requests, NEW code, StartFile(r, code)
  PROVE  AccessInv'
<1> DEFINE p == [token |-> req[r].token, expiresAt |-> wall + PairingTTL, claimed |-> FALSE]
           kept == Gc(pairings)
<1>1. /\ req[r].at = "file"
      /\ pairings' = [c \in DOMAIN kept \cup {code} |-> IF c = code THEN p ELSE kept[c]]
      /\ req' = [req EXCEPT ![r] = NoRequest]
      /\ UNCHANGED <<wall, boot, hashes, ingest, enrolled, minted, claims>>
  BY DEF StartFile
<1>2. AccessTypes /\ req[r].token \in Nat
  <2>1. AccessTypes
    BY Zenon DEF AccessInv
  <2> QED BY <2>1 DEF AccessTypes
<1>3. p \in PairingRecords /\ p.token = req[r].token
  <2>1. wall + PairingTTL \in Nat
    BY <1>2, AccessAssumption DEF AccessTypes
  <2> QED BY <2>1, <1>2, Zenon DEF PairingRecords
<1> HIDE DEF p
<1>4. /\ pairings'[code] = p
      /\ \A c \in DOMAIN pairings' \ {code} :
           c \in DOMAIN pairings /\ pairings'[c] = pairings[c]
  BY <1>1, GcKeeps
<1>5. req'[r].at = "idle" /\ \A q \in Requests \ {r} : req'[q] = req[q]
  BY <1>1, <1>2 DEF AccessTypes, NoRequest
<1>6. AccessTypes'
  <2>1. NoRequest \in [at : {"idle", "start", "file"}, token : Nat]
    BY DEF NoRequest
  <2>2. req' \in [Requests -> [at : {"idle", "start", "file"}, token : Nat]]
    BY <1>1, <1>2, <2>1 DEF AccessTypes
  <2>3. \A c \in DOMAIN pairings' : pairings'[c] \in PairingRecords
    BY <1>2, <1>3, <1>4, Zenon DEF AccessTypes
  <2> QED
    BY <1>1, <1>2, <2>2, <2>3, Zenon DEF AccessTypes
<1>7. FreshInv'
  <2>1. \A q \in Requests : req'[q].at # "idle" =>
          /\ req'[q].token <= minted'
          /\ \A c \in DOMAIN pairings' : pairings'[c].token # req'[q].token
          /\ \A a \in claims' : a.token # req'[q].token
    <3> SUFFICES ASSUME NEW q \in Requests, req'[q].at # "idle"
                 PROVE  /\ req'[q].token <= minted'
                        /\ \A c \in DOMAIN pairings' : pairings'[c].token # req'[q].token
                        /\ \A a \in claims' : a.token # req'[q].token
      BY Zenon
    <3>1. q # r /\ req'[q] = req[q] /\ req[q].at # "idle"
      BY <1>5
    <3>4. minted' = minted /\ claims' = claims
      BY <1>1
    <3>2. req[q].token # req[r].token /\ \A c \in DOMAIN pairings : pairings[c].token # req[q].token
      BY <1>1, <3>1 DEF AccessInv, FreshInv
    <3>3. \A c \in DOMAIN pairings' : pairings'[c].token # req[q].token
      BY <1>3, <1>4, <3>2, Zenon
    <3>5. req[q].token <= minted /\ \A a \in claims : a.token # req[q].token
      BY <3>1 DEF AccessInv, FreshInv
    <3> QED
      BY <3>1, <3>3, <3>4, <3>5
  <2>2. \A q \in Requests : req'[q].at = "file" => req'[q].token \in hashes'
    <3>1. \A q \in Requests : req[q].at = "file" => req[q].token \in hashes
      BY DEF AccessInv, FreshInv
    <3> QED
      BY <1>1, <1>5, <3>1
  <2>3. \A q, s \in Requests :
          q # s /\ req'[q].at # "idle" /\ req'[s].at # "idle" => req'[q].token # req'[s].token
    BY <1>5 DEF AccessInv, FreshInv
  <2> QED
    BY <2>1, <2>2, <2>3, Zenon DEF FreshInv
<1>8. PairingsInv'
  <2>1. /\ req[r].token <= minted /\ req[r].token \in hashes
        /\ \A a \in claims : a.token # req[r].token
        /\ \A c \in DOMAIN pairings : pairings[c].token # req[r].token
    BY <1>1 DEF AccessInv, FreshInv
  <2>2. \A c \in DOMAIN pairings' :
          /\ pairings'[c].token <= minted' /\ pairings'[c].token \in hashes'
          /\ ~pairings'[c].claimed => \A a \in claims' : a.token # pairings'[c].token
    <3>1. UNCHANGED <<hashes, minted, claims>>
      BY <1>1
    <3>2. \A c \in DOMAIN pairings :
            /\ pairings[c].token <= minted /\ pairings[c].token \in hashes
            /\ ~pairings[c].claimed => \A a \in claims : a.token # pairings[c].token
      BY DEF AccessInv, PairingsInv
    <3> QED
      BY <1>3, <1>4, <2>1, <3>1, <3>2
  <2>3. \A c, d \in DOMAIN pairings' : c # d => pairings'[c].token # pairings'[d].token
    BY <1>3, <1>4, <2>1 DEF AccessInv, PairingsInv
  <2> QED
    BY <2>2, <2>3, Zenon DEF PairingsInv
<1>9. ClaimsInv' /\ RowsInv'
  <2>1. ClaimsInv'
    BY <1>1, Zenon DEF AccessInv, ClaimsInv
  <2>2. RowsInv'
    BY <1>1, Zenon DEF AccessInv, RowsInv
  <2> QED
    BY <2>1, <2>2
<1> QED
  BY <1>6, <1>7, <1>8, <1>9 DEF AccessInv

\* A claim: of a code that is still good, or only a collection.
LEMMA DeviceClaimStep ==
  ASSUME AccessInv, NEW code, DeviceClaim(code)
  PROVE  AccessInv'
<1> DEFINE kept == Gc(pairings)
           a1 == Claimed(code)
<1>1. UNCHANGED <<wall, boot, req, hashes, ingest, enrolled, minted>>
  BY DEF DeviceClaim
<1>2. AccessTypes
  BY DEF AccessInv
<1>3. RowsInv'
  BY <1>1, Zenon DEF AccessInv, RowsInv
<1>4. CASE code \in DOMAIN kept
  <2> DEFINE p1 == [kept[code] EXCEPT !.claimed = TRUE]
  <2>1. pairings' = [kept EXCEPT ![code] = p1] /\ claims' = claims \cup {a1}
    BY <1>4 DEF DeviceClaim
  <2>2. code \in DOMAIN pairings /\ kept[code] = pairings[code]
        /\ ~pairings[code].claimed /\ pairings[code].expiresAt >= wall
    BY <1>4, GcKeeps
  <2>3. p1 \in PairingRecords /\ p1.token = pairings[code].token /\ p1.claimed
    BY <1>2, <2>2, Zenon DEF AccessTypes, PairingRecords
  <2>4. /\ a1 \in ClaimRecords /\ a1.token = pairings[code].token
        /\ a1.at <= a1.expiresAt /\ a1.boot = boot
    BY <1>2, <2>2 DEF AccessTypes, PairingRecords, ClaimRecords, Claimed
  <2>5. pairings'[code] = p1
    BY <1>4, <2>1
  <2>6. \A c \in DOMAIN pairings' \ {code} :
          c \in DOMAIN pairings /\ pairings'[c] = pairings[c]
    BY <2>1, GcKeeps
  <2> HIDE DEF p1, a1
  <2>7. AccessTypes'
    <3>1. \A c \in DOMAIN pairings' : pairings'[c] \in PairingRecords
      BY <1>2, <2>3, <2>5, <2>6, Zenon DEF AccessTypes
    <3>2. claims' \subseteq ClaimRecords
      BY <1>2, <2>1, <2>4 DEF AccessTypes
    <3> QED
      BY <1>1, <1>2, <3>1, <3>2, Zenon DEF AccessTypes
  <2>8. FreshInv'
    <3>1. \A q \in Requests : req[q].at # "idle" =>
            /\ req[q].token <= minted
            /\ \A c \in DOMAIN pairings : pairings[c].token # req[q].token
            /\ \A a \in claims : a.token # req[q].token
      BY DEF AccessInv, FreshInv
    <3>2. ASSUME NEW q \in Requests, req[q].at # "idle"
          PROVE  /\ \A c \in DOMAIN pairings' : pairings'[c].token # req[q].token
                 /\ \A a \in claims' : a.token # req[q].token
      <4>1. \A c \in DOMAIN pairings' : pairings'[c].token # req[q].token
        BY <2>2, <2>3, <2>5, <2>6, <3>1, <3>2
      <4>2. \A a \in claims' : a.token # req[q].token
        BY <2>1, <2>2, <2>4, <3>1, <3>2
      <4> QED
        BY <4>1, <4>2
    <3> QED
      BY <1>1, <3>2, Zenon DEF AccessInv, FreshInv
  <2>9. PairingsInv'
    <3>1. \A c \in DOMAIN pairings' :
            /\ pairings'[c].token <= minted' /\ pairings'[c].token \in hashes'
            /\ ~pairings'[c].claimed => \A a \in claims' : a.token # pairings'[c].token
      <4>1. \A c \in DOMAIN pairings :
              /\ pairings[c].token <= minted /\ pairings[c].token \in hashes
              /\ ~pairings[c].claimed => \A a \in claims : a.token # pairings[c].token
              /\ c # code => pairings[c].token # pairings[code].token
        BY <2>2 DEF AccessInv, PairingsInv
      <4>2. UNCHANGED <<hashes, minted>>
        BY <1>1
      <4>3. pairings'[code].token = pairings[code].token /\ pairings'[code].claimed
        BY <2>3, <2>5
      <4>4. \A c \in DOMAIN pairings' \ {code} : \A a \in claims' :
              ~pairings[c].claimed => a.token # pairings[c].token
        BY <2>1, <2>4, <2>6, <4>1
      <4> QED
        BY <2>2, <2>6, <4>1, <4>2, <4>3, <4>4
    <3>2. \A c, d \in DOMAIN pairings' : c # d => pairings'[c].token # pairings'[d].token
      <4>1. \A c \in DOMAIN pairings' :
              c \in DOMAIN pairings /\ pairings'[c].token = pairings[c].token
        BY <2>2, <2>3, <2>5, <2>6
      <4> QED
        BY <4>1 DEF AccessInv, PairingsInv
    <3> QED
      BY <3>1, <3>2, Zenon DEF PairingsInv
  <2>10. ClaimsInv'
    <3>1. /\ pairings[code].token <= minted /\ pairings[code].token \in hashes
          /\ \A a \in claims : a.token # pairings[code].token
      BY <2>2 DEF AccessInv, PairingsInv
    <3>2. boot \in Nat
      BY <1>2 DEF AccessTypes
    <3>3. \A a \in claims' :
            /\ a.token <= minted' /\ a.at <= a.expiresAt /\ a.boot <= boot'
            /\ a.boot = boot' => a.token \in hashes'
      <4>1. \A a \in claims :
              /\ a.token <= minted /\ a.at <= a.expiresAt /\ a.boot <= boot
              /\ a.boot = boot => a.token \in hashes
        BY DEF AccessInv, ClaimsInv
      <4> QED BY <4>1, <1>1, <2>1, <2>4, <3>1, <3>2
    <3>4. \A a, b \in claims' : a.token = b.token => a = b
      BY <2>1, <2>4, <3>1 DEF AccessInv, ClaimsInv
    <3> QED
      BY <3>3, <3>4, Zenon DEF ClaimsInv
  <2> QED
    BY <1>3, <2>7, <2>8, <2>9, <2>10 DEF AccessInv
<1>5. CASE code \notin DOMAIN kept
  <2>1. pairings' = kept /\ claims' = claims
    BY <1>5 DEF DeviceClaim
  <2>2. \A c \in DOMAIN pairings' : c \in DOMAIN pairings /\ pairings'[c] = pairings[c]
    BY <2>1, GcKeeps
  <2> HIDE DEF kept
  <2>3. AccessTypes'
    BY <1>1, <1>2, <2>1, <2>2, Zenon DEF AccessTypes
  <2>4. FreshInv'
    <3>1. \A q \in Requests : req'[q].at # "idle" =>
            /\ req'[q].token <= minted'
            /\ \A c \in DOMAIN pairings' : pairings'[c].token # req'[q].token
            /\ \A a \in claims' : a.token # req'[q].token
      <4>1. \A q \in Requests : req[q].at # "idle" =>
              /\ req[q].token <= minted
              /\ \A c \in DOMAIN pairings : pairings[c].token # req[q].token
              /\ \A a \in claims : a.token # req[q].token
        BY DEF AccessInv, FreshInv
      <4> QED
        BY <1>1, <2>1, <2>2, <4>1, Zenon
    <3>2. \A q \in Requests : req'[q].at = "file" => req'[q].token \in hashes'
      BY <1>1 DEF AccessInv, FreshInv
    <3>3. \A q, p \in Requests :
            q # p /\ req'[q].at # "idle" /\ req'[p].at # "idle" => req'[q].token # req'[p].token
      BY <1>1 DEF AccessInv, FreshInv
    <3> QED
      BY <3>1, <3>2, <3>3, Zenon DEF FreshInv
  <2>5. PairingsInv'
    <3>1. \A c \in DOMAIN pairings' :
            /\ pairings'[c].token <= minted' /\ pairings'[c].token \in hashes'
            /\ ~pairings'[c].claimed => \A a \in claims' : a.token # pairings'[c].token
      <4>1. \A c \in DOMAIN pairings :
              /\ pairings[c].token <= minted /\ pairings[c].token \in hashes
              /\ ~pairings[c].claimed => \A a \in claims : a.token # pairings[c].token
        BY DEF AccessInv, PairingsInv
      <4> QED
        BY <1>1, <2>1, <2>2, <4>1, Zenon
    <3>2. \A c, d \in DOMAIN pairings' : c # d => pairings'[c].token # pairings'[d].token
      BY <2>2 DEF AccessInv, PairingsInv
    <3> QED
      BY <3>1, <3>2, Zenon DEF PairingsInv
  <2>6. ClaimsInv'
    BY <1>1, <2>1, Zenon DEF AccessInv, ClaimsInv
  <2> QED
    BY <1>3, <2>3, <2>4, <2>5, <2>6 DEF AccessInv
<1> QED
  BY <1>4, <1>5

\* An enrolment: a new row, with a token no row has.
LEMMA CreateHostStep ==
  ASSUME AccessInv, NEW r \in Requests, NEW token, NEW host \in Hosts,
         CreateHost(r, token, host)
  PROVE  AccessInv'
<1> DEFINE row == [host |-> host, token |-> minted + 1]
           Row == [host : Hosts, token : Nat]
<1>1. /\ minted' = minted + 1 /\ ingest' = Append(ingest, row)
      /\ enrolled' = enrolled \cup {row}
      /\ UNCHANGED <<wall, boot, req, hashes, pairings, claims>>
  BY DEF CreateHost, AddToken
<1>2. AccessTypes /\ minted \in Nat
  BY DEF AccessInv, AccessTypes
<1>3. \A n \in Nat : n <= minted => n <= minted'
  BY <1>1, <1>2
<1>4. AccessTypes'
  BY <1>1, <1>2 DEF AccessTypes
<1>5. FreshInv'
  <2>1. \A q \in Requests : req[q].token \in Nat
    BY TokensAreNumbers
  <2> QED
    BY <1>1, <1>3, <2>1, Zenon DEF AccessInv, FreshInv
<1>6. PairingsInv'
  BY <1>1, <1>3, TokensAreNumbers, Zenon DEF AccessInv, PairingsInv
<1>7. ClaimsInv'
  BY <1>1, <1>3, TokensAreNumbers, Zenon DEF AccessInv, ClaimsInv
<1>8. RowsInv'
  <2>1. row \in Row /\ row.token = minted + 1
    BY <1>2
  <2>2. ingest \in Seq(Row)
    BY DEF AccessInv, RowsInv
  <2> HIDE DEF row, Row
  <2>3. /\ ingest' \in Seq(Row)
        /\ DOMAIN ingest' = DOMAIN ingest \cup {Len(ingest) + 1}
        /\ ingest'[Len(ingest) + 1] = row
        /\ \A i \in DOMAIN ingest : ingest'[i] = ingest[i]
        /\ Len(ingest) + 1 \notin DOMAIN ingest
    <3>1. ingest' = Append(ingest, row)
      BY <1>1
    <3>2. /\ Append(ingest, row) \in Seq(Row)
          /\ DOMAIN Append(ingest, row) = DOMAIN ingest \cup {Len(ingest) + 1}
          /\ Append(ingest, row)[Len(ingest) + 1] = row
          /\ \A i \in DOMAIN ingest : Append(ingest, row)[i] = ingest[i]
          /\ Len(ingest) + 1 \notin DOMAIN ingest
      BY <2>1, <2>2, RowAppended, Zenon
    <3> QED
      BY <3>1, <3>2, Zenon
  <2>4. \A i \in DOMAIN ingest :
          ingest[i].token \in Nat /\ ingest[i].token <= minted /\ ingest[i].token # minted + 1
    <3>1. \A i \in DOMAIN ingest : ingest[i].token \in Nat /\ ingest[i].token <= minted
      BY TokensAreNumbers DEF AccessInv, RowsInv
    <3> QED
      BY <1>2, <3>1
  <2>5. \A i \in DOMAIN ingest' : ingest'[i].token <= minted'
    BY <1>1, <1>2, <2>1, <2>4
  <2>6. \A i, j \in DOMAIN ingest' : ingest'[i].token = ingest'[j].token => i = j
    BY <2>1, <2>3, <2>4, Zenon DEF AccessInv, RowsInv
  <2>7. \A e \in enrolled' : \E i \in DOMAIN ingest' : ingest'[i] = e
    <3>1. \A e \in enrolled : \E i \in DOMAIN ingest : ingest[i] = e
      BY DEF AccessInv, RowsInv
    <3>2. ASSUME NEW e \in enrolled PROVE \E i \in DOMAIN ingest' : ingest'[i] = e
      BY <2>3, <3>1
    <3> QED
      BY <1>1, <3>2
  <2> QED
    BY <2>3, <2>5, <2>6, <2>7 DEF RowsInv, Row
<1> QED
  BY <1>4, <1>5, <1>6, <1>7, <1>8 DEF AccessInv

\* The hub starts again: what was claimed was claimed under an earlier start.
LEMMA RestartAccessStep == AccessInv /\ RestartAccess => AccessInv'
<1> SUFFICES ASSUME AccessInv, RestartAccess PROVE AccessInv'
  OBVIOUS
<1>1. /\ boot' = boot + 1 /\ req' = [r \in Requests |-> NoRequest]
      /\ hashes' = {} /\ pairings' = <<>>
      /\ UNCHANGED <<wall, ingest, enrolled, minted, claims>>
  BY DEF RestartAccess
<1>2. AccessTypes
  BY DEF AccessInv
<1>3. DOMAIN pairings' = {}
  BY <1>1
<1>4. NoRequest \in [at : {"idle", "start", "file"}, token : Nat] /\ NoRequest.at = "idle"
  BY DEF NoRequest
<1>5. AccessTypes'
  BY <1>1, <1>2, <1>4 DEF AccessTypes
<1>6. FreshInv'
  BY <1>1, <1>4 DEF FreshInv
<1>7. PairingsInv'
  BY <1>3, Zenon DEF PairingsInv
<1>8. ClaimsInv'
  <2>1. boot \in Nat /\ \A a \in claims : a.boot \in Nat
    BY <1>2 DEF AccessTypes, ClaimRecords
  <2>2. \A a \in claims : a.boot <= boot' /\ a.boot # boot'
    BY <1>1, <2>1 DEF AccessInv, ClaimsInv
  <2> QED
    BY <1>1, <2>2, Zenon DEF AccessInv, ClaimsInv
<1>9. RowsInv'
  BY <1>1, Zenon DEF AccessInv, RowsInv
<1> QED
  BY <1>5, <1>6, <1>7, <1>8, <1>9 DEF AccessInv

LEMMA AccessStart == AccessInit => AccessInv
<1> SUFFICES ASSUME AccessInit PROVE AccessInv
  OBVIOUS
<1>1. NoRequest \in [at : {"idle", "start", "file"}, token : Nat] /\ NoRequest.at = "idle"
  BY DEF NoRequest
<1>2. DOMAIN pairings = {} /\ DOMAIN ingest = {}
  BY DEF AccessInit
<1>3. AccessTypes
  BY <1>1 DEF AccessInit, AccessTypes
<1>4. FreshInv
  BY <1>1 DEF AccessInit, FreshInv
<1>5. PairingsInv
  BY <1>2, Zenon DEF PairingsInv
<1>6. ClaimsInv
  BY DEF AccessInit, ClaimsInv
<1>7. RowsInv
  BY DEF AccessInit, RowsInv
<1> QED
  BY <1>3, <1>4, <1>5, <1>6, <1>7 DEF AccessInv

LEMMA AccessStep == AccessInv /\ [AccessNext]_accessVars => AccessInv'
<1> SUFFICES ASSUME AccessInv, [AccessNext]_accessVars PROVE AccessInv'
  OBVIOUS
<1>0. ASSUME wall' \in Nat,
             UNCHANGED <<boot, req, hashes, pairings, ingest, enrolled, minted, claims>>
      PROVE  AccessInv'
  <2>1. AccessTypes'
    BY <1>0 DEF AccessInv, AccessTypes
  <2>2. FreshInv' /\ PairingsInv'
    BY <1>0 DEF AccessInv, FreshInv, PairingsInv
  <2>3. ClaimsInv' /\ RowsInv'
    BY <1>0 DEF AccessInv, ClaimsInv, RowsInv
  <2> QED
    BY <2>1, <2>2, <2>3 DEF AccessInv
<1>1. ASSUME NEW r \in Requests, NEW t, DevicePair(r, t) PROVE AccessInv'
  BY <1>1, DevicePairStep
<1>2. ASSUME NEW r \in Requests, NEW t, NEW h \in Hosts, CreateHost(r, t, h) PROVE AccessInv'
  BY <1>2, CreateHostStep
<1>3. ASSUME NEW r \in Requests, StartAddToken(r) PROVE AccessInv'
  BY <1>3, StartAddTokenStep
<1>4. ASSUME NEW r \in Requests, NEW c, StartFile(r, c) PROVE AccessInv'
  BY <1>4, StartFileStep
<1>5. ASSUME NEW c, DeviceClaim(c) PROVE AccessInv'
  BY <1>5, DeviceClaimStep
<1>6. CASE Wait
  <2>1. wall' \in Nat
    BY <1>6 DEF Wait, AccessInv, AccessTypes
  <2> QED
    BY <1>0, <1>6, <2>1 DEF Wait
<1>7. CASE RestartAccess
  BY <1>7, RestartAccessStep
<1>8. CASE UNCHANGED accessVars
  <2>1. wall' \in Nat
    BY <1>8 DEF accessVars, AccessInv, AccessTypes
  <2> QED
    BY <1>0, <1>8, <2>1 DEF accessVars
<1> QED
  BY <1>1, <1>2, <1>3, <1>4, <1>5, <1>6, <1>7, <1>8, Zenon DEF AccessNext

\* However requests interleave and codes collide, and across restarts: a code
\* yields its token once and in time, a token that was handed out is accepted
\* while the hub that handed it out runs (DeviceTokenStore.Start and Claim), and
\* an ingest token names the host it was made for (handleCreateHost).
THEOREM PairingIsSound == AccessSpec => []ClaimedOnceAndUsable
<1>1. AccessInv => ClaimedOnceAndUsable
  <2> SUFFICES ASSUME AccessInv PROVE ClaimedOnceAndUsable
    OBVIOUS
  <2>1. \A a, b \in claims : a.token = b.token => a = b
    BY DEF AccessInv, ClaimsInv
  <2>2. \A a \in claims : a.at <= a.expiresAt /\ (a.boot = boot => Lookup(a.token))
    BY DEF AccessInv, ClaimsInv, Lookup
  <2>3. ASSUME NEW e \in enrolled PROVE IngestLookup(e.token) = e.host
    <3> DEFINE matching == {i \in DOMAIN ingest : ingest[i].token = e.token}
    <3>1. PICK k \in DOMAIN ingest : ingest[k] = e
      BY DEF AccessInv, RowsInv
    <3>2. matching = {k}
      BY <3>1, Zenon DEF AccessInv, RowsInv
    <3>3. k \in Nat
      BY DEF AccessInv, RowsInv
    <3>4. Min({k, k}) = k
      BY <3>3 DEF Min
    <3>5. {k} = {k, k} /\ {k} # {}
      OBVIOUS
    <3> QED
      BY <3>1, <3>2, <3>4, Zenon DEF IngestLookup
  <2> QED
    BY <2>1, <2>2, <2>3, Zenon DEF ClaimedOnceAndUsable
<1> QED
  BY <1>1, AccessStart, AccessStep, PTL DEF AccessSpec

-----------------------------------------------------------------------------
(* Greatest elements. *)

\* A bounded set of naturals that is not empty has a greatest element.
LEMMA Greatest ==
  ASSUME NEW S \in SUBSET Nat, S # {}, NEW b \in Nat, \A x \in S : x <= b
  PROVE  \E m \in S : \A x \in S : x <= m
<1> DEFINE Up(x) == {y \in S : y > x}
           ups == {Up(x) : x \in S}
<1>1. ups \subseteq FiniteSubsetsOf(S) /\ ups # {}
  <2>1. IsFiniteSet(S)
    BY FS_BoundedSetOfNaturals
  <2>2. ups \subseteq FiniteSubsetsOf(S)
    BY <2>1, FS_FiniteSubsetsOfFinite
  <2> QED
    BY <2>2, Zenon
<1>2. PICK u \in ups : \A v \in ups : ~(<<v, u>> \in StrictSubsetOrdering(S))
  BY <1>1, FS_StrictSubsetOrderingWellFounded, WFMin, Zenon
<1>3. PICK m \in S : u = Up(m)
  OBVIOUS
<1>4. ASSUME NEW x \in S, x > m PROVE FALSE
  <2>1. x \in Up(m) /\ x \notin Up(x)
    BY <1>4
  <2>2. ASSUME NEW y \in Up(x) PROVE y \in Up(m)
    <3>1. y \in Nat /\ x \in Nat /\ m \in Nat /\ y \in S /\ y > x
      OBVIOUS
    <3> QED
      BY <1>4
  <2>3. <<Up(x), Up(m)>> \in StrictSubsetOrdering(S)
    BY <2>1, <2>2, Zenon DEF StrictSubsetOrdering
  <2> QED
    BY <1>2, <1>3, <2>3, Zenon
<1> QED
  BY <1>4

\* Max and Min of two numbers, and of a set with a known greatest element.
LEMMA MinOfTwo ==
  ASSUME NEW x \in Nat, NEW y \in Nat
  PROVE  Min({x, y}) = IF x <= y THEN x ELSE y
BY DEF Min

LEMMA MaxIs ==
  ASSUME NEW S \in SUBSET Nat, NEW m \in S, \A x \in S : x <= m
  PROVE  Max(S) = m
<1>1. \A y \in S : m >= y
  OBVIOUS
<1>2. Max(S) \in S /\ \A y \in S : Max(S) >= y
  BY Zenon DEF Max
<1>3. Max(S) >= m /\ Max(S) <= m /\ Max(S) \in Nat /\ m \in Nat
  BY <1>2, Zenon
<1> HIDE DEF Max
<1> QED
  BY <1>3

-----------------------------------------------------------------------------
(* Alerts and notifications. *)

AlertRecords ==
  [state : {"inactive", "pending", "firing", "resolved"},
   pendingSince : Nat, firingSince : Nat, heldSince : Nat]

AlertTypes ==
  /\ time \in Nat \ {0}
  /\ alerts \in [Rules -> AlertRecords]
  /\ trueSince \in [Rules -> Nat]
  /\ lastSeen \in Nat /\ seenAt \subseteq Nat
  /\ tokens \in Nat /\ sent \in Nat

\* A pending alert has been true since before it was pending; a firing one was
\* true for long enough.
HeldInv ==
  \A r \in Rules :
    /\ alerts[r].state = "pending" => trueSince[r] <= alerts[r].pendingSince
    /\ alerts[r].state = "firing" =>
         alerts[r].firingSince - alerts[r].heldSince >= ForDuration

\* The deadman has the latest of the signals.
SeenInv ==
  /\ lastSeen \in seenAt \cup {0}
  /\ \A t \in seenAt : t <= lastSeen

\* Every notification was paid for with a token.
BudgetInv == Limited => tokens + sent <= Burst + Refill * (time - 1)

AlertInv == AlertTypes /\ HeldInv /\ SeenInv /\ BudgetInv

\* Dispatch serves no more routes than there are tokens.
LEMMA ServedWithinTokens ==
  ASSUME tokens \in Nat
  PROVE  /\ Cardinality(Matching) \in Nat
         /\ Cardinality(Affordable) \in Nat /\ Cardinality(Affordable) <= tokens
<1> DEFINE t == tokens
           Before(i) == {j \in Matching : j < i}
           served == {i \in Matching : Cardinality(Before(i)) < t}
<1>1. /\ Len(Routes) \in Nat
      /\ Matching \subseteq 1 .. Len(Routes)
  BY AlertAssumption, Zenon DEF Matching
<1>2. IsFiniteSet(Matching)
  <2>1. IsFiniteSet(1 .. Len(Routes))
    BY FS_Interval
  <2> QED
    BY <1>1, <2>1, FS_Subset, Zenon
<1>3. IsFiniteSet(served) /\ Cardinality(served) \in Nat
  <2>1. IsFiniteSet(served)
    BY <1>2, FS_Subset, Zenon
  <2> QED
    BY <2>1, FS_CardinalityType
<1>4. ASSUME served = {} PROVE Cardinality(served) <= t
  <2>1. Cardinality(served) = 0
    BY <1>4, FS_EmptySet, Zenon
  <2> HIDE DEF served
  <2> QED
    BY <2>1
<1>5. ASSUME served # {} PROVE Cardinality(served) <= t
  <2>1. PICK m \in served : \A i \in served : i <= m
    <3>1. served \subseteq Matching
      BY Zenon
    <3> HIDE DEF served
    <3>2. served \in SUBSET Nat /\ \A i \in served : i <= Len(Routes)
      BY <1>1, <3>1
    <3> QED
      BY <1>1, <1>5, <3>2, Greatest, Zenon
  <2>2. IsFiniteSet(Before(m)) /\ Cardinality(Before(m)) \in Nat /\ Cardinality(Before(m)) < t
    <3>1. IsFiniteSet(Before(m))
      BY <1>2, FS_Subset
    <3> QED
      BY <3>1, FS_CardinalityType
  <2>3. served \ {m} \subseteq Before(m)
    <3> SUFFICES ASSUME NEW i \in served \ {m} PROVE i \in Matching /\ i < m
      OBVIOUS
    <3>1. i \in Nat /\ m \in Nat /\ i <= m /\ i # m
      BY <1>1, <2>1
    <3> QED
      BY <3>1
  <2>4. Cardinality(served \ {m}) = Cardinality(served) - 1
    BY <1>3, FS_RemoveElement, Zenon
  <2>5. Cardinality(served \ {m}) <= Cardinality(Before(m))
    BY <2>2, <2>3, FS_Subset, Zenon
  <2> HIDE DEF served, Before
  <2> QED
    BY <1>3, <2>2, <2>4, <2>5
<1>6. Cardinality(Matching) \in Nat
  BY <1>2, FS_CardinalityType
<1>7. Affordable = served
  BY Zenon DEF Affordable
<1> HIDE DEF served
<1> QED
  BY <1>3, <1>4, <1>5, <1>6, <1>7

\* What one evaluation makes of an alert that was true since `since`.
LEMMA EvaluateForStep ==
  ASSUME NEW a \in AlertRecords, NEW cond \in BOOLEAN, NEW since \in Nat,
         time \in Nat, cond => since <= time,
         a.state = "pending" /\ cond => since <= a.pendingSince,
         a.state = "firing" => a.firingSince - a.heldSince >= ForDuration
  PROVE  LET b == EvaluateFor(a, cond)
             e == IF b.state = "firing" /\ a.state # "firing"
                    THEN [b EXCEPT !.heldSince = since] ELSE b
         IN  /\ e \in AlertRecords
             /\ e.state = "pending" => since <= e.pendingSince
             /\ e.state = "firing" => e.firingSince - e.heldSince >= ForDuration
<1> DEFINE b == EvaluateFor(a, cond)
           e == IF b.state = "firing" /\ a.state # "firing"
                  THEN [b EXCEPT !.heldSince = since] ELSE b
           Good == /\ e \in AlertRecords
                   /\ e.state = "pending" => since <= e.pendingSince
                   /\ e.state = "firing" => e.firingSince - e.heldSince >= ForDuration
<1>0. ForDuration \in Nat
  BY AlertAssumption
<1>1. ASSUME a.state \in {"inactive", "resolved"}, cond PROVE Good
  <2> DEFINE at == IF ForDuration = 0 THEN "firing" ELSE "pending"
             f == IF ForDuration = 0 THEN time ELSE a.firingSince
             b1 == [a EXCEPT !.state = at]
             b2 == [b1 EXCEPT !.pendingSince = time]
             b3 == [b2 EXCEPT !.firingSince = f]
  <2>1. b = b3
    BY <1>1 DEF EvaluateFor
  <2>2. at \in {"inactive", "pending", "firing", "resolved"} /\ f \in Nat
    BY DEF AlertRecords
  <2> HIDE DEF at, f
  <2>3. b1 \in AlertRecords
    BY <2>2, Zenon DEF AlertRecords
  <2> HIDE DEF b1
  <2>4. b2 \in AlertRecords
    BY <2>3, Zenon DEF AlertRecords
  <2> HIDE DEF b2
  <2>5. b3 \in AlertRecords
    BY <2>2, <2>4, Zenon DEF AlertRecords
  <2>6. b3.state = at /\ b3.pendingSince = time /\ b3.firingSince = f
    BY DEF b1, b2
  <2> HIDE DEF b3
  <2>7. CASE ForDuration = 0
    <3> DEFINE e3 == [b3 EXCEPT !.heldSince = since]
    <3>1. e = e3
      BY <1>1, <2>1, <2>6, <2>7, Zenon DEF at
    <3>2. e3 \in AlertRecords
      BY <2>5, Zenon DEF AlertRecords
    <3>3. e3.state = "firing" /\ e3.firingSince = time /\ e3.heldSince = since
      BY <2>6, <2>7 DEF at, f
    <3> HIDE DEF e, e3
    <3> QED
      BY <1>1, <2>7, <3>1, <3>2, <3>3
  <2>8. CASE ForDuration # 0
    <3>1. e = b3
      BY <2>1, <2>6, <2>8 DEF at
    <3> HIDE DEF e
    <3> QED
      BY <1>1, <2>5, <2>6, <2>8, <3>1 DEF at
  <2> QED
    BY <2>7, <2>8
<1>2. ASSUME a.state = "pending", ~cond PROVE Good
  <2>1. b = [a EXCEPT !.state = "inactive"]
    BY <1>2 DEF EvaluateFor
  <2>2. [a EXCEPT !.state = "inactive"] \in AlertRecords
    BY Zenon DEF AlertRecords
  <2>3. [a EXCEPT !.state = "inactive"].state = "inactive"
    OBVIOUS
  <2> QED
    BY <2>1, <2>2
<1>3. ASSUME a.state = "pending", cond, time - a.pendingSince >= ForDuration PROVE Good
  <2> DEFINE b1 == [a EXCEPT !.state = "firing"]
             b2 == [b1 EXCEPT !.firingSince = time]
             b3 == [b2 EXCEPT !.heldSince = since]
  <2>1. b = b2
    BY <1>3 DEF EvaluateFor
  <2>2. b1 \in AlertRecords
    BY Zenon DEF AlertRecords
  <2> HIDE DEF b1
  <2>3. b2 \in AlertRecords
    BY <2>2, Zenon DEF AlertRecords
  <2>4. b2.state = "firing" /\ b2.firingSince = time
    BY DEF b1
  <2> HIDE DEF b2
  <2>5. b3 \in AlertRecords
    BY <2>3, Zenon DEF AlertRecords
  <2>6. b3.state = "firing" /\ b3.firingSince = time /\ b3.heldSince = since
    BY <2>4
  <2>7. e = b3
    BY <1>3, <2>1, <2>4, Zenon
  <2>8. since <= a.pendingSince /\ a.pendingSince \in Nat
    BY <1>3 DEF AlertRecords
  <2> HIDE DEF e, b3
  <2> QED
    BY <1>0, <1>3, <2>5, <2>6, <2>7, <2>8
<1>4. ASSUME a.state = "firing", ~cond PROVE Good
  <2>1. b = [a EXCEPT !.state = "resolved"]
    BY <1>4 DEF EvaluateFor
  <2>2. [a EXCEPT !.state = "resolved"] \in AlertRecords
    BY Zenon DEF AlertRecords
  <2>3. [a EXCEPT !.state = "resolved"].state = "resolved"
    OBVIOUS
  <2> QED
    BY <2>1, <2>2
<1>5. ASSUME b = a, a.state = "pending" => cond PROVE Good
  BY <1>5
<1>6. a.state \in {"inactive", "pending", "firing", "resolved"}
  BY DEF AlertRecords
<1>7. ASSUME ~(a.state \in {"inactive", "resolved"} /\ cond), ~(a.state = "pending" /\ ~cond),
             ~(a.state = "pending" /\ cond /\ time - a.pendingSince >= ForDuration),
             ~(a.state = "firing" /\ ~cond)
      PROVE  b = a
  BY <1>7, Zenon DEF EvaluateFor
<1> QED
  BY <1>1, <1>2, <1>3, <1>4, <1>7, Zenon

\* The clock: what the bucket earns is what the budget grows by.
LEMMA AlertTickStep == AlertInv /\ AlertTick => AlertInv'
<1> SUFFICES ASSUME AlertInv, AlertTick PROVE AlertInv'
  OBVIOUS
<1>0. /\ {ForDuration, Burst, Refill} \subseteq Nat
      /\ time \in Nat \ {0} /\ tokens \in Nat /\ sent \in Nat
      /\ Limited => tokens + sent <= Burst + Refill * (time - 1)
  BY AlertAssumption DEF AlertInv, AlertTypes, BudgetInv
<1>1. /\ time' = time + 1
      /\ tokens' = Min({Burst, tokens + Refill})
      /\ UNCHANGED <<alerts, trueSince, lastSeen, seenAt, sent>>
  BY DEF AlertTick
<1>2. tokens' \in Nat /\ tokens' <= tokens + Refill
  <2>1. Min({Burst, tokens + Refill}) =
          IF Burst <= tokens + Refill THEN Burst ELSE tokens + Refill
    BY <1>0, MinOfTwo
  <2> QED
    BY <1>0, <1>1, <2>1
<1>3. AlertTypes'
  BY <1>1, <1>2 DEF AlertInv, AlertTypes
<1>4. HeldInv' /\ SeenInv'
  BY <1>1 DEF AlertInv, HeldInv, SeenInv
<1>5. BudgetInv'
  <2>1. PICK n \in Nat : time = n + 1
    BY <1>0
  <2>2. Refill * (time' - 1) = Refill * n + Refill /\ Refill * (time - 1) = Refill * n
    BY <1>0, <1>1, <2>1
  <2>3. Refill * n \in Nat
    BY <1>0
  <2>4. PICK x \in Nat : x = Refill * n
    BY <2>3
  <2>5. Limited => tokens' + sent <= Burst + (x + Refill)
    <3>1. Limited => tokens + sent <= Burst + x
      BY <1>0, <2>2, <2>4
    <3> QED BY <3>1, <1>0, <1>2
  <2> QED
    BY <2>2, <2>4, <2>5, <1>1 DEF BudgetInv
<1> QED
  BY <1>3, <1>4, <1>5 DEF AlertInv

\* An evaluation, its dispatch included.
LEMMA EvaluateStep ==
  ASSUME AlertInv, NEW r \in Rules, NEW cond \in BOOLEAN, Evaluate(r, cond)
  PROVE  AlertInv'
<1> DEFINE a == alerts[r]
           b == EvaluateFor(a, cond)
           since == IF ~cond THEN Never ELSE Min({trueSince[r], time})
           e == IF b.state = "firing" /\ a.state # "firing"
                  THEN [b EXCEPT !.heldSince = since] ELSE b
<1>1. /\ alerts' = [alerts EXCEPT ![r] = e]
      /\ trueSince' = [trueSince EXCEPT ![r] = since]
      /\ Dispatch \/ UNCHANGED <<tokens, sent>>
      /\ UNCHANGED <<time, lastSeen, seenAt>>
  BY Zenon DEF Evaluate
<1>2. /\ time \in Nat /\ trueSince \in [Rules -> Nat] /\ alerts \in [Rules -> AlertRecords]
      /\ a \in AlertRecords /\ trueSince[r] \in Nat
      /\ tokens \in Nat /\ sent \in Nat
  BY DEF AlertInv, AlertTypes
<1>3. since \in Nat /\ (cond => since <= time /\ since <= trueSince[r])
  <2>1. Never \in Nat
    BY AlertAssumption DEF Never
  <2>2. Min({trueSince[r], time}) = IF trueSince[r] <= time THEN trueSince[r] ELSE time
    BY <1>2, MinOfTwo
  <2> QED
    BY <1>2, <2>1, <2>2
<1>4. /\ e \in AlertRecords
      /\ e.state = "pending" => since <= e.pendingSince
      /\ e.state = "firing" => e.firingSince - e.heldSince >= ForDuration
  <2>1. a.state = "pending" => trueSince[r] <= a.pendingSince
    BY DEF AlertInv, HeldInv
  <2>2. a.state = "firing" => a.firingSince - a.heldSince >= ForDuration
    BY DEF AlertInv, HeldInv
  <2>3. a.pendingSince \in Nat
    BY <1>2 DEF AlertRecords
  <2> HIDE DEF a, since
  <2>4. a.state = "pending" /\ cond => since <= a.pendingSince
    BY <1>2, <1>3, <2>1, <2>3
  <2> QED
    BY <1>2, <1>3, <2>2, <2>4, EvaluateForStep
<1> HIDE DEF e, since
<1>5. tokens' \in Nat /\ sent' \in Nat /\ (Limited => tokens' + sent' = tokens + sent)
  <2>1. CASE Dispatch
    <3>1. IF Limited
            THEN sent' = sent + Cardinality(Affordable) /\ tokens' = tokens - Cardinality(Affordable)
            ELSE sent' = sent + Cardinality(Matching) /\ tokens' = tokens
      BY <2>1 DEF Dispatch
    <3>2. /\ Cardinality(Matching) \in Nat
          /\ Cardinality(Affordable) \in Nat /\ Cardinality(Affordable) <= tokens
      BY <1>2, ServedWithinTokens
    <3> QED
      BY <1>2, <3>1, <3>2
  <2>2. CASE UNCHANGED <<tokens, sent>>
    BY <1>2, <2>2
  <2> QED
    BY <1>1, <2>1, <2>2
<1>6. AlertTypes'
  BY <1>1, <1>3, <1>4, <1>5 DEF AlertInv, AlertTypes
<1>7. HeldInv'
  <2>1. alerts'[r] = e /\ trueSince'[r] = since
    BY <1>1, <1>2
  <2>2. \A q \in Rules \ {r} : alerts'[q] = alerts[q] /\ trueSince'[q] = trueSince[q]
    BY <1>1
  <2> QED
    BY <1>4, <2>1, <2>2, Zenon DEF AlertInv, HeldInv
<1>8. SeenInv'
  BY <1>1 DEF AlertInv, SeenInv
<1>9. BudgetInv'
  <2>1. time' = time
    BY <1>1
  <2> QED
    BY <1>5, <2>1 DEF AlertInv, BudgetInv
<1> QED
  BY <1>6, <1>7, <1>8, <1>9 DEF AlertInv

\* A signal of the deadman, late or not.
LEMMA ObserveStep ==
  ASSUME AlertInv, NEW t \in Nat, Observe(t)
  PROVE  AlertInv'
<1>1. /\ lastSeen' = IF t > lastSeen THEN t ELSE lastSeen
      /\ seenAt' = seenAt \cup {t}
      /\ UNCHANGED <<time, alerts, trueSince, tokens, sent>>
  BY DEF Observe
<1>2. lastSeen \in Nat /\ seenAt \subseteq Nat
  BY DEF AlertInv, AlertTypes
<1>3. AlertTypes' /\ HeldInv' /\ BudgetInv'
  BY <1>1 DEF AlertInv, AlertTypes, HeldInv, BudgetInv
<1>4. SeenInv'
  BY <1>1, <1>2 DEF AlertInv, SeenInv
<1> QED
  BY <1>3, <1>4 DEF AlertInv

LEMMA AlertStart == AlertInit => AlertInv
<1> SUFFICES ASSUME AlertInit PROVE AlertInv
  OBVIOUS
<1>1. Burst \in Nat /\ Refill \in Nat /\ Never \in Nat
  BY AlertAssumption DEF Never
<1>2. NewAlert \in AlertRecords /\ NewAlert.state = "inactive"
  BY DEF NewAlert, AlertRecords
<1>3. AlertTypes
  BY <1>1, <1>2 DEF AlertInit, AlertTypes
<1>4. HeldInv
  BY <1>2 DEF AlertInit, HeldInv
<1>5. SeenInv /\ BudgetInv
  BY <1>1 DEF AlertInit, SeenInv, BudgetInv
<1> QED
  BY <1>3, <1>4, <1>5 DEF AlertInv

LEMMA AlertStep == AlertInv /\ [AlertNext]_alertVars => AlertInv'
<1> SUFFICES ASSUME AlertInv, [AlertNext]_alertVars PROVE AlertInv'
  OBVIOUS
<1>0. UNCHANGED <<time, alerts, trueSince, lastSeen, seenAt, tokens, sent>> => AlertInv'
  BY DEF AlertInv, AlertTypes, HeldInv, SeenInv, BudgetInv
<1>1. CASE AlertTick
  BY <1>1, AlertTickStep
<1>2. ASSUME NEW v \in Values, EvaluateThreshold(v) PROVE AlertInv'
  <2> DEFINE cond == ConditionTrue(v, alerts["threshold"].state \in {"pending", "firing"})
  <2>0. (v < ResolveBelow) \in BOOLEAN /\ (v > FireAbove) \in BOOLEAN
    OBVIOUS
  <2>1. "threshold" \in Rules /\ cond \in BOOLEAN
    BY <2>0, Zenon DEF Rules, ConditionTrue
  <2>2. Evaluate("threshold", cond)
    BY <1>2, Zenon DEF EvaluateThreshold
  <2> QED
    BY <2>1, <2>2, EvaluateStep
<1>3. CASE EvaluateDeadman
  <2>1. "deadman" \in Rules /\ Overdue \in BOOLEAN
    BY DEF Rules, Overdue
  <2> QED
    BY <1>3, <2>1, EvaluateStep DEF EvaluateDeadman
<1>4. ASSUME NEW t \in 1 .. MaxTime, Observe(t) PROVE AlertInv'
  <2>1. t \in Nat
    OBVIOUS
  <2> QED
    BY <1>4, ObserveStep
<1>5. ASSUME NEW s, AddSilence(s) PROVE AlertInv'
  BY <1>0, <1>5 DEF AddSilence
<1>6. ASSUME NEW s, RemoveSilence(s) PROVE AlertInv'
  BY <1>0, <1>6 DEF RemoveSilence
<1>7. CASE UNCHANGED alertVars
  BY <1>0, <1>7 DEF alertVars
<1> QED
  BY <1>1, <1>2, <1>3, <1>4, <1>5, <1>6, <1>7, Zenon DEF AlertNext

\* Whatever order values, silences and late signals come in, an alert fires only
\* when every evaluation over at least `for` found its condition true
\* (Alert.EvaluateFor), and the deadman goes by the latest signal it was
\* given (DeadmanTracker.Observe).
THEOREM AlertsAreJustified == AlertSpec => []FiringIsJustified
<1>1. AlertInv => FiringIsJustified
  <2> SUFFICES ASSUME AlertInv PROVE FiringIsJustified
    OBVIOUS
  <2>1. lastSeen \in Nat /\ seenAt \cup {0} \in SUBSET Nat
    BY DEF AlertInv, AlertTypes
  <2>2. lastSeen \in seenAt \cup {0} /\ \A t \in seenAt \cup {0} : t <= lastSeen
    BY <2>1 DEF AlertInv, SeenInv
  <2>3. Max(seenAt \cup {0}) = lastSeen
    BY <2>1, <2>2, MaxIs
  <2> QED
    BY <2>3 DEF AlertInv, HeldInv, FiringIsJustified
<1> QED
  BY <1>1, AlertStart, AlertStep, PTL DEF AlertSpec

\* The routes together are never handed more notifications than the burst and
\* what the limiter earned since the start (Router.Dispatch), for any routes and
\* any limits a router can be given.
THEOREM NotificationCeiling == AlertSpec => []CeilingHolds
<1>1. AlertInv => CeilingHolds
  <2> SUFFICES ASSUME AlertInv PROVE CeilingHolds
    OBVIOUS
  <2>1. PICK n \in Nat : time = n + 1
    BY DEF AlertInv, AlertTypes
  <2>2. Refill * (time - 1) = Refill * n /\ Refill * n \in Nat /\ Burst \in Nat
    BY <2>1, AlertAssumption
  <2> QED
    BY <2>2 DEF AlertInv, AlertTypes, BudgetInv, CeilingHolds
<1> QED
  BY <1>1, AlertStart, AlertStep, PTL DEF AlertSpec
===============================================================================
