--------------------------- MODULE SMTPPoolProofs ---------------------------
(***************************************************************************)
(* Proofs about the connection pool, for any number of goroutines, keys    *)
(* and connections and any limits.                                         *)
(***************************************************************************)
EXTENDS SMTPPool, TLAPS, FiniteSetTheorems

Bit(b) == IF b THEN 1 ELSE 0

(* Two finite sets that differ in at most one element. *)
LEMMA OneMoves ==
    ASSUME NEW S, NEW T, NEW x, IsFiniteSet(S), T \ {x} = S \ {x}
    PROVE  /\ IsFiniteSet(T) /\ Cardinality(S) \in Nat /\ Cardinality(T) \in Nat
           /\ Cardinality(T) = Cardinality(S) + Bit(x \in T) - Bit(x \in S)
<1> DEFINE R == S \ {x}
<1>1. IsFiniteSet(R) /\ Cardinality(R) = Cardinality(S) - Bit(x \in S) /\ Cardinality(S) \in Nat
      /\ Cardinality(R) \in Nat
  <2>1. IsFiniteSet(R) /\ Cardinality(R) = IF x \in S THEN Cardinality(S) - 1 ELSE Cardinality(S)
    BY FS_RemoveElement
  <2>2. Cardinality(R) \in Nat /\ Cardinality(S) \in Nat
    BY <2>1, FS_CardinalityType
  <2> QED BY <2>1, <2>2 DEF Bit
<1>2. CASE x \in T
  <2>1. T = R \cup {x} /\ x \notin R
    BY <1>2
  <2>2. IsFiniteSet(R \cup {x}) /\ Cardinality(R \cup {x}) = Cardinality(R) + 1
    BY ZenonT(40), <1>1, <2>1, FS_AddElement
  <2> QED BY <1>1, <1>2, <2>1, <2>2 DEF Bit
<1>3. CASE x \notin T
  <2>1. T = R
    BY <1>3
  <2> QED BY <1>1, <1>3, <2>1 DEF Bit
<1> QED BY <1>2, <1>3

(* Taking a part away. *)
LEMMA PartGone ==
    ASSUME NEW S, NEW G, IsFiniteSet(S), G \subseteq S
    PROVE  /\ Cardinality(G) \in Nat /\ Cardinality(S \ G) \in Nat /\ Cardinality(S) \in Nat
           /\ Cardinality(S \ G) = Cardinality(S) - Cardinality(G)
<1>1. IsFiniteSet(G) /\ IsFiniteSet(S \ G)
  BY FS_Subset, S \ G \subseteq S
<1>2. Cardinality(G) \in Nat /\ Cardinality(S \ G) \in Nat /\ Cardinality(S) \in Nat
  BY <1>1, FS_CardinalityType
<1>3. Cardinality(S \ G) = Cardinality(S) - Cardinality(S \cap G)
  BY FS_Difference
<1>4. S \cap G = G
  OBVIOUS
<1> QED BY <1>2, <1>3, <1>4

-----------------------------------------------------------------------------
(* What a goroutine has, from where it is.  Two users of one session, or a   *)
(* user of an idle one, would free its slots twice.                          *)
Labels == {"free", "look", "key", "total", "dial", "undo", "wait", "use"}
Shape ==
    /\ pc \in [Workers -> Labels] /\ want \in [Workers -> Keys \cup {None}]
    /\ sess \in [Workers -> Sessions \cup {None}]
    /\ idle \subseteq open /\ old \subseteq open /\ stale \subseteq idle
    /\ skey \in [Sessions -> Keys \cup {None}] /\ deliveries \in [Sessions -> Nat]
    /\ keySlots \in [Keys -> Int] /\ total \in Int
    /\ changed \in BOOLEAN /\ closed \in BOOLEAN
UseInv ==
    /\ Shape /\ NothingKept
    /\ \A w \in Workers : pc[w] # "free" => want[w] \in Keys
    /\ \A w \in Workers : pc[w] = "use" =>
         sess[w] \in Sessions /\ skey[sess[w]] = want[w] /\ sess[w] \notin idle
    /\ \A v, w \in Workers : pc[v] = "use" /\ pc[w] = "use" /\ sess[v] = sess[w] => v = w
    /\ \A s \in Sessions : deliveries[s] < MaxDeliveries

(* Closing idle sessions of the key k0, or the one session in use by w. *)
LEMMA ForgetEffect ==
    ASSUME UseInv, NEW gone \in SUBSET open, Forget(gone)
    PROVE  /\ skey' \in [Sessions -> Keys \cup {None}] /\ deliveries' \in [Sessions -> Nat]
           /\ open' = open \ gone /\ old' \subseteq open' /\ stale' = stale \ gone
           /\ \A s \in Sessions \ gone : skey'[s] = skey[s]
           /\ \A s \in Sessions : deliveries'[s] < MaxDeliveries
<1>1. gone \subseteq Sessions
  BY DEF open
<1>2. /\ skey' \in [Sessions -> Keys \cup {None}] /\ deliveries' \in [Sessions -> Nat]
      /\ \A s \in Sessions : deliveries'[s] < MaxDeliveries
  BY PoolAssumption DEF UseInv, Shape, Forget
<1>3. \A s \in Sessions : skey'[s] = IF s \in gone THEN None ELSE skey[s]
  BY DEF Forget
<1>4. open' = open \ gone
  BY <1>3 DEF open
<1> QED BY <1>2, <1>3, <1>4 DEF UseInv, Shape, Forget

(* A goroutine moves and closes sessions nobody else uses. *)
LEMMA CloseUse ==
    ASSUME UseInv, NEW w \in Workers, NEW l \in Labels, NEW k0 \in Keys,
           NEW gone \in SUBSET open, NEW stay \in SUBSET (idle \ gone), closeSessions(gone, k0, stay),
           stale \ gone \subseteq stay, closed' = closed, pc' = [pc EXCEPT ![w] = l],
           want' \in [Workers -> Keys \cup {None}], l # "free" => want'[w] \in Keys,
           sess' \in [Workers -> Sessions \cup {None}],
           \A v \in Workers \ {w} : want'[v] = want[v] /\ sess'[v] = sess[v],
           \A v \in Workers \ {w} : pc[v] = "use" => sess[v] \notin gone,
           l = "use" => /\ sess'[w] \in open \ (gone \cup stay) /\ skey[sess'[w]] = want'[w]
                        /\ \A v \in Workers \ {w} : pc[v] = "use" => sess[v] # sess'[w]
    PROVE  UseInv'
<1>1. Forget(gone) /\ idle' = stay
  BY DEF closeSessions
<1>2. /\ skey' \in [Sessions -> Keys \cup {None}] /\ deliveries' \in [Sessions -> Nat]
      /\ open' = open \ gone /\ old' \subseteq open' /\ stale' = stale \ gone
      /\ \A s \in Sessions \ gone : skey'[s] = skey[s]
      /\ \A s \in Sessions : deliveries'[s] < MaxDeliveries
  BY <1>1, ForgetEffect
<1>3. Cardinality(gone) \in Int
  <2>1. IsFiniteSet(gone)
    BY PoolAssumption, FS_Subset DEF open
  <2> QED BY <2>1, FS_CardinalityType
<1>4. keySlots' \in [Keys -> Int] /\ total' \in Int /\ changed' \in BOOLEAN
  BY <1>3 DEF closeSessions, UseInv, Shape
<1>5. idle' \subseteq open' /\ stale' \subseteq idle'
  BY <1>1, <1>2 DEF UseInv, Shape
<1>6. pc' \in [Workers -> Labels] /\ pc'[w] = l /\ \A v \in Workers \ {w} : pc'[v] = pc[v]
  BY DEF UseInv, Shape
<1>7. Shape'
  BY <1>2, <1>4, <1>5, <1>6 DEF Shape, UseInv
<1>8. NothingKept'
  BY <1>1 DEF UseInv, NothingKept
<1>9. \A v \in Workers : pc'[v] # "free" => want'[v] \in Keys
  BY <1>6 DEF UseInv
<1>10. ASSUME NEW v \in Workers, pc'[v] = "use"
       PROVE  sess'[v] \in Sessions /\ skey'[sess'[v]] = want'[v] /\ sess'[v] \notin idle'
  <2>1. CASE v = w
    BY <1>1, <1>2, <1>6, <1>10, <2>1 DEF open
  <2>2. CASE v # w
    BY <1>1, <1>2, <1>6, <1>10, <2>2 DEF UseInv
  <2> QED BY <2>1, <2>2
<1>11. \A u, v \in Workers : pc'[u] = "use" /\ pc'[v] = "use" /\ sess'[u] = sess'[v] => u = v
  BY <1>6 DEF UseInv
<1> QED BY <1>2, <1>7, <1>8, <1>9, <1>10, <1>11 DEF UseInv

(* A goroutine moves within get and leaves the sessions alone. *)
LEMMA MoveUse ==
    ASSUME UseInv, NEW w \in Workers, NEW l \in Labels \ {"use"}, pc' = [pc EXCEPT ![w] = l],
           want' \in [Workers -> Keys \cup {None}], l # "free" => want'[w] \in Keys,
           \A v \in Workers \ {w} : want'[v] = want[v],
           UNCHANGED <<sess, pool, closed>>,
           keySlots' \in [Keys -> Int], total' \in Int, changed' \in BOOLEAN
    PROVE  UseInv'
<1>1. pc' \in [Workers -> Labels] /\ pc'[w] = l /\ \A v \in Workers \ {w} : pc'[v] = pc[v]
  BY DEF UseInv, Shape
<1>2. Shape' /\ NothingKept'
  BY <1>1 DEF Shape, UseInv, pool, open, NothingKept
<1>3. \A v \in Workers : pc'[v] # "free" => want'[v] \in Keys
  BY <1>1 DEF UseInv
<1> QED BY <1>1, <1>2, <1>3 DEF UseInv, pool

LEMMA LookUse ==
    ASSUME UseInv, NEW w \in Workers, Look(w)
    PROVE  UseInv'
<1>0. want[w] \in Keys /\ pc[w] = "look" /\ closed' = closed /\ want \in [Workers -> Keys \cup {None}]
      /\ sess \in [Workers -> Sessions \cup {None}]
  BY DEF UseInv, Look, Shape
<1> DEFINE usable == Usable(want[w])
           expired == Expired(want[w])
<1>1. \/ closed /\ Leave(w) /\ UNCHANGED <<sess, pool, keySlots, total, changed>>
      \/ \E s \in usable, gone \in SUBSET expired :
           /\ sess' = [sess EXCEPT ![w] = s] /\ Goto(w, "use")
           /\ closeSessions(gone, want[w], idle \ (gone \cup {s}))
      \/ Goto(w, "key") /\ closeSessions(expired, want[w], idle \ expired) /\ UNCHANGED sess
  BY ZenonT(40) DEF Look
<1>2. CASE closed /\ Leave(w) /\ UNCHANGED <<sess, pool, keySlots, total, changed>>
  BY ZenonT(40), <1>0, <1>2, MoveUse DEF Leave, Labels, UseInv, Shape
<1>3. ASSUME NEW s \in usable, NEW gone \in SUBSET expired,
             sess' = [sess EXCEPT ![w] = s], Goto(w, "use"),
             closeSessions(gone, want[w], idle \ (gone \cup {s}))
      PROVE  UseInv'
  <2>1. gone \in SUBSET open /\ gone \subseteq idle /\ s \in open /\ s \in idle /\ s \notin gone /\ skey[s] = want[w]
        /\ s \notin stale
    BY DEF IdleOf, UseInv, Shape, Usable, Expired
  <2>2. \A v \in Workers \ {w} : pc[v] = "use" => sess[v] \notin idle
    BY DEF UseInv
  <2>3. sess'[w] = s /\ sess' \in [Workers -> Sessions \cup {None}] /\ want' = want
        /\ pc' = [pc EXCEPT ![w] = "use"] /\ \A v \in Workers \ {w} : sess'[v] = sess[v]
    BY <1>0, <1>3, <2>1 DEF Goto, open
  <2> DEFINE stay == idle \ (gone \cup {s})
  <2>4. stale \ gone \subseteq stay /\ stay \in SUBSET (idle \ gone) /\ s \in open \ (gone \cup stay)
    BY <2>1 DEF UseInv, Shape
  <2>5. closeSessions(gone, want[w], stay) /\ "use" \in Labels
    BY <1>3 DEF Labels
  <2>6. \A v \in Workers \ {w} : pc[v] = "use" => sess[v] \notin gone /\ sess[v] # s
    BY <2>1, <2>2
  <2> HIDE DEF usable, expired, stay
  <2> QED BY ZenonT(40), <1>0, <2>1, <2>3, <2>4, <2>5, <2>6, CloseUse
<1>4. CASE Goto(w, "key") /\ closeSessions(expired, want[w], idle \ expired) /\ UNCHANGED sess
  <2>1. expired \in SUBSET open /\ expired \subseteq idle
    BY DEF IdleOf, UseInv, Shape, Expired
  <2>2. \A v \in Workers \ {w} : pc[v] = "use" => sess[v] \notin expired
    BY <2>1 DEF UseInv
  <2>3. stale \ expired \subseteq idle \ expired
    BY DEF UseInv, Shape
  <2> HIDE DEF usable, expired
  <2> QED BY ZenonT(40), <1>0, <1>4, <2>1, <2>2, <2>3, CloseUse DEF Labels, Goto
<1> QED BY ZenonT(40), <1>1, <1>2, <1>3, <1>4

LEMMA PutUse ==
    ASSUME UseInv, NEW w \in Workers, NEW reusable \in BOOLEAN, put(w, reusable)
    PROVE  UseInv'
<1> DEFINE s == sess[w]
<1>0. /\ pc[w] = "use" /\ s \in open /\ skey[s] \in Keys /\ s \notin idle /\ closed' = closed
      /\ sess' \in [Workers -> Sessions \cup {None}] /\ \A v \in Workers \ {w} : sess'[v] = sess[v]
      /\ pc' = [pc EXCEPT ![w] = "free"] /\ want' \in [Workers -> Keys \cup {None}]
      /\ \A v \in Workers \ {w} : want'[v] = want[v] /\ (pc[v] = "use" => sess[v] # s)
  BY PoolAssumption DEF put, Leave, UseInv, Shape, open
<1>1. CASE closeSessions({s}, skey[s], idle)
  <2>1. idle \in SUBSET (idle \ {s}) /\ stale \ {s} \subseteq idle /\ {s} \in SUBSET open
    BY <1>0 DEF UseInv, Shape
  <2> HIDE DEF s
  <2> QED BY ZenonT(40), <1>0, <1>1, <2>1, CloseUse DEF Labels
<1>2. CASE /\ ~discard(s, reusable) /\ idle' = idle \cup {s}
           /\ deliveries' = [deliveries EXCEPT ![s] = @ + 1]
           /\ changed' = TRUE /\ UNCHANGED <<skey, old, stale, keySlots, total>>
  <2>1. pc' \in [Workers -> Labels] /\ pc'[w] = "free" /\ \A v \in Workers \ {w} : pc'[v] = pc[v]
    BY <1>0 DEF UseInv, Shape, Labels
  <2>2. /\ deliveries' \in [Sessions -> Nat]
        /\ \A t \in Sessions : deliveries'[t] < MaxDeliveries
    BY <1>0, <1>2, PoolAssumption DEF UseInv, Shape, discard, open
  <2>3. open' = open
    BY <1>2 DEF open
  <2>4. Shape' /\ NothingKept'
    BY SMTT(40), <1>0, <1>2, <2>1, <2>2, <2>3 DEF Shape, UseInv, NothingKept, discard
  <2>5. \A v \in Workers : pc'[v] # "free" => want'[v] \in Keys
    BY SMTT(40), <1>0, <2>1 DEF UseInv
  <2>6. \A v \in Workers : pc'[v] = "use" =>
            sess'[v] \in Sessions /\ skey'[sess'[v]] = want'[v] /\ sess'[v] \notin idle'
    BY <1>0, <1>2, <2>1 DEF UseInv
  <2>7. \A u, v \in Workers : pc'[u] = "use" /\ pc'[v] = "use" /\ sess'[u] = sess'[v] => u = v
    BY <1>0, <2>1 DEF UseInv
  <2> QED BY <2>2, <2>4, <2>5, <2>6, <2>7 DEF UseInv
<1> QED BY ZenonT(40), <1>1, <1>2 DEF put

LEMMA DialedUse ==
    ASSUME UseInv, NEW w \in Workers, Dialed(w)
    PROVE  UseInv'
<1>1. PICK s \in Sessions \ open : sess' = [sess EXCEPT ![w] = s] /\ skey' = [skey EXCEPT ![s] = want[w]]
  BY ZenonT(40) DEF Dialed
<1>2. /\ pc[w] = "dial" /\ want[w] \in Keys /\ want' = want /\ pc' \in [Workers -> Labels]
      /\ pc'[w] = "use" /\ \A v \in Workers \ {w} : pc'[v] = pc[v]
      /\ UNCHANGED <<idle, deliveries, old, stale, keySlots, total, changed, closed>>
  BY DEF Dialed, Goto, UseInv, Shape, Labels
<1>3. /\ skey' \in [Sessions -> Keys \cup {None}] /\ skey'[s] = want[w]
      /\ \A t \in Sessions \ {s} : skey'[t] = skey[t]
  BY <1>1, <1>2 DEF UseInv, Shape
<1>4. /\ sess' \in [Workers -> Sessions \cup {None}] /\ sess'[w] = s
      /\ \A v \in Workers \ {w} : sess'[v] = sess[v]
  BY <1>1 DEF UseInv, Shape
<1>5. open \subseteq open'
  BY <1>3 DEF open
<1>6. Shape' /\ NothingKept'
  BY <1>2, <1>3, <1>4, <1>5 DEF Shape, UseInv, NothingKept
<1>7. \A v \in Workers \ {w} : pc[v] = "use" => sess[v] \in open /\ sess[v] # s
  BY PoolAssumption DEF UseInv, open
<1>8. ASSUME NEW v \in Workers, pc'[v] = "use"
      PROVE  sess'[v] \in Sessions /\ skey'[sess'[v]] = want'[v] /\ sess'[v] \notin idle'
  <2>1. CASE v = w
    BY SMTT(40), <1>2, <1>3, <1>4, <2>1 DEF UseInv, Shape
  <2>2. CASE v # w
    BY SMTT(40), <1>2, <1>3, <1>4, <1>7, <1>8, <2>2 DEF UseInv
  <2> QED BY <2>1, <2>2
<1>9. \A u, v \in Workers : pc'[u] = "use" /\ pc'[v] = "use" /\ sess'[u] = sess'[v] => u = v
  BY SMTT(40), <1>2, <1>4, <1>7 DEF UseInv
<1>10. \A v \in Workers : pc'[v] # "free" => want'[v] \in Keys
  BY <1>2 DEF UseInv
<1> QED BY <1>2, <1>6, <1>8, <1>9, <1>10 DEF UseInv

LEMMA CloseAllUse ==
    ASSUME UseInv, Close
    PROVE  UseInv'
<1>1. Forget(idle) /\ idle' = {} /\ UNCHANGED <<pc, want, sess>> /\ closed' = TRUE /\ changed' = TRUE
  BY DEF Close
<1>2. /\ skey' \in [Sessions -> Keys \cup {None}] /\ deliveries' \in [Sessions -> Nat]
      /\ open' = open \ idle /\ old' \subseteq open' /\ stale' = stale \ idle
      /\ \A s \in Sessions \ idle : skey'[s] = skey[s]
      /\ \A s \in Sessions : deliveries'[s] < MaxDeliveries
  BY <1>1, ForgetEffect DEF UseInv, Shape
<1>3. Cardinality(idle) \in Int /\ \A k \in Keys : Cardinality(IdleOf(k)) \in Int
  <2>1. idle \subseteq Sessions /\ \A k \in Keys : IdleOf(k) \subseteq Sessions
    BY DEF UseInv, Shape, open, IdleOf
  <2>2. \A S \in SUBSET Sessions : IsFiniteSet(S)
    BY PoolAssumption, FS_Subset
  <2>3. \A S \in SUBSET Sessions : Cardinality(S) \in Nat
    BY <2>2, FS_CardinalityType
  <2> QED BY <2>1, <2>3
<1>4. keySlots' \in [Keys -> Int] /\ total' \in Int
  BY <1>3 DEF Close, UseInv, Shape
<1>5. Shape' /\ NothingKept'
  BY SMTT(40), <1>1, <1>2, <1>4 DEF Shape, UseInv, NothingKept
<1>6. \A v \in Workers : pc'[v] = "use" =>
          sess'[v] \in Sessions /\ skey'[sess'[v]] = want'[v] /\ sess'[v] \notin idle'
  BY <1>1, <1>2 DEF UseInv
<1> QED BY <1>1, <1>2, <1>5, <1>6 DEF UseInv

LEMMA UseStep ==
    ASSUME UseInv, [Next]_vars
    PROVE  UseInv'
<1>0. keySlots \in [Keys -> Int] /\ total \in Int /\ changed \in BOOLEAN
      /\ want \in [Workers -> Keys \cup {None}]
      /\ \A w \in Workers : pc[w] # "free" => want[w] \in Keys
  BY DEF UseInv, Shape
<1>1. ASSUME NEW w \in Workers, NEW k \in Keys, Get(w, k) PROVE UseInv'
  BY ZenonT(40), <1>0, <1>1, MoveUse DEF Get, Labels
<1>2. ASSUME NEW w \in Workers, TakeKeySlot(w) \/ TakeTotal(w) PROVE UseInv'
  <2>1. want[w] \in Keys /\ want' = want /\ UNCHANGED <<sess, pool, closed>> /\ changed' = changed
    BY <1>0, <1>2 DEF TakeKeySlot, TakeTotal, Goto
  <2>2. keySlots' \in [Keys -> Int] /\ total' \in Int
    BY <1>0, <1>2, <2>1 DEF TakeKeySlot, TakeTotal
  <2>3. PICK l \in {"total", "wait", "dial"} : pc' = [pc EXCEPT ![w] = l]
    BY <1>2 DEF TakeKeySlot, TakeTotal, Goto
  <2> QED BY ZenonT(40), <1>0, <2>1, <2>2, <2>3, MoveUse DEF Labels
<1>3. ASSUME NEW w \in Workers, DialFailed(w) PROVE UseInv'
  <2>1. pc[w] # "free" /\ pc' = [pc EXCEPT ![w] = "undo"] /\ want' = want
        /\ UNCHANGED <<sess, pool, closed>>
    BY <1>3 DEF DialFailed, Goto
  <2>2. want[w] \in Keys /\ want' \in [Workers -> Keys \cup {None}] /\ \A v \in Workers \ {w} : want'[v] = want[v]
    BY <1>0, <2>1
  <2>3. keySlots' \in [Keys -> Int] /\ total' \in Int
    BY <1>0, <1>3, <2>2 DEF DialFailed
  <2>4. changed' \in BOOLEAN /\ "undo" \in Labels
    BY <1>0, <1>3 DEF DialFailed, Labels
  <2> QED BY ZenonT(40), <1>0, <2>1, <2>2, <2>3, <2>4, MoveUse
<1>4. ASSUME NEW w \in Workers, Wake(w) PROVE UseInv'
  <2>1. pc[w] # "free" /\ pc' = [pc EXCEPT ![w] = "look"] /\ want' = want
        /\ UNCHANGED <<sess, pool, closed>>
    BY <1>4 DEF Wake, Goto
  <2>2. want[w] \in Keys /\ want' \in [Workers -> Keys \cup {None}] /\ \A v \in Workers \ {w} : want'[v] = want[v]
    BY <1>0, <2>1
  <2>3. keySlots' \in [Keys -> Int] /\ total' \in Int
    BY <1>0, <1>4, <2>2 DEF Wake
  <2>4. changed' \in BOOLEAN /\ "look" \in Labels
    BY ZenonT(40), <1>0, <1>4 DEF Wake, Labels
  <2> QED BY ZenonT(40), <1>0, <2>1, <2>2, <2>3, <2>4, MoveUse
<1>7. ASSUME NEW w \in Workers, Undo(w) PROVE UseInv'
  <2>1. pc[w] # "free" /\ pc' = [pc EXCEPT ![w] = "free"] /\ want' = [want EXCEPT ![w] = None]
        /\ UNCHANGED <<sess, pool, closed>>
    BY <1>7 DEF Undo, Leave
  <2>2. want[w] \in Keys /\ want' \in [Workers -> Keys \cup {None}] /\ \A v \in Workers \ {w} : want'[v] = want[v]
    BY <1>0, <2>1
  <2>3. keySlots' \in [Keys -> Int] /\ total' \in Int
    BY <1>0, <1>7, <2>2 DEF Undo
  <2>4. changed' \in BOOLEAN /\ "free" \in Labels
    BY <1>0, <1>7 DEF Undo, Labels
  <2> QED BY ZenonT(40), <1>0, <2>1, <2>2, <2>3, <2>4, MoveUse
<1>8. ASSUME NEW w \in Workers, Cancel(w) PROVE UseInv'
  <2>1. pc[w] # "free" /\ pc' = [pc EXCEPT ![w] = "free"] /\ want' = [want EXCEPT ![w] = None]
        /\ UNCHANGED <<sess, pool, closed>>
    BY <1>8 DEF Cancel, Leave
  <2>2. want[w] \in Keys /\ want' \in [Workers -> Keys \cup {None}] /\ \A v \in Workers \ {w} : want'[v] = want[v]
    BY <1>0, <2>1
  <2>3. keySlots' \in [Keys -> Int] /\ total' \in Int
    BY <1>0, <1>8, <2>2 DEF Cancel
  <2>4. changed' \in BOOLEAN /\ "free" \in Labels
    BY <1>0, <1>8 DEF Cancel, Labels
  <2> QED BY <1>0, <2>1, <2>2, <2>3, <2>4, MoveUse
<1>5. ASSUME NEW s \in Sessions, Age(s) PROVE UseInv'
  BY <1>5 DEF Age, UseInv, Shape, open, NothingKept
<1>6. CASE UNCHANGED vars
  BY <1>6 DEF vars, UseInv, Shape, open, NothingKept
<1> QED BY SMTT(40), <1>1, <1>2, <1>3, <1>4, <1>5, <1>6, <1>7, <1>8, LookUse, PutUse, DialedUse, CloseAllUse DEF Next, Step

-----------------------------------------------------------------------------
(* How the numbers of SlotsExact change. *)
TakingLabels == {"total", "dial", "undo"}

Moves(w, l) == pc' = [pc EXCEPT ![w] = l] /\ \A v \in Workers \ {w} : want'[v] = want[v]
Counts(w, l) ==
    /\ Cardinality(At({"dial"})) \in Nat
    /\ Cardinality(At({"dial"})') = Cardinality(At({"dial"})) + Bit(l = "dial") - Bit(pc[w] = "dial")
    /\ \A k \in Keys :
         /\ Cardinality(AtFor(TakingLabels, k)) \in Nat
         /\ Cardinality(AtFor(TakingLabels, k)') =
              Cardinality(AtFor(TakingLabels, k))
              + Bit(l \in TakingLabels /\ want'[w] = k) - Bit(pc[w] \in TakingLabels /\ want[w] = k)
(* Each slot of SlotsExact is paid for when it is counted. *)
Pays(w, l) ==
    /\ total' = total + Bit(l = "dial") - Bit(pc[w] = "dial")
    /\ \A k \in Keys : keySlots'[k] = keySlots[k] + Bit(l \in TakingLabels /\ want'[w] = k)
                                                  - Bit(pc[w] \in TakingLabels /\ want[w] = k)

LEMMA MoveCounts ==
    ASSUME UseInv, NEW w \in Workers, NEW l, Moves(w, l)
    PROVE  Counts(w, l)
<1>1. pc'[w] = l /\ \A v \in Workers \ {w} : pc'[v] = pc[v] /\ want'[v] = want[v]
  BY DEF UseInv, Shape, Moves
<1>2. \A S \in SUBSET Workers : IsFiniteSet(S)
  BY PoolAssumption, FS_Subset
<1>3. /\ Cardinality(At({"dial"})) \in Nat
      /\ Cardinality(At({"dial"})') = Cardinality(At({"dial"})) + Bit(l = "dial") - Bit(pc[w] = "dial")
  <2> DEFINE S == At({"dial"})  T == At({"dial"})'
  <2>1. S \subseteq Workers /\ T \ {w} = S \ {w} /\ (w \in T <=> l = "dial") /\ (w \in S <=> pc[w] = "dial")
    BY <1>1 DEF At
  <2>2. IsFiniteSet(S)
    BY <1>2, <2>1
  <2> HIDE DEF S, T
  <2>3. Cardinality(S) \in Nat /\ Cardinality(T) = Cardinality(S) + Bit(w \in T) - Bit(w \in S)
    BY SMTT(40), <2>1, <2>2, OneMoves
  <2> QED BY <2>1, <2>3 DEF S, T, Bit
<1>4. ASSUME NEW k \in Keys
      PROVE  /\ Cardinality(AtFor(TakingLabels, k)) \in Nat
             /\ Cardinality(AtFor(TakingLabels, k)') =
                  Cardinality(AtFor(TakingLabels, k))
                  + Bit(l \in TakingLabels /\ want'[w] = k) - Bit(pc[w] \in TakingLabels /\ want[w] = k)
  <2> DEFINE S == AtFor(TakingLabels, k)  T == AtFor(TakingLabels, k)'
  <2>1. /\ S \subseteq Workers /\ T \ {w} = S \ {w}
        /\ w \in T <=> l \in TakingLabels /\ want'[w] = k
        /\ w \in S <=> pc[w] \in TakingLabels /\ want[w] = k
    BY <1>1 DEF At, AtFor
  <2>2. IsFiniteSet(S)
    BY <1>2, <2>1
  <2> HIDE DEF S, T
  <2>3. Cardinality(S) \in Nat /\ Cardinality(T) = Cardinality(S) + Bit(w \in T) - Bit(w \in S)
    BY <2>1, <2>2, OneMoves
  <2> QED BY <2>1, <2>3 DEF S, T, Bit
<1> QED BY <1>3, <1>4 DEF Counts

LEMMA SessionSets ==
    ASSUME UseInv
    PROVE  /\ \A S \in SUBSET Sessions : IsFiniteSet(S) /\ Cardinality(S) \in Nat
           /\ open \subseteq Sessions /\ idle \subseteq Sessions
           /\ \A k \in Keys : /\ OpenOf(k) \subseteq Sessions /\ IdleOf(k) \subseteq Sessions
                              /\ IdleOf(k) \subseteq OpenOf(k)
<1>1. \A S \in SUBSET Sessions : IsFiniteSet(S)
  BY PoolAssumption, FS_Subset
<1>2. \A S \in SUBSET Sessions : Cardinality(S) \in Nat
  BY <1>1, FS_CardinalityType
<1> QED BY <1>1, <1>2 DEF open, OpenOf, IdleOf, UseInv, Shape

LEMMA CloseCounts ==
    ASSUME UseInv, NEW gone \in SUBSET open, NEW k0 \in Keys, \A s \in gone : skey[s] = k0, Forget(gone)
    PROVE  /\ Cardinality(gone) \in Nat
           /\ Cardinality(open') = Cardinality(open) - Cardinality(gone)
           /\ Cardinality(OpenOf(k0)') = Cardinality(OpenOf(k0)) - Cardinality(gone)
           /\ \A k \in Keys \ {k0} : OpenOf(k)' = OpenOf(k)
<1>1. open' = open \ gone /\ \A s \in Sessions \ gone : skey'[s] = skey[s]
  BY ForgetEffect
<1>2. Cardinality(open') = Cardinality(open) - Cardinality(gone) /\ Cardinality(gone) \in Nat
  BY <1>1, SessionSets, PartGone
<1>3. OpenOf(k0)' = OpenOf(k0) \ gone /\ gone \subseteq OpenOf(k0) /\ IsFiniteSet(OpenOf(k0))
  <2>1. OpenOf(k0)' = OpenOf(k0) \ gone /\ gone \subseteq OpenOf(k0)
    BY <1>1 DEF OpenOf, open
  <2> QED BY <2>1, SessionSets
<1>4. Cardinality(OpenOf(k0)') = Cardinality(OpenOf(k0)) - Cardinality(gone)
  BY <1>3, PartGone
<1>5. \A k \in Keys \ {k0} : OpenOf(k)' = OpenOf(k)
  BY <1>1 DEF OpenOf, open
<1> QED BY <1>2, <1>4, <1>5

(* Steps that move a goroutine to a label outside the counted ones, from one *)
(* outside, and close sessions of one key.                                   *)
LEMMA SlotsClose ==
    ASSUME UseInv, SlotsExact, NEW w \in Workers, NEW l, Moves(w, l),
           l \notin TakingLabels, pc[w] \notin TakingLabels,
           NEW gone \in SUBSET open, NEW k0 \in Keys, \A s \in gone : skey[s] = k0,
           NEW stay, closeSessions(gone, k0, stay)
    PROVE  SlotsExact'
<1>1. Forget(gone) /\ total' = total - Cardinality(gone)
      /\ keySlots' = [keySlots EXCEPT ![k0] = @ - Cardinality(gone)]
  BY DEF closeSessions
<1>2. /\ Cardinality(At({"dial"})') = Cardinality(At({"dial"}))
      /\ \A k \in Keys : Cardinality(AtFor(TakingLabels, k)') = Cardinality(AtFor(TakingLabels, k))
      /\ Cardinality(At({"dial"})) \in Nat /\ \A k \in Keys : Cardinality(AtFor(TakingLabels, k)) \in Nat
  <2>1. Counts(w, l)
    BY MoveCounts
  <2> QED BY <2>1 DEF Counts, Bit, TakingLabels
<1>3. /\ Cardinality(gone) \in Nat
      /\ Cardinality(open') = Cardinality(open) - Cardinality(gone)
      /\ Cardinality(OpenOf(k0)') = Cardinality(OpenOf(k0)) - Cardinality(gone)
      /\ \A k \in Keys \ {k0} : OpenOf(k)' = OpenOf(k)
  BY <1>1, CloseCounts
<1>4. Cardinality(open) \in Nat /\ \A k \in Keys : Cardinality(OpenOf(k)) \in Nat
  BY SMTT(40), SessionSets
<1>5. total' = Cardinality(open') + Cardinality(At({"dial"})')
  BY SMTT(40), <1>1, <1>2, <1>3, <1>4 DEF SlotsExact
<1>6. \A k \in Keys : keySlots'[k] = Cardinality(OpenOf(k)') + Cardinality(AtFor(TakingLabels, k)')
  BY SMTT(40), <1>1, <1>2, <1>3, <1>4 DEF SlotsExact, TakingLabels, UseInv, Shape
<1> QED BY <1>5, <1>6 DEF SlotsExact, TakingLabels

(* Steps that move a goroutine and leave the sessions alone. *)
LEMMA SlotsMove ==
    ASSUME UseInv, SlotsExact, NEW w \in Workers, NEW l, Moves(w, l), Pays(w, l), skey' = skey
    PROVE  SlotsExact'
<1>1. open' = open /\ \A k \in Keys : OpenOf(k)' = OpenOf(k)
  BY DEF open, OpenOf
<1>2. Cardinality(open) \in Nat /\ \A k \in Keys : Cardinality(OpenOf(k)) \in Nat
  BY SessionSets
<1>3. Counts(w, l)
  BY SMTT(40), MoveCounts
<1>4. total' = Cardinality(open') + Cardinality(At({"dial"})')
  BY SMTT(40), <1>1, <1>2, <1>3 DEF SlotsExact, Bit, Counts, Pays
<1>5. \A k \in Keys : keySlots'[k] = Cardinality(OpenOf(k)') + Cardinality(AtFor(TakingLabels, k)')
  <2>1. \A k \in Keys : keySlots[k] = Cardinality(OpenOf(k)) + Cardinality(AtFor(TakingLabels, k))
    BY SMTT(40) DEF SlotsExact, TakingLabels
  <2> QED BY <1>1, <1>2, <1>3, <2>1 DEF Bit, Counts, Pays
<1> QED BY <1>4, <1>5 DEF SlotsExact, TakingLabels

LEMMA SlotsDialed ==
    ASSUME UseInv, SlotsExact, NEW w \in Workers, Dialed(w)
    PROVE  SlotsExact'
<1>1. PICK s \in Sessions \ open : skey' = [skey EXCEPT ![s] = want[w]]
  BY ZenonT(40) DEF Dialed
<1>2. pc[w] = "dial" /\ pc' = [pc EXCEPT ![w] = "use"] /\ want' = want /\ want[w] \in Keys
      /\ UNCHANGED <<keySlots, total>>
  BY DEF Dialed, Goto, UseInv
<1>3. /\ Cardinality(At({"dial"})') = Cardinality(At({"dial"})) - 1
      /\ \A k \in Keys : Cardinality(AtFor(TakingLabels, k)') = Cardinality(AtFor(TakingLabels, k)) - Bit(want[w] = k)
      /\ Cardinality(At({"dial"})) \in Nat /\ \A k \in Keys : Cardinality(AtFor(TakingLabels, k)) \in Nat
  <2>1. Moves(w, "use")
    BY <1>2 DEF Moves
  <2>2. Counts(w, "use")
    BY <2>1, MoveCounts
  <2> QED BY <1>2, <2>2 DEF Counts, Bit, TakingLabels
<1>4. skey'[s] = want[w] /\ \A t \in Sessions \ {s} : skey'[t] = skey[t]
  BY <1>1 DEF UseInv, Shape
<1>5. Cardinality(open') = Cardinality(open) + 1 /\ Cardinality(open) \in Nat
  <2>1. s \in open' /\ s \notin open /\ open' \ {s} = open \ {s} /\ IsFiniteSet(open)
    BY <1>2, <1>4, PoolAssumption, SessionSets DEF open
  <2> QED BY SMTT(40), <2>1, OneMoves DEF Bit
<1>6. ASSUME NEW k \in Keys
      PROVE  Cardinality(OpenOf(k)') = Cardinality(OpenOf(k)) + Bit(want[w] = k) /\ Cardinality(OpenOf(k)) \in Nat
  <2>1. /\ s \in OpenOf(k)' <=> want[w] = k
        /\ s \notin OpenOf(k) /\ OpenOf(k)' \ {s} = OpenOf(k) \ {s} /\ IsFiniteSet(OpenOf(k))
    BY SMTT(40), <1>2, <1>4, PoolAssumption, SessionSets DEF open, OpenOf
  <2> QED BY SMTT(40), <2>1, OneMoves DEF Bit
<1>7. total' = Cardinality(open') + Cardinality(At({"dial"})')
  BY SMTT(40), <1>2, <1>3, <1>5 DEF SlotsExact
<1>8. \A k \in Keys : keySlots'[k] = Cardinality(OpenOf(k)') + Cardinality(AtFor(TakingLabels, k)')
  BY SMTT(40), <1>2, <1>3, <1>6 DEF SlotsExact, Bit, TakingLabels
<1> QED BY SMTT(40), <1>7, <1>8 DEF SlotsExact, TakingLabels

LEMMA SlotsCloseAll ==
    ASSUME UseInv, SlotsExact, Close
    PROVE  SlotsExact'
<1>1. /\ Forget(idle) /\ UNCHANGED <<pc, want>> /\ total' = total - Cardinality(idle)
      /\ \A k \in Keys : keySlots'[k] = keySlots[k] - Cardinality(IdleOf(k))
  BY SMTT(40) DEF Close
<1>2. open' = open \ idle /\ \A s \in Sessions \ idle : skey'[s] = skey[s]
  BY <1>1, ForgetEffect DEF UseInv, Shape
<1>3. \A k \in Keys : OpenOf(k)' = OpenOf(k) \ IdleOf(k)
  BY <1>2 DEF OpenOf, IdleOf, open
<1>4. At({"dial"})' = At({"dial"}) /\ \A k \in Keys : AtFor(TakingLabels, k)' = AtFor(TakingLabels, k)
  BY SMTT(40), <1>1 DEF At, AtFor
<1>5. Cardinality(open') = Cardinality(open) - Cardinality(idle)
      /\ Cardinality(open) \in Nat /\ Cardinality(idle) \in Nat
  BY <1>2, SessionSets, PartGone DEF UseInv, Shape
<1>6. \A k \in Keys : Cardinality(OpenOf(k)') = Cardinality(OpenOf(k)) - Cardinality(IdleOf(k))
                      /\ Cardinality(OpenOf(k)) \in Nat /\ Cardinality(IdleOf(k)) \in Nat
  BY SMTT(40), <1>3, SessionSets, PartGone
<1>7. Cardinality(At({"dial"})) \in Nat /\ \A k \in Keys : Cardinality(AtFor(TakingLabels, k)) \in Nat
  <2>1. \A S \in SUBSET Workers : IsFiniteSet(S)
    BY PoolAssumption, FS_Subset
  <2>2. \A S \in SUBSET Workers : Cardinality(S) \in Nat
    BY SMTT(40), <2>1, FS_CardinalityType
  <2> QED BY <2>2 DEF At, AtFor
<1>8. total' = Cardinality(open') + Cardinality(At({"dial"})')
  BY SMTT(40), <1>1, <1>4, <1>5, <1>7 DEF SlotsExact
<1>9. \A k \in Keys : keySlots'[k] = Cardinality(OpenOf(k)') + Cardinality(AtFor(TakingLabels, k)')
  BY <1>1, <1>4, <1>6, <1>7 DEF SlotsExact, TakingLabels
<1> QED BY <1>8, <1>9 DEF SlotsExact, TakingLabels

(* What Look does, for the counts. *)
LEMMA LookEffect ==
    ASSUME NEW w \in Workers, Look(w)
    PROVE  \/ Leave(w) /\ UNCHANGED <<pool, keySlots, total>>
           \/ \E gone \in SUBSET IdleOf(want[w]) : \E stay \in SUBSET (idle \ gone), l \in {"use", "key"} :
                Goto(w, l) /\ closeSessions(gone, want[w], stay)
<1>1. ASSUME NEW s, NEW gone \in SUBSET Expired(want[w]), Goto(w, "use"),
             closeSessions(gone, want[w], idle \ (gone \cup {s}))
      PROVE  \E stay \in SUBSET (idle \ gone), l \in {"use", "key"} :
                Goto(w, l) /\ closeSessions(gone, want[w], stay)
  <2>1. idle \ (gone \cup {s}) \in SUBSET (idle \ gone)
    OBVIOUS
  <2> QED BY Zenon, <1>1, <2>1
<1>2. Expired(want[w]) \in SUBSET IdleOf(want[w])
  BY DEF Expired
<1>3. ASSUME Goto(w, "key"), closeSessions(Expired(want[w]), want[w], idle \ Expired(want[w]))
      PROVE  \E gone \in SUBSET IdleOf(want[w]) : \E stay \in SUBSET (idle \ gone), l \in {"use", "key"} :
                Goto(w, l) /\ closeSessions(gone, want[w], stay)
  <2>1. idle \ Expired(want[w]) \in SUBSET (idle \ Expired(want[w]))
    OBVIOUS
  <2> QED BY Zenon, <1>2, <1>3, <2>1
<1>4. CASE \E s \in Usable(want[w]), gone \in SUBSET Expired(want[w]) :
             Goto(w, "use") /\ closeSessions(gone, want[w], idle \ (gone \cup {s}))
  <2>1. PICK s \in Usable(want[w]), gone \in SUBSET Expired(want[w]) :
             Goto(w, "use") /\ closeSessions(gone, want[w], idle \ (gone \cup {s}))
    BY ZenonT(40), <1>4
  <2>2. gone \in SUBSET IdleOf(want[w])
    BY <1>2
  <2>3. \E stay \in SUBSET (idle \ gone), l \in {"use", "key"} :
             Goto(w, l) /\ closeSessions(gone, want[w], stay)
    BY <1>1, <2>1
  <2> QED BY Zenon, <2>2, <2>3
<1> QED BY Zenon, <1>3, <1>4 DEF Look

LEMMA SlotsLook ==
    ASSUME UseInv, SlotsExact, NEW w \in Workers, Look(w)
    PROVE  SlotsExact'
<1>0. want[w] \in Keys /\ pc[w] = "look" /\ pc[w] \notin TakingLabels
  BY DEF UseInv, Look, TakingLabels
<1>1. CASE Leave(w) /\ UNCHANGED <<pool, keySlots, total>>
  <2>1. Moves(w, "free") /\ skey' = skey
    BY <1>1 DEF Moves, Leave, pool, UseInv, Shape
  <2>2. Pays(w, "free")
    BY SMTT(40), <1>0, <1>1 DEF Pays, TakingLabels, Bit, UseInv, Shape
  <2> QED BY <2>1, <2>2, SlotsMove
<1>2. ASSUME NEW gone \in SUBSET IdleOf(want[w]), NEW stay, NEW l \in {"use", "key"}, Goto(w, l),
             closeSessions(gone, want[w], stay)
      PROVE  SlotsExact'
  <2>1. gone \in SUBSET open /\ \A s \in gone : skey[s] = want[w]
    BY DEF IdleOf, UseInv, Shape
  <2>2. Moves(w, l) /\ l \notin TakingLabels
    BY SMTT(40), <1>2 DEF Moves, Goto, TakingLabels
  <2> QED BY SMTT(40), <1>0, <1>2, <2>1, <2>2, SlotsClose
<1> QED BY <1>1, <1>2, LookEffect

LEMMA SlotsPut ==
    ASSUME UseInv, SlotsExact, NEW w \in Workers, NEW reusable \in BOOLEAN, put(w, reusable)
    PROVE  SlotsExact'
<1>1. pc[w] = "use" /\ sess[w] \in open /\ skey[sess[w]] \in Keys /\ Moves(w, "free")
  BY SMTT(40), PoolAssumption DEF put, Leave, UseInv, Shape, open, Moves
<1>2. CASE closeSessions({sess[w]}, skey[sess[w]], idle)
  <2>1. "free" \notin TakingLabels /\ pc[w] \notin TakingLabels /\ {sess[w]} \in SUBSET open
    BY SMTT(40), <1>1 DEF TakingLabels
  <2> QED BY SMTT(40), <1>1, <1>2, <2>1, SlotsClose
<1>3. CASE UNCHANGED <<skey, old, stale, keySlots, total>>
  <2>1. Pays(w, "free")
    BY <1>1, <1>3 DEF Pays, TakingLabels, Bit, UseInv, Shape
  <2> QED BY SMTT(40), <1>1, <1>3, <2>1, SlotsMove
<1> QED BY SMTT(40), <1>2, <1>3 DEF put

LEMMA SlotStep ==
    ASSUME UseInv, SlotsExact, [Next]_vars
    PROVE  SlotsExact'
<1>0. keySlots \in [Keys -> Int] /\ total \in Int /\ want \in [Workers -> Keys \cup {None}]
      /\ \A w \in Workers : pc[w] # "free" => want[w] \in Keys
  BY DEF UseInv, Shape
<1>1. ASSUME NEW w \in Workers, NEW k \in Keys, Get(w, k) PROVE SlotsExact'
  <2>1. Moves(w, "look") /\ skey' = skey
    BY <1>0, <1>1 DEF Get, Moves, pool
  <2>2. Pays(w, "look")
    BY <1>0, <1>1 DEF Get, Pays, TakingLabels, Bit
  <2> QED BY <2>1, <2>2, SlotsMove
<1>2. ASSUME NEW w \in Workers, TakeKeySlot(w) PROVE SlotsExact'
  <2>1. CASE keySlots[want[w]] < MaxConnectionsKey
    <3>1. Moves(w, "total") /\ skey' = skey
      BY <1>2, <2>1 DEF TakeKeySlot, Moves, pool, Goto
    <3>2. Pays(w, "total")
      BY <1>0, <1>2, <2>1 DEF TakeKeySlot, Pays, TakingLabels, Bit, Goto
    <3> QED BY <3>1, <3>2, SlotsMove
  <2>2. CASE ~(keySlots[want[w]] < MaxConnectionsKey)
    <3>1. Moves(w, "wait") /\ skey' = skey
      BY <1>2, <2>2 DEF TakeKeySlot, Moves, pool, Goto
    <3>2. Pays(w, "wait")
      BY <1>0, <1>2, <2>2 DEF TakeKeySlot, Pays, TakingLabels, Bit, Goto
    <3> QED BY <3>1, <3>2, SlotsMove
  <2> QED BY <2>1, <2>2
<1>3. ASSUME NEW w \in Workers, TakeTotal(w) PROVE SlotsExact'
  <2>1. CASE total < MaxConnections
    <3>1. Moves(w, "dial") /\ skey' = skey
      BY <1>3, <2>1 DEF TakeTotal, Moves, pool, Goto
    <3>2. Pays(w, "dial")
      BY SMTT(40), <1>0, <1>3, <2>1 DEF TakeTotal, Pays, TakingLabels, Bit, Goto
    <3> QED BY SMTT(40), <3>1, <3>2, SlotsMove
  <2>2. CASE ~(total < MaxConnections)
    <3>1. Moves(w, "wait") /\ skey' = skey
      BY <1>3, <2>2 DEF TakeTotal, Moves, pool, Goto
    <3>2. Pays(w, "wait")
      BY <1>0, <1>3, <2>2 DEF TakeTotal, Pays, TakingLabels, Bit, Goto
    <3> QED BY <3>1, <3>2, SlotsMove
  <2> QED BY <2>1, <2>2
<1>4. ASSUME NEW w \in Workers, DialFailed(w) PROVE SlotsExact'
  <2>1. Moves(w, "undo") /\ skey' = skey
    BY <1>0, <1>4 DEF DialFailed, Goto, Moves, pool
  <2>2. Pays(w, "undo")
    BY <1>0, <1>4 DEF DialFailed, Goto, Pays, TakingLabels, Bit
  <2> QED BY <2>1, <2>2, SlotsMove
<1>5. ASSUME NEW w \in Workers, Undo(w) PROVE SlotsExact'
  <2>1. Moves(w, "free") /\ skey' = skey
    BY <1>0, <1>5 DEF Undo, Leave, Moves, pool
  <2>2. Pays(w, "free")
    BY <1>0, <1>5 DEF Undo, Leave, Pays, TakingLabels, Bit
  <2> QED BY <2>1, <2>2, SlotsMove
<1>6. ASSUME NEW w \in Workers, Wake(w) PROVE SlotsExact'
  <2>1. Moves(w, "look") /\ skey' = skey
    BY <1>0, <1>6 DEF Wake, Goto, Moves, pool
  <2>2. Pays(w, "look")
    BY <1>0, <1>6 DEF Wake, Goto, Pays, TakingLabels, Bit
  <2> QED BY <2>1, <2>2, SlotsMove
<1>7. ASSUME NEW w \in Workers, Cancel(w) PROVE SlotsExact'
  <2>1. Moves(w, "free") /\ skey' = skey
    BY <1>0, <1>7 DEF Cancel, Leave, Moves, pool
  <2>2. Pays(w, "free")
    BY <1>0, <1>7 DEF Cancel, Leave, Pays, TakingLabels, Bit
  <2> QED BY <2>1, <2>2, SlotsMove
<1>8. CASE UNCHANGED <<pc, want, skey, keySlots, total>>
  BY <1>8 DEF SlotsExact, open, OpenOf, At, AtFor
<1>9. (\E s \in Sessions : Age(s)) \/ UNCHANGED vars => UNCHANGED <<pc, want, skey, keySlots, total>>
  BY DEF Age, vars
<1> QED BY SMTT(40), <1>1, <1>2, <1>3, <1>4, <1>5, <1>6, <1>7, <1>8, <1>9,
           SlotsLook, SlotsPut, SlotsDialed, SlotsCloseAll DEF Next, Step

-----------------------------------------------------------------------------
(* The slots taken and the idle sessions stay within their limits. *)
LimitInv ==
    /\ total <= MaxConnections /\ \A k \in Keys : keySlots[k] <= MaxConnectionsKey
    /\ Cardinality(idle) <= MaxIdle /\ \A k \in Keys : Cardinality(IdleOf(k)) <= MaxIdleKey

(* The idle sessions become fewer. *)
LEMMA FewerIdle ==
    ASSUME UseInv, LimitInv, idle' \subseteq idle, \A s \in idle' : skey'[s] = skey[s]
    PROVE  Cardinality(idle') <= MaxIdle /\ \A k \in Keys : Cardinality(IdleOf(k)') <= MaxIdleKey
<1>1. \A S, T \in SUBSET Sessions : S \subseteq T => Cardinality(S) <= Cardinality(T)
  <2>1. ASSUME NEW S \in SUBSET Sessions, NEW T \in SUBSET Sessions, S \subseteq T
        PROVE  Cardinality(S) <= Cardinality(T)
    BY <2>1, SessionSets, FS_Subset
  <2> QED BY <2>1
<1>2. \A k \in Keys : IdleOf(k)' \subseteq IdleOf(k)
  BY DEF IdleOf
<1>3. \A S \in SUBSET Sessions : Cardinality(S) \in Nat
  BY SessionSets
<1>4. idle \subseteq Sessions /\ \A k \in Keys : IdleOf(k) \subseteq Sessions
  BY SessionSets
<1>5. Cardinality(idle') <= Cardinality(idle)
      /\ \A k \in Keys : Cardinality(IdleOf(k)') <= Cardinality(IdleOf(k))
  BY <1>1, <1>2, <1>4
<1>6. idle' \subseteq Sessions /\ \A k \in Keys : IdleOf(k)' \subseteq Sessions
  BY <1>2, <1>4
<1> QED BY <1>3, <1>4, <1>5, <1>6, PoolAssumption DEF LimitInv

LEMMA LimitClose ==
    ASSUME UseInv, LimitInv, NEW gone \in SUBSET open, NEW k0 \in Keys,
           NEW stay \in SUBSET (idle \ gone), closeSessions(gone, k0, stay)
    PROVE  LimitInv'
<1>1. Forget(gone) /\ idle' = stay /\ total' = total - Cardinality(gone)
      /\ keySlots' = [keySlots EXCEPT ![k0] = @ - Cardinality(gone)]
  BY DEF closeSessions
<1>2. Cardinality(gone) \in Nat
  BY SessionSets
<1>3. total' <= MaxConnections /\ \A k \in Keys : keySlots'[k] <= MaxConnectionsKey
  BY SMTT(40), <1>1, <1>2, PoolAssumption DEF LimitInv, UseInv, Shape
<1>4. \A s \in idle' : skey'[s] = skey[s]
  BY SMTT(40), <1>1, ForgetEffect, SessionSets
<1> QED BY <1>1, <1>3, <1>4, FewerIdle DEF LimitInv

LEMMA LimitPut ==
    ASSUME UseInv, LimitInv, NEW w \in Workers, NEW reusable \in BOOLEAN, put(w, reusable)
    PROVE  LimitInv'
<1> DEFINE s == sess[w]
<1>1. s \in open /\ s \notin idle /\ skey[s] \in Keys
  <2>1. pc[w] = "use"
    BY DEF put
  <2>2. s \in Sessions /\ skey[s] = want[w] /\ s \notin idle /\ want[w] \in Keys
    BY <2>1 DEF UseInv
  <2> QED BY <2>2, PoolAssumption DEF open
<1>2. CASE closeSessions({s}, skey[s], idle)
  <2>1. {s} \in SUBSET open /\ idle \in SUBSET (idle \ {s})
    BY SMTT(40), <1>1
  <2> HIDE DEF s
  <2> QED BY SMTT(40), <1>1, <1>2, <2>1, LimitClose
<1>3. CASE ~discard(s, reusable) /\ idle' = idle \cup {s} /\ UNCHANGED <<skey, old, stale, keySlots, total>>
  <2>1. ~(Cardinality(IdleOf(skey[s])) >= MaxIdleKey) /\ ~(Cardinality(idle) >= MaxIdle)
    BY SMTT(40), <1>3 DEF discard, full
  <2>2. Cardinality(idle') = Cardinality(idle) + 1 /\ Cardinality(idle) \in Nat
    <3>1. idle' \ {s} = idle \ {s} /\ s \in idle' /\ IsFiniteSet(idle)
      BY SMTT(40), <1>3, SessionSets
    <3> QED BY <1>1, <3>1, OneMoves DEF Bit
  <2>3. ASSUME NEW k \in Keys
        PROVE  /\ Cardinality(IdleOf(k)') = Cardinality(IdleOf(k)) + Bit(skey[s] = k)
               /\ Cardinality(IdleOf(k)) \in Nat
    <3>1. /\ IdleOf(k)' \ {s} = IdleOf(k) \ {s} /\ IsFiniteSet(IdleOf(k))
          /\ s \in IdleOf(k)' <=> skey[s] = k
          /\ s \notin IdleOf(k)
      BY <1>1, <1>3, SessionSets DEF IdleOf
    <3> QED BY SMTT(40), <3>1, OneMoves DEF Bit
  <2>4. Cardinality(idle') <= MaxIdle
    BY SMTT(40), <2>1, <2>2, PoolAssumption
  <2>5. \A k \in Keys : Cardinality(IdleOf(k)') <= MaxIdleKey
    BY <2>1, <2>3, PoolAssumption DEF LimitInv, Bit
  <2> QED BY SMTT(40), <1>3, <2>4, <2>5 DEF LimitInv
<1> QED BY ZenonT(40), <1>2, <1>3 DEF put

LEMMA LimitStep ==
    ASSUME UseInv, LimitInv, [Next]_vars
    PROVE  LimitInv'
<1>0. keySlots \in [Keys -> Int] /\ total \in Int
      /\ \A w \in Workers : pc[w] # "free" => want[w] \in Keys
  BY SMTT(40) DEF UseInv, Shape
<1>1. CASE UNCHANGED <<idle, skey, keySlots, total>>
  BY <1>1 DEF LimitInv, IdleOf
<1>2. ASSUME NEW w \in Workers, TakeKeySlot(w) \/ TakeTotal(w) PROVE LimitInv'
  <2>1. UNCHANGED <<idle, skey>>
    BY SMTT(40), <1>2 DEF TakeKeySlot, TakeTotal, pool
  <2>2. total' <= MaxConnections /\ \A k \in Keys : keySlots'[k] <= MaxConnectionsKey
    BY <1>0, <1>2, PoolAssumption DEF LimitInv, TakeKeySlot, TakeTotal
  <2> QED BY SMTT(40), <2>1, <2>2 DEF LimitInv, IdleOf
<1>3. ASSUME NEW w \in Workers, DialFailed(w) \/ Undo(w) PROVE LimitInv'
  <2>1. UNCHANGED <<idle, skey>>
    BY <1>3 DEF DialFailed, Undo, pool
  <2>2. total' <= MaxConnections /\ \A k \in Keys : keySlots'[k] <= MaxConnectionsKey
    BY <1>0, <1>3, PoolAssumption DEF LimitInv, DialFailed, Undo
  <2> QED BY <2>1, <2>2 DEF LimitInv, IdleOf
<1>4. ASSUME NEW w \in Workers, Dialed(w) PROVE LimitInv'
  <2>1. PICK s \in Sessions \ open : skey' = [skey EXCEPT ![s] = want[w]]
    BY ZenonT(40), <1>4 DEF Dialed
  <2>2. idle' = idle /\ UNCHANGED <<keySlots, total>>
    BY <1>4 DEF Dialed
  <2>3. \A t \in idle' : skey'[t] = skey[t]
    BY <2>1, <2>2 DEF UseInv, Shape, open
  <2> QED BY <2>2, <2>3, FewerIdle DEF LimitInv
<1>5. CASE Close
  <2>1. idle' = {} /\ total' = total - Cardinality(idle)
        /\ \A k \in Keys : keySlots'[k] = keySlots[k] - Cardinality(IdleOf(k))
    BY <1>5 DEF Close
  <2>2. Cardinality(idle) \in Nat /\ \A k \in Keys : Cardinality(IdleOf(k)) \in Nat
    BY SessionSets
  <2>3. total' <= MaxConnections /\ \A k \in Keys : keySlots'[k] <= MaxConnectionsKey
    BY <1>0, <2>1, <2>2, PoolAssumption DEF LimitInv
  <2> QED BY <2>1, <2>3, FewerIdle DEF LimitInv
<1>6. ASSUME NEW w \in Workers, Look(w) PROVE LimitInv'
  <2>1. ASSUME NEW gone \in SUBSET IdleOf(want[w]), NEW stay \in SUBSET (idle \ gone),
               closeSessions(gone, want[w], stay)
        PROVE  LimitInv'
    <3>1. gone \in SUBSET open /\ want[w] \in Keys
      BY <1>0, <1>6 DEF IdleOf, UseInv, Shape, Look
    <3> QED BY SMTT(40), <2>1, <3>1, LimitClose
  <2>2. CASE UNCHANGED <<pool, keySlots, total>>
    BY SMTT(40), <1>1, <2>2 DEF pool
  <2> QED BY <1>6, <2>1, <2>2, LookEffect
<1>7. (\E w \in Workers : Wake(w) \/ Cancel(w) \/ \E k \in Keys : Get(w, k))
        \/ (\E s \in Sessions : Age(s)) \/ UNCHANGED vars
      => UNCHANGED <<idle, skey, keySlots, total>>
  BY DEF Wake, Cancel, Get, Age, vars, pool
<1> QED BY SMTT(40), <1>1, <1>2, <1>3, <1>4, <1>5, <1>6, <1>7, LimitPut DEF Next, Step

-----------------------------------------------------------------------------
LEMMA PoolInvariant == Spec => [](UseInv /\ SlotsExact /\ LimitInv)
<1>1. Init => UseInv /\ SlotsExact /\ LimitInv
  <2> SUFFICES ASSUME Init PROVE UseInv /\ SlotsExact /\ LimitInv
    OBVIOUS
  <2>1. open = {} /\ At({"dial"}) = {} /\ idle = {}
        /\ \A k \in Keys : OpenOf(k) = {} /\ IdleOf(k) = {} /\ AtFor({"total", "dial", "undo"}, k) = {}
    BY DEF Init, open, At, AtFor, OpenOf, IdleOf
  <2>2. Cardinality({}) = 0
    BY FS_EmptySet
  <2>3. UseInv
    <3>1. Shape /\ NothingKept
      <4>1. pc \in [Workers -> Labels] /\ want \in [Workers -> Keys \cup {None}]
            /\ sess \in [Workers -> Sessions \cup {None}]
        BY DEF Init, Labels
      <4>2. skey \in [Sessions -> Keys \cup {None}] /\ deliveries \in [Sessions -> Nat]
        BY DEF Init
      <4>3. keySlots \in [Keys -> Int] /\ total \in Int
        BY DEF Init
      <4>4. changed \in BOOLEAN /\ closed \in BOOLEAN /\ NothingKept
        BY Zenon DEF Init, NothingKept
      <4>5. idle \subseteq open /\ old \subseteq open /\ stale \subseteq idle
        BY Zenon DEF Init
      <4> QED BY Zenon, <4>1, <4>2, <4>3, <4>4, <4>5 DEF Shape
    <3>2. \A w \in Workers : pc[w] = "free"
      BY DEF Init
    <3>3. \A s \in Sessions : deliveries[s] < MaxDeliveries
      BY PoolAssumption DEF Init
    <3> QED BY <3>1, <3>2, <3>3 DEF UseInv
  <2>4. SlotsExact
    <3>1. total = Cardinality(open) + Cardinality(At({"dial"}))
      BY <2>1, <2>2 DEF Init
    <3>2. \A k \in Keys : keySlots[k] = 0
      BY DEF Init
    <3>3. \A k \in Keys : keySlots[k] = Cardinality(OpenOf(k)) + Cardinality(AtFor({"total", "dial", "undo"}, k))
      BY <2>1, <2>2, <3>2
    <3> QED BY <3>1, <3>3 DEF SlotsExact
  <2>5. LimitInv
    BY <2>1, <2>2, PoolAssumption DEF Init, LimitInv
  <2> QED BY <2>3, <2>4, <2>5
<1>2. UseInv /\ SlotsExact /\ LimitInv /\ [Next]_vars => (UseInv /\ SlotsExact /\ LimitInv)'
  BY UseStep, SlotStep, LimitStep
<1> QED BY <1>1, <1>2, PTL DEF Spec

(* The pool's state has its type; the counts never go below zero. *)
THEOREM PoolTypeCorrect == Spec => []TypeOK
<1>1. UseInv /\ SlotsExact => TypeOK
  <2> SUFFICES ASSUME UseInv, SlotsExact PROVE TypeOK
    OBVIOUS
  <2>1. \A S \in SUBSET Workers : IsFiniteSet(S)
    BY PoolAssumption, FS_Subset
  <2>2. \A S \in SUBSET Workers : Cardinality(S) \in Nat
    BY <2>1, FS_CardinalityType
  <2>3. Cardinality(At({"dial"})) \in Nat
        /\ \A k \in Keys : Cardinality(AtFor({"total", "dial", "undo"}, k)) \in Nat
    BY <2>2 DEF At, AtFor
  <2>4. Cardinality(open) \in Nat /\ \A k \in Keys : Cardinality(OpenOf(k)) \in Nat
    BY SessionSets
  <2>5. total \in Nat /\ \A k \in Keys : keySlots[k] \in Nat
    BY <2>3, <2>4 DEF SlotsExact
  <2> QED BY <2>5 DEF TypeOK, UseInv, Shape, Labels
<1> QED BY <1>1, PoolInvariant, PTL

(* No slot leaks and none is freed twice, whatever dials fail, sessions      *)
(* expire and goroutines give up, also while the pool is closed.             *)
THEOREM NoSlotLeaks == Spec => []SlotsExact
BY PoolInvariant, PTL

(* max_connections, max_connections_per_key, max_idle, max_idle_per_key.     *)
THEOREM PoolWithinLimits == Spec => []WithinLimits
<1>1. UseInv /\ SlotsExact /\ LimitInv => WithinLimits
  <2> SUFFICES ASSUME UseInv, SlotsExact, LimitInv PROVE WithinLimits
    OBVIOUS
  <2>1. \A S \in SUBSET Workers : IsFiniteSet(S)
    BY PoolAssumption, FS_Subset
  <2>2. \A S \in SUBSET Workers : Cardinality(S) \in Nat
    BY <2>1, FS_CardinalityType
  <2>3. Cardinality(At({"dial"})) \in Nat
        /\ \A k \in Keys : Cardinality(AtFor({"total", "dial", "undo"}, k)) \in Nat
    BY <2>2 DEF At, AtFor
  <2>4. Cardinality(open) \in Nat /\ \A k \in Keys : Cardinality(OpenOf(k)) \in Nat
    BY SessionSets
  <2>5. Cardinality(open) <= MaxConnections
    BY SMTT(40), <2>3, <2>4, PoolAssumption DEF SlotsExact, LimitInv
  <2>6. \A k \in Keys : Cardinality(OpenOf(k)) <= MaxConnectionsKey
    BY <2>3, <2>4, PoolAssumption DEF SlotsExact, LimitInv
  <2> QED BY <2>5, <2>6 DEF WithinLimits, LimitInv
<1> QED BY <1>1, PoolInvariant, PTL

(* A session is used by one goroutine, which asked for its key. *)
THEOREM SessionHasOneUser == Spec => []OneUser
<1>1. UseInv => OneUser
  BY SMTT(40), PoolAssumption DEF UseInv, OneUser, At, open
<1> QED BY <1>1, PoolInvariant, PTL

(* A closed pool keeps no idle session. *)
THEOREM ClosedPoolIsEmpty == Spec => []NothingKept
<1>1. UseInv => NothingKept
  BY DEF UseInv
<1> QED BY <1>1, PoolInvariant, PTL
=============================================================================
