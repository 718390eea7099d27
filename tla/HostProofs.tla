----------------------------- MODULE HostProofs -----------------------------
(***************************************************************************)
(* The state that ExternHost keeps in memory agrees with the node's, for   *)
(* any values and any nesting of calls that come back to the contract: the *)
(* flat value always, the box until the contract calls out with the box    *)
(* modified in memory.                                                     *)
(***************************************************************************)
EXTENDS Host, SequenceTheorems, TLAPS

-----------------------------------------------------------------------------
(* The inductive invariant, part by part *)

(* The node's state, as a callee finds it *)
Now == [root |-> root, entry |-> entry, logical |-> logical]

(* The node's state when the function at n ran last: what a failing callee *)
(* goes back to.                                                           *)
Found(s, n, now) == IF n = Len(s) THEN now ELSE s[n + 1].saved

(* The flat value of activation a, and until a call with a modified box    *)
(* its box, are those last assigned, in memory or in the node's state;     *)
(* only a modified box is ahead of its entry.                              *)
Views(a, node) ==
    /\ a.flat = node.logical.flat
    /\ ~node.logical.exposed =>
         /\ (IF a.box.loaded THEN a.box.value ELSE node.entry) = node.logical.box
         /\ ~a.box.modified => node.entry = node.logical.box

(* The node has what was assigned. *)
Settled(node) ==
    /\ node.root = node.logical.flat
    /\ ~node.logical.exposed => node.entry = node.logical.box

(* A readonly function leaves the node as it found it; what was exposed    *)
(* when a function started stays so while it runs.                         *)
ActivationOK(a, node) ==
    /\ Views(a, node)
    /\ Settled(a.saved)
    /\ a.saved.logical.exposed => node.logical.exposed
    /\ a.readonly => node = a.saved /\ ~a.box.modified /\ a.call # "raw"

(* A function that waits for a call with a modified box is exposed. *)
StackOK(s, now) ==
    /\ s \in Seq(ActivationType) /\ Len(s) <= MaxDepth
    /\ \A n \in 1 .. Len(s) :
         /\ ActivationOK(s[n], Found(s, n, now))
         /\ s[n].call = "none" <=> n = Len(s)
         /\ n # Len(s) => (s[n].box.modified => Found(s, n, now).logical.exposed)

HostInv ==
    /\ root \in Values /\ entry \in Values /\ logical \in Logical
    /\ trapped \in BOOLEAN
    /\ TrappedByExposed
    /\ StoredAtEnd
    /\ StackOK(stack, Now)

-----------------------------------------------------------------------------
(* Stacks *)

(* The stack is cut to some height, and the function that is then on top    *)
(* runs, in a node's state that suits it.                                   *)
LEMMA TopRuns ==
    ASSUME NEW s, NEW now, StackOK(s, now),
           NEW t \in Seq(ActivationType), t # <<>>, Len(t) <= Len(s),
           \A n \in 1 .. (Len(t) - 1) : t[n] = s[n],
           t[Len(t)].saved = s[Len(t)].saved,
           t[Len(t)].call = "none",
           NEW node, ActivationOK(t[Len(t)], node)
    PROVE  StackOK(t, node)
<1> DEFINE L == Len(s)
           K == Len(t)
<1>1. L \in Nat /\ K \in Nat \ {0} /\ K <= L /\ K <= MaxDepth
  BY EmptySeq, LenProperties, HostAssumption DEF StackOK
<1>2. \A n \in 1 .. L : /\ ActivationOK(s[n], Found(s, n, now))
                        /\ s[n].call = "none" <=> n = L
                        /\ n # L => (s[n].box.modified => Found(s, n, now).logical.exposed)
  BY DEF StackOK
<1>3. t[K].saved = s[K].saved /\ t[K].call = "none" /\ ActivationOK(t[K], node)
      /\ \A n \in 1 .. (K - 1) : t[n] = s[n]
  OBVIOUS
<1>4. ASSUME NEW n \in 1 .. K
      PROVE  /\ ActivationOK(t[n], Found(t, n, node))
             /\ t[n].call = "none" <=> n = Len(t)
             /\ n # Len(t) => (t[n].box.modified => Found(t, n, node).logical.exposed)
  <2>1. CASE n = K
    BY <1>3, <2>1 DEF Found
  <2>2. CASE n # K
    <3> HIDE DEF L, K
    <3>1. n \in 1 .. (K - 1) /\ n \in 1 .. L /\ n # L
      BY <1>1, <1>4, <2>2
    <3>2. t[n + 1].saved = s[n + 1].saved
      <4>1. CASE n + 1 = K
        BY <1>3, <4>1
      <4>2. CASE n + 1 # K
        <5>1. n + 1 \in 1 .. (K - 1)
          BY <1>1, <3>1, <4>2
        <5> QED
          BY <1>3, <5>1
      <4> QED
        BY <4>1, <4>2
    <3>3. Found(t, n, node) = Found(s, n, now)
      BY <2>2, <3>1, <3>2 DEF Found, K, L
    <3>4. /\ ActivationOK(s[n], Found(s, n, now))
          /\ s[n].call # "none"
          /\ s[n].box.modified => Found(s, n, now).logical.exposed
      BY <1>2, <3>1
    <3> QED
      BY <1>3, <2>2, <3>1, <3>3, <3>4 DEF K
  <2> QED
    BY <2>1, <2>2
<1> QED
  BY <1>1, <1>4 DEF StackOK

(* A function waits for a call, and the callee runs.                        *)
LEMMA CalleeRuns ==
    ASSUME NEW s, NEW now, StackOK(s, now), s # <<>>, Len(s) < MaxDepth,
           NEW a \in ActivationType, NEW b \in ActivationType,
           a.saved = s[Len(s)].saved, a.call # "none",
           a.box.modified => b.saved.logical.exposed,
           ActivationOK(a, b.saved),
           b.call = "none",
           NEW node, ActivationOK(b, node)
    PROVE  StackOK(Append([s EXCEPT ![Len(s)] = a], b), node)
<1> DEFINE L  == Len(s)
           s1 == [s EXCEPT ![L] = a]
           t  == Append(s1, b)
<1>1. s \in Seq(ActivationType) /\ L \in Nat \ {0} /\ L \in 1 .. L
  BY EmptySeq, LenProperties DEF StackOK
<1>2. /\ s1 \in Seq(ActivationType) /\ Len(s1) = L
      /\ \A j \in 1 .. L : s1[j] = IF j = L THEN a ELSE s[j]
  BY <1>1, ExceptSeq
<1> HIDE DEF s1
<1>3. /\ t \in Seq(ActivationType) /\ Len(t) = L + 1
      /\ \A j \in 1 .. L : t[j] = s1[j]
      /\ t[L + 1] = b
  BY <1>1, <1>2, AppendProperties
<1>4. \A n \in 1 .. L : /\ ActivationOK(s[n], Found(s, n, now))
                        /\ s[n].call = "none" <=> n = L
                        /\ n # L => (s[n].box.modified => Found(s, n, now).logical.exposed)
  BY DEF StackOK
<1>5. a.saved = s[L].saved
  OBVIOUS
<1> HIDE DEF t, L
<1>6. /\ \A n \in 1 .. L : n # L => t[n] = s[n]
      /\ t[L] = a /\ t[L].saved = s[L].saved
  BY <1>1, <1>2, <1>3, <1>5
<1>7. ASSUME NEW n \in 1 .. Len(t)
      PROVE  /\ ActivationOK(t[n], Found(t, n, node))
             /\ t[n].call = "none" <=> n = Len(t)
             /\ n # Len(t) => (t[n].box.modified => Found(t, n, node).logical.exposed)
  <2>1. CASE n = L + 1
    BY <1>3, <2>1 DEF Found
  <2>2. CASE n = L
    <3>1. n # Len(t) /\ Found(t, n, node) = b.saved
      BY <1>1, <1>3, <2>2 DEF Found
    <3> QED
      BY <1>6, <2>2, <3>1
  <2>3. CASE n # L /\ n # L + 1
    <3>1. n \in 1 .. L /\ n # L /\ n # Len(t) /\ n + 1 \in 1 .. L
      BY <1>1, <1>3, <2>3
    <3>2. t[n + 1].saved = s[n + 1].saved
      BY <1>6, <3>1
    <3>3. Found(t, n, node) = Found(s, n, now)
      BY <3>1, <3>2 DEF Found, L
    <3> QED
      BY <1>4, <1>6, <3>1, <3>3
  <2> QED
    BY <2>1, <2>2, <2>3
<1>8. Len(t) <= MaxDepth
  <2>1. L < MaxDepth /\ MaxDepth \in Nat
    BY HostAssumption DEF L
  <2> QED
    BY <1>1, <1>3, <2>1
<1> QED
  BY <1>3, <1>7, <1>8 DEF StackOK, t, s1, L

(* The running function, and what it knows *)
LEMMA TopFacts ==
    ASSUME HostInv, stack # <<>>
    PROVE  /\ stack \in Seq(ActivationType)
           /\ Len(stack) \in Nat \ {0}
           /\ Top = stack[Len(stack)]
           /\ Top \in ActivationType
           /\ Top.call = "none"
           /\ ActivationOK(Top, Now)
<1>1. stack \in Seq(ActivationType)
  BY DEF HostInv, StackOK
<1>2. Len(stack) \in Nat \ {0} /\ Len(stack) \in 1 .. Len(stack)
  BY <1>1, EmptySeq, LenProperties
<1>3. Top = stack[Len(stack)]
  BY DEF Top, Last
<1>4. Top \in ActivationType
  BY <1>1, <1>2, <1>3, ElementOfSeq
<1> QED
  BY <1>1, <1>2, <1>3, <1>4 DEF HostInv, StackOK, Found

(* The function that waits for the running one: the node's state that it   *)
(* knows is what the running one found.                                    *)
LEMMA CallerFacts ==
    ASSUME HostInv, stack # <<>>, Len(stack) > 1
    PROVE  /\ Caller \in ActivationType
           /\ Caller.box.modified => Top.saved.logical.exposed
           /\ ActivationOK(Caller, Top.saved)
<1> DEFINE L == Len(stack)
<1>1. stack \in Seq(ActivationType) /\ L \in Nat /\ L > 1 /\ Top = stack[L]
  BY TopFacts
<1>2. \A n \in 1 .. L : /\ ActivationOK(stack[n], Found(stack, n, Now))
                        /\ n # L => (stack[n].box.modified
                                     => Found(stack, n, Now).logical.exposed)
  BY DEF HostInv, StackOK
<1> HIDE DEF L
<1>3. L - 1 \in 1 .. L /\ L - 1 # L /\ (L - 1) + 1 = L
  BY <1>1
<1>4. Caller = stack[L - 1] /\ Found(stack, L - 1, Now) = Top.saved
  BY <1>1, <1>3 DEF Caller, Found, L
<1>5. stack[L - 1] \in ActivationType
  BY <1>1, <1>3, ElementOfSeq DEF L
<1> QED
  BY <1>2, <1>3, <1>4, <1>5

-----------------------------------------------------------------------------
(* The steps of the running function *)

(* The running function goes on, as a, with the node's state changed. *)
LEMMA TopGoesOn ==
    ASSUME HostInv, Running, NEW a \in ActivationType, stack' = WithTop(a),
           a.saved = Top.saved, a.call = "none", ActivationOK(a, Now'),
           root' \in Values, entry' \in Values, logical' \in Logical, trapped' = trapped
    PROVE  HostInv'
<1> DEFINE L == Len(stack)
           t == WithTop(a)
<1>1. stack \in Seq(ActivationType) /\ L \in Nat \ {0} /\ Top = stack[L] /\ L \in 1 .. L
  BY TopFacts DEF Running
<1>2. /\ t \in Seq(ActivationType) /\ Len(t) = L
      /\ \A j \in 1 .. L : t[j] = IF j = L THEN a ELSE stack[j]
  BY <1>1, ExceptSeq DEF WithTop
<1> HIDE DEF t, L
<1>3. t # <<>> /\ t[Len(t)] = a /\ \A n \in 1 .. (Len(t) - 1) : t[n] = stack[n]
  BY <1>1, <1>2, EmptySeq
<1>4. Len(t) <= Len(stack) /\ t[Len(t)].saved = stack[Len(t)].saved
  BY <1>1, <1>2, <1>3 DEF L
<1>5. StackOK(stack, Now)
  BY DEF HostInv
<1>6. StackOK(t, Now')
  BY <1>2, <1>3, <1>4, <1>5, TopRuns
<1>7. StackOK(stack, Now)'
  BY <1>6 DEF StackOK, Found, t
<1> QED
  BY <1>3, <1>7 DEF HostInv, StoredAtEnd, TrappedByExposed, Running, t

(* The fields of the node's state, before and after *)
LEMMA NowFields ==
    /\ Now.root = root /\ Now.entry = entry /\ Now.logical = logical
    /\ Now'.root = root' /\ Now'.entry = entry' /\ Now'.logical = logical'
  BY DEF Now

(* Boxes *)
LEMMA BoxFacts ==
    /\ Reference \in Box /\ ~Reference.loaded /\ ~Reference.modified
    /\ \A v \in Values, m \in BOOLEAN :
         /\ Loaded(v, m) \in Box
         /\ Loaded(v, m).loaded /\ Loaded(v, m).value = v /\ Loaded(v, m).modified = m
    /\ \A b \in Box : /\ b.loaded \in BOOLEAN /\ b.modified \in BOOLEAN
                      /\ b.loaded => b.value \in Values
                      /\ ~b.loaded => ~b.modified
<1>1. Reference \in Box
  BY DEF Box
<1>2. ~Reference.loaded /\ ~Reference.modified
      /\ Reference.loaded \in BOOLEAN /\ Reference.modified \in BOOLEAN
  BY DEF Reference
<1>3. \A v \in Values, m \in BOOLEAN : Loaded(v, m) \in Box
  BY DEF Box
<1>4. \A v, m : /\ Loaded(v, m).loaded = TRUE /\ Loaded(v, m).value = v
                /\ Loaded(v, m).modified = m
  BY DEF Loaded
<1>5. ASSUME NEW b \in Box
      PROVE  b = Reference \/ \E v \in Values, m \in BOOLEAN : b = Loaded(v, m)
  BY DEF Box
<1>6. ASSUME NEW b \in Box
      PROVE  /\ b.loaded \in BOOLEAN /\ b.modified \in BOOLEAN
             /\ b.loaded => b.value \in Values
             /\ ~b.loaded => ~b.modified
  <2>1. CASE b = Reference
    BY <1>2, <2>1
  <2>2. ASSUME NEW v \in Values, NEW m \in BOOLEAN, b = Loaded(v, m)
        PROVE  /\ b.loaded = TRUE /\ b.modified \in BOOLEAN /\ b.value \in Values
    BY <1>4, <2>2
  <2> QED
    BY <1>5, <2>1, <2>2
<1>7. \A v \in Values, m \in BOOLEAN :
         Loaded(v, m).loaded /\ Loaded(v, m).value = v /\ Loaded(v, m).modified = m
  BY <1>4
<1> QED
  BY <1>1, <1>2, <1>3, <1>6, <1>7

(* The flat value is assigned in memory.                                   *)
LEMMA StateMutHost == ASSUME HostInv, NEW v \in Values, state_mut(v) PROVE HostInv'
<1> DEFINE a == [Top EXCEPT !.flat = v]
           l == [logical EXCEPT !.flat = v]
<1>1. Running /\ ~Top.readonly /\ stack' = WithTop(a) /\ logical' = l
      /\ root' = root /\ entry' = entry /\ trapped' = trapped
  BY DEF state_mut, Writable
<1>2. Top \in ActivationType /\ Top.call = "none" /\ ActivationOK(Top, Now)
  BY <1>1, TopFacts DEF Running
<1>3. /\ a \in ActivationType /\ a.flat = v /\ a.box = Top.box /\ a.readonly = Top.readonly
      /\ a.call = Top.call /\ a.saved = Top.saved
  BY <1>2 DEF ActivationType
<1>4. l \in Logical /\ l.flat = v /\ l.box = logical.box /\ l.exposed = logical.exposed
  BY DEF HostInv, Logical
<1> HIDE DEF a, l
<1>5. ActivationOK(a, Now')
  BY <1>1, <1>2, <1>3, <1>4, NowFields DEF ActivationOK, Views
<1> QED
  BY <1>1, <1>2, <1>3, <1>4, <1>5, TopGoesOn DEF HostInv

(* The box is loaded from its entry.                                       *)
LEMMA BoxGetHost == ASSUME HostInv, box_get PROVE HostInv'
<1> DEFINE a == [Top EXCEPT !.box = Cached(@)]
<1>1. Running /\ stack' = WithTop(a)
      /\ root' = root /\ entry' = entry /\ trapped' = trapped /\ logical' = logical
  BY DEF box_get
<1>2. Top \in ActivationType /\ Top.call = "none" /\ ActivationOK(Top, Now)
  BY <1>1, TopFacts DEF Running
<1>3. Top.box \in Box
  BY <1>2 DEF ActivationType
<1>4. entry \in Values
  BY DEF HostInv
<1>5. /\ Cached(Top.box) \in Box /\ Cached(Top.box).loaded
      /\ Cached(Top.box).value = IF Top.box.loaded THEN Top.box.value ELSE entry
      /\ Cached(Top.box).modified => Top.box.modified
      /\ ~Cached(Top.box).modified => ~Top.box.modified
  <2>1. CASE Top.box.loaded
    BY <1>3, <2>1 DEF Cached
  <2>2. CASE ~Top.box.loaded
    <3>1. Cached(Top.box) = Loaded(entry, FALSE) /\ ~Top.box.modified
      BY <1>3, <2>2, BoxFacts DEF Cached
    <3>2. /\ Loaded(entry, FALSE) \in Box /\ Loaded(entry, FALSE).loaded
          /\ Loaded(entry, FALSE).value = entry /\ Loaded(entry, FALSE).modified = FALSE
      BY <1>4, BoxFacts
    <3> QED
      BY <2>2, <3>1, <3>2
  <2> QED
    BY <2>1, <2>2
<1>6. /\ a \in ActivationType /\ a.flat = Top.flat /\ a.box = Cached(Top.box)
      /\ a.readonly = Top.readonly /\ a.call = Top.call /\ a.saved = Top.saved
  BY <1>2, <1>5 DEF ActivationType
<1> HIDE DEF a
<1>7. Now' = Now
  BY <1>1 DEF Now
<1>8. ActivationOK(a, Now')
  BY <1>1, <1>2, <1>5, <1>6, <1>7, NowFields DEF ActivationOK, Views
<1> QED
  BY <1>1, <1>2, <1>6, <1>8, TopGoesOn DEF HostInv

(* get_mut and update of the box *)
LEMMA BoxSetHost ==
    ASSUME HostInv, NEW v \in Values, box_get_mut(v) \/ box_update(v)
    PROVE  HostInv'
<1>1. PICK m \in BOOLEAN :
        /\ stack' = WithTop([Top EXCEPT !.box = Loaded(v, m)])
        /\ ~m => entry' = v
  <2>1. CASE box_get_mut(v)
    BY <2>1 DEF box_get_mut
  <2>2. CASE box_update(v)
    <3>1. Top.box \in Box /\ entry \in Values
      BY <2>2, TopFacts DEF box_update, Writable, Running, ActivationType, HostInv
    <3>2. Cached(Top.box).modified \in BOOLEAN
      BY <3>1, BoxFacts DEF Cached
    <3>3. /\ stack' = WithTop([Top EXCEPT !.box = Loaded(v, Cached(@).modified)])
          /\ entry' = v
      BY <2>2 DEF box_update
    <3>4. stack' = WithTop([Top EXCEPT !.box = Loaded(v, Cached(Top.box).modified)])
      <4>1. Top \in ActivationType
        BY <2>2, TopFacts DEF box_update, Writable, Running
      <4> QED
        BY <3>3, <4>1 DEF ActivationType
    <3> QED
      BY <3>2, <3>3, <3>4
  <2> QED
    BY <2>1, <2>2
<1> DEFINE a == [Top EXCEPT !.box = Loaded(v, m)]
           l == [logical EXCEPT !.box = v]
<1>2. Running /\ ~Top.readonly /\ logical' = l /\ root' = root /\ trapped' = trapped
      /\ entry' \in {entry, v}
  BY DEF box_get_mut, box_update, Writable
<1>3. Top \in ActivationType /\ Top.call = "none" /\ ActivationOK(Top, Now)
  BY <1>2, TopFacts DEF Running
<1>4. /\ Loaded(v, m) \in Box
      /\ Loaded(v, m).loaded /\ Loaded(v, m).value = v /\ Loaded(v, m).modified = m
  BY BoxFacts
<1>5. /\ a \in ActivationType /\ a.flat = Top.flat /\ a.box = Loaded(v, m)
      /\ a.readonly = Top.readonly /\ a.call = Top.call /\ a.saved = Top.saved
  BY <1>3, <1>4 DEF ActivationType
<1>6. l \in Logical /\ l.flat = logical.flat /\ l.box = v /\ l.exposed = logical.exposed
  BY DEF HostInv, Logical
<1> HIDE DEF a, l
<1>7. ActivationOK(a, Now')
  BY <1>1, <1>2, <1>3, <1>4, <1>5, <1>6, NowFields DEF ActivationOK, Views
<1>8. stack' = WithTop(a)
  BY <1>1 DEF a
<1> QED
  BY <1>2, <1>3, <1>5, <1>6, <1>7, <1>8, TopGoesOn DEF HostInv

(* The flat value is written to the root entry.                            *)
LEMMA CommitHost == ASSUME HostInv, commit_state PROVE HostInv'
<1>1. Running /\ ~Top.readonly /\ root' = Top.flat /\ stack' = stack
      /\ entry' = entry /\ trapped' = trapped /\ logical' = logical
  BY DEF commit_state, Writable
<1>2. /\ Top \in ActivationType /\ Top.call = "none" /\ ActivationOK(Top, Now)
      /\ stack \in Seq(ActivationType) /\ Len(stack) \in Nat \ {0} /\ Top = stack[Len(stack)]
  BY <1>1, TopFacts DEF Running
<1>3. Top.flat \in Values
  BY <1>2 DEF ActivationType
<1>4. ActivationOK(Top, Now')
  BY <1>1, <1>2, NowFields DEF ActivationOK, Views
<1>5. stack = WithTop(Top)
  <2>1. Len(stack) \in 1 .. Len(stack)
    BY <1>2
  <2>2. stack = [n \in 1 .. Len(stack) |-> stack[n]]
    BY <1>2
  <2>3. stack = [stack EXCEPT ![Len(stack)] = stack[Len(stack)]]
    BY <2>1, <2>2
  <2> QED
    BY <1>2, <2>3 DEF WithTop
<1> QED
  BY <1>1, <1>2, <1>3, <1>4, <1>5, TopGoesOn DEF HostInv

(* A transaction starts: the node has what was assigned. *)
LEMMA ReceiveHost == ASSUME HostInv, NEW readonly \in BOOLEAN, Receive(readonly) PROVE HostInv'
<1> DEFINE a == Activation(readonly)
<1>1. stack = <<>> /\ stack' = <<a>> /\ root' = root /\ entry' = entry
      /\ trapped' = trapped /\ logical' = logical
  BY DEF Receive
<1>2. root = logical.flat /\ (~logical.exposed => entry = logical.box)
  BY <1>1 DEF HostInv, StoredAtEnd
<1>3. /\ a \in ActivationType /\ a.flat = root /\ a.box = Reference /\ a.call = "none"
      /\ a.saved = Now
  BY BoxFacts DEF Activation, ActivationType, HostInv, Now
<1>4. Now' = Now
  BY <1>1 DEF Now
<1> HIDE DEF a
<1>5. ActivationOK(a, Now)
  BY <1>2, <1>3, NowFields, BoxFacts DEF ActivationOK, Views, Settled
<1>6. /\ stack' \in Seq(ActivationType) /\ Len(stack') = 1 /\ stack'[1] = a /\ stack' # <<>>
  BY <1>1, <1>3
<1>7. StackOK(stack, Now)'
  <2>1. \A n \in 1 .. Len(stack') : n = 1
    BY <1>6
  <2>2. 1 <= MaxDepth
    BY HostAssumption
  <2>3. \A n \in 1 .. Len(stack') : /\ ActivationOK(stack'[n], Found(stack', n, Now))
                                    /\ stack'[n].call = "none" /\ n = Len(stack')
    BY <1>3, <1>5, <1>6, <2>1 DEF Found
  <2> QED
    BY <1>4, <1>6, <2>2, <2>3 DEF StackOK, Found
<1> QED
  BY <1>1, <1>6, <1>7 DEF HostInv, StoredAtEnd, TrappedByExposed

-----------------------------------------------------------------------------
(* Calls *)

(* Only a modified box makes a call expose the state. *)
LEMMA ExposedFacts ==
    ASSUME HostInv, stack # <<>>
    PROVE  /\ Exposed \in Logical
           /\ Exposed.flat = logical.flat /\ Exposed.box = logical.box
           /\ Exposed.exposed <=> logical.exposed \/ Top.box.modified
           /\ ~Top.box.modified => Exposed = logical
<1>1. logical \in Logical /\ logical.exposed \in BOOLEAN
  BY DEF HostInv, Logical
<1>2. Top.box.modified \in BOOLEAN
  BY TopFacts, BoxFacts DEF ActivationType
<1> DEFINE e == logical.exposed \/ Top.box.modified
<1>3. e \in BOOLEAN
  BY <1>1, <1>2
<1>4. ~Top.box.modified => e = logical.exposed
  BY <1>1, <1>2
<1>5. Exposed = [logical EXCEPT !.exposed = e]
  BY <1>1 DEF Exposed, Logical
<1> HIDE DEF e
<1>6. /\ Exposed \in Logical
      /\ Exposed.flat = logical.flat /\ Exposed.box = logical.box /\ Exposed.exposed = e
      /\ e = logical.exposed => Exposed = logical
  BY <1>1, <1>3, <1>5 DEF Logical
<1> QED
  BY <1>4, <1>6 DEF e

(* The running function waits with a settled state in the node, the callee *)
(* starts from it.                                                         *)
LEMMA CallHost ==
    ASSUME HostInv, Running, MayCall, NEW call \in {"raw", "read_only"},
           call = "raw" => ~Top.readonly,
           NEW b \in ActivationType, b.flat = root', b.box = Reference, b.call = "none",
           b.saved = Now',
           stack' = Append(WithTop([Top EXCEPT !.call = call]), b),
           root' = Top.flat, Top.readonly => root' = root,
           entry' = entry, trapped' = trapped, logical' = Exposed
    PROVE  HostInv'
<1> DEFINE a == [Top EXCEPT !.call = call]
<1>1. /\ Top \in ActivationType /\ Top.call = "none" /\ ActivationOK(Top, Now)
      /\ Top = stack[Len(stack)] /\ stack # <<>> /\ stack \in Seq(ActivationType)
  BY TopFacts DEF Running
<1>2. Len(stack) < MaxDepth
  BY DEF MayCall
<1>3. /\ a \in ActivationType /\ a.flat = Top.flat /\ a.box = Top.box
      /\ a.readonly = Top.readonly /\ a.call = call /\ a.saved = Top.saved
  BY <1>1 DEF ActivationType
<1>4. root' \in Values
  BY <1>1 DEF ActivationType
<1>5. /\ b \in ActivationType /\ b.flat = root' /\ b.box = Reference
      /\ b.call = "none" /\ b.saved = Now'
  OBVIOUS
<1> HIDE DEF a
<1>13. /\ logical' \in Logical /\ logical'.flat = logical.flat
       /\ logical'.box = logical.box
       /\ logical'.exposed <=> logical.exposed \/ Top.box.modified
       /\ ~Top.box.modified => logical' = logical
  BY <1>1, ExposedFacts
<1>6. Settled(Now') /\ Views(a, Now')
  BY <1>1, <1>3, <1>13, NowFields DEF Settled, Views, ActivationOK
<1>7. ActivationOK(a, Now')
  <2>1. Top.readonly => Now' = Now
    BY <1>1, <1>13 DEF Now, ActivationOK
  <2>2. a.saved.logical.exposed => Now'.logical.exposed
    BY <1>1, <1>3, <1>13, NowFields DEF ActivationOK
  <2> QED
    BY <1>1, <1>3, <1>6, <2>1, <2>2 DEF ActivationOK
<1>14. a.box.modified => b.saved.logical.exposed
  BY <1>3, <1>5, <1>13, NowFields
<1>8. ActivationOK(b, Now')
  BY <1>5, <1>6, NowFields, BoxFacts DEF ActivationOK, Views, Settled
<1>9. StackOK(stack, Now)
  BY DEF HostInv
<1>10. StackOK(Append([stack EXCEPT ![Len(stack)] = a], b), Now')
  BY <1>1, <1>2, <1>3, <1>5, <1>7, <1>8, <1>9, <1>14, CalleeRuns
<1>11. StackOK(stack, Now)'
  BY <1>10 DEF StackOK, Found, WithTop, a
<1>12. stack' # <<>>
  <2>1. Len(stack) \in 1 .. Len(stack)
    BY <1>1, EmptySeq, LenProperties
  <2>2. WithTop(a) \in Seq(ActivationType)
    BY <1>1, <1>3, <2>1, ExceptSeq DEF WithTop
  <2> HIDE DEF WithTop
  <2> QED
    BY <1>5, <2>2, AppendProperties DEF a
<1> QED
  BY <1>4, <1>11, <1>12, <1>13 DEF HostInv, StoredAtEnd, TrappedByExposed, Running

(* A callee has a reference to the box and knows the node's state.         *)
LEMMA CalleeFacts ==
    ASSUME HostInv, stack # <<>>, NEW readonly \in BOOLEAN, NEW r \in Values
    PROVE  /\ Callee(readonly, r) \in ActivationType
           /\ Callee(readonly, r).flat = r /\ Callee(readonly, r).box = Reference
           /\ Callee(readonly, r).call = "none"
           /\ Callee(readonly, r).saved = [root |-> r, entry |-> entry, logical |-> Exposed]
<1>1. /\ Activation(readonly) \in ActivationType
      /\ Activation(readonly).box = Reference /\ Activation(readonly).call = "none"
      /\ Activation(readonly).saved = [root |-> root, entry |-> entry, logical |-> logical]
  BY BoxFacts DEF Activation, ActivationType, HostInv
<1> DEFINE n == [root |-> r, entry |-> entry, logical |-> Exposed]
<1>2. n \in [root: Values, entry: Values, logical: Logical]
  BY ExposedFacts DEF HostInv
<1>3. Callee(readonly, r) = [Activation(readonly) EXCEPT !.flat = r, !.saved = n]
  BY DEF Callee
<1> HIDE DEF n
<1>4. /\ Callee(readonly, r) \in ActivationType
      /\ Callee(readonly, r).flat = r /\ Callee(readonly, r).saved = n
      /\ Callee(readonly, r).box = Reference /\ Callee(readonly, r).call = "none"
  BY <1>1, <1>2, <1>3 DEF ActivationType
<1> QED
  BY <1>4 DEF n

(* A call after the state is committed                                     *)
LEMMA InvokeHost ==
    ASSUME HostInv, NEW readonly \in BOOLEAN, invoke_contract_raw(readonly)
    PROVE  HostInv'
<1> DEFINE b == Callee(readonly, Top.flat)
<1>1. /\ Running /\ ~Top.readonly /\ MayCall /\ root' = Top.flat
      /\ stack' = Append(WithTop([Top EXCEPT !.call = "raw"]), b)
      /\ entry' = entry /\ trapped' = trapped /\ logical' = Exposed
  BY DEF invoke_contract_raw, Writable
<1>2. Top.flat \in Values
  BY <1>1, TopFacts DEF Running, ActivationType
<1>3. /\ b \in ActivationType /\ b.flat = Top.flat /\ b.box = Reference /\ b.call = "none"
      /\ b.saved = [root |-> Top.flat, entry |-> entry, logical |-> Exposed]
  BY <1>1, <1>2, CalleeFacts DEF Running
<1>4. b.saved = Now'
  BY <1>1, <1>3 DEF Now
<1> HIDE DEF b
<1> QED
  BY <1>1, <1>3, <1>4, CallHost

(* A call that may not change the state                                    *)
LEMMA InvokeReadOnlyHost ==
    ASSUME HostInv, NEW readonly \in BOOLEAN, invoke_contract_raw_read_only(readonly)
    PROVE  HostInv'
<1> DEFINE b == Callee(readonly, root)
<1>1. /\ Running /\ MayCall /\ root = Top.flat
      /\ stack' = Append(WithTop([Top EXCEPT !.call = "read_only"]), b)
      /\ root' = root /\ entry' = entry /\ trapped' = trapped /\ logical' = Exposed
  BY DEF invoke_contract_raw_read_only
<1>2. root \in Values
  BY DEF HostInv
<1>3. /\ b \in ActivationType /\ b.flat = root /\ b.box = Reference /\ b.call = "none"
      /\ b.saved = [root |-> root, entry |-> entry, logical |-> Exposed]
  BY <1>1, <1>2, CalleeFacts DEF Running
<1>4. b.saved = Now'
  BY <1>1, <1>3 DEF Now
<1> HIDE DEF b
<1> QED
  BY <1>1, <1>3, <1>4, CallHost

-----------------------------------------------------------------------------
(* Ends of functions *)

(* What a function that succeeds leaves in the node was assigned. *)
LEMMA StoredSettled ==
    ASSUME HostInv, Running
    PROVE  /\ StoredRoot = logical.flat
           /\ ~logical.exposed => StoredEntry = logical.box
           /\ StoredRoot \in Values /\ StoredEntry \in Values
<1>1. Top \in ActivationType /\ ActivationOK(Top, Now)
  BY TopFacts DEF Running
<1>2. Top.box \in Box
  BY <1>1 DEF ActivationType
<1>3. StoredRoot = logical.flat
  <2>1. CASE Top.readonly
    BY <1>1, <2>1, NowFields DEF StoredRoot, ActivationOK, Settled
  <2>2. CASE ~Top.readonly
    BY <1>1, <2>2, NowFields DEF StoredRoot, ActivationOK, Views
  <2> QED
    BY <2>1, <2>2
<1>4. StoredEntry \in Values /\ (~logical.exposed => StoredEntry = logical.box)
  <2>1. CASE Top.box.modified
    <3>1. Top.box.loaded /\ Top.box.value \in Values
      BY <1>2, <2>1, BoxFacts
    <3> QED
      BY <1>1, <2>1, <3>1, NowFields DEF StoredEntry, ActivationOK, Views
  <2>2. CASE ~Top.box.modified
    BY <1>1, <2>2, NowFields DEF StoredEntry, ActivationOK, Views, HostInv
  <2> QED
    BY <2>1, <2>2
<1>5. logical.flat \in Values
  BY DEF HostInv, Logical
<1> QED
  BY <1>3, <1>4, <1>5

(* The last function ends with a settled state in the node. *)
LEMMA EmptyHost ==
    ASSUME HostInv, stack' = <<>>, trapped' = FALSE, logical' \in Logical,
           root' = logical'.flat, entry' \in Values,
           ~logical'.exposed => entry' = logical'.box
    PROVE  HostInv'
<1>1. root' \in Values
  BY DEF Logical
<1>2. stack' \in Seq(ActivationType) /\ Len(stack') = 0
  OBVIOUS
<1>3. 0 <= MaxDepth /\ \A n \in 1 .. 0 : FALSE
  BY HostAssumption
<1>4. StackOK(stack, Now)'
  BY <1>2, <1>3 DEF StackOK
<1> QED
  BY <1>1, <1>4 DEF HostInv, StoredAtEnd, TrappedByExposed

(* The outermost function succeeds: its flat value and box are stored.     *)
LEMMA FinishHost == ASSUME HostInv, Finish PROVE HostInv'
<1>1. Running /\ root' = StoredRoot /\ entry' = StoredEntry /\ stack' = <<>>
      /\ trapped' = trapped /\ logical' = logical
  BY DEF Finish
<1> QED
  BY <1>1, StoredSettled, EmptyHost DEF HostInv, Running

(* A function below the running one goes on, as a, in a node's state that   *)
(* suits it.                                                                *)
LEMMA BelowGoesOn ==
    ASSUME HostInv, stack # <<>>, NEW d \in Nat, d >= 1, d < Len(stack),
           NEW a \in ActivationType,
           stack' = Append(SubSeq(stack, 1, d - 1), a),
           a.saved = stack[d].saved, a.call = "none", ActivationOK(a, Now'),
           root' \in Values, entry' \in Values, logical' \in Logical,
           trapped' \in BOOLEAN, TrappedByExposed'
    PROVE  HostInv'
<1> DEFINE L == Len(stack)
           s == SubSeq(stack, 1, d - 1)
           t == Append(s, a)
<1>1. stack \in Seq(ActivationType) /\ L \in Nat \ {0} /\ d < L
  BY TopFacts
<1>2. /\ s \in Seq(ActivationType) /\ Len(s) = d - 1
      /\ \A n \in 1 .. (d - 1) : s[n] = stack[n]
  <2>1. d - 1 \in Int /\ 1 \in Int /\ \A n \in 1 .. (d - 1) : stack[n] \in ActivationType
    BY <1>1, ElementOfSeq
  <2>2. /\ s \in Seq(ActivationType)
        /\ Len(s) = IF 1 <= d - 1 THEN (d - 1) - 1 + 1 ELSE 0
        /\ \A i \in 1 .. ((d - 1) - 1 + 1) : s[i] = stack[1 + i - 1]
    BY <2>1, SubSeqProperties
  <2> HIDE DEF s
  <2> QED
    BY <2>2
<1> HIDE DEF s
<1>3. /\ t \in Seq(ActivationType) /\ Len(t) = d /\ t # <<>> /\ t[d] = a
      /\ \A n \in 1 .. (d - 1) : t[n] = stack[n]
  BY <1>2, AppendProperties
<1> HIDE DEF t
<1>4. Len(t) <= Len(stack) /\ t[Len(t)] = a /\ t[Len(t)].saved = stack[Len(t)].saved
      /\ \A n \in 1 .. (Len(t) - 1) : t[n] = stack[n]
  BY <1>1, <1>3
<1>5. StackOK(stack, Now)
  BY DEF HostInv
<1>6. StackOK(t, Now')
  BY <1>3, <1>4, <1>5, TopRuns
<1>7. StackOK(stack, Now)'
  BY <1>6 DEF StackOK, Found, t, s
<1> QED
  BY <1>3, <1>7 DEF HostInv, StoredAtEnd, t, s

(* The caller goes on with the state it had: the node's is again the one it *)
(* knows.                                                                   *)
LEMMA CallerGoesOn ==
    ASSUME HostInv, stack # <<>>, Len(stack) > 1, Now' = Top.saved,
           stack' = Append(SubSeq(stack, 1, Len(stack) - 2), [Caller EXCEPT !.call = "none"]),
           trapped' = FALSE
    PROVE  HostInv'
<1> DEFINE a == [Caller EXCEPT !.call = "none"]
           d == Len(stack) - 1
<1>1. Caller \in ActivationType /\ ActivationOK(Caller, Top.saved)
  BY CallerFacts
<1>2. /\ a \in ActivationType /\ a.flat = Caller.flat /\ a.box = Caller.box
      /\ a.readonly = Caller.readonly /\ a.call = "none" /\ a.saved = Caller.saved
  BY <1>1 DEF ActivationType
<1> HIDE DEF a
<1>3. ActivationOK(a, Now')
  BY <1>1, <1>2 DEF ActivationOK, Views
<1>4. Len(stack) \in Nat \ {0} /\ Top \in ActivationType
  BY TopFacts
<1>5. d \in Nat /\ d >= 1 /\ d < Len(stack) /\ d - 1 = Len(stack) - 2
  BY <1>4
<1>6. stack' = Append(SubSeq(stack, 1, d - 1), a) /\ a.saved = stack[d].saved
  BY <1>2, <1>5 DEF a, Caller
<1>7. root' \in Values /\ entry' \in Values /\ logical' \in Logical
  <2>1. Top.saved \in [root: Values, entry: Values, logical: Logical]
    BY <1>4 DEF ActivationType
  <2> QED
    BY <2>1, NowFields
<1> HIDE DEF d
<1> QED
  BY <1>2, <1>3, <1>5, <1>6, <1>7, BelowGoesOn DEF TrappedByExposed

(* A callee that could not write returns.                                  *)
LEMMA ReturnUnmodifiedHost == ASSUME HostInv, ReturnUnmodified PROVE HostInv'
<1>1. /\ Running /\ Len(stack) > 1 /\ Top.readonly
      /\ stack' = Append(SubSeq(stack, 1, Len(stack) - 2), [Caller EXCEPT !.call = "none"])
      /\ root' = root /\ entry' = entry /\ trapped' = trapped /\ logical' = logical
  BY DEF ReturnUnmodified
<1>2. Now' = Top.saved
  BY <1>1, TopFacts DEF Running, Now, ActivationOK
<1>3. trapped' = FALSE
  BY <1>1 DEF Running, HostInv
<1> QED
  BY <1>1, <1>2, <1>3, CallerGoesOn DEF Running

(* Any saved state: what a function that fails goes back to. *)
LEMMA SavedSettled ==
    ASSUME NEW a \in ActivationType, Settled(a.saved),
           root' = a.saved.root, entry' = a.saved.entry, logical' = a.saved.logical
    PROVE  /\ Now' = a.saved
           /\ logical' \in Logical /\ root' = logical'.flat
           /\ root' \in Values /\ entry' \in Values
           /\ ~logical'.exposed => entry' = logical'.box
<1>1. a.saved \in [root: Values, entry: Values, logical: Logical]
  BY DEF ActivationType
<1> QED
  BY <1>1 DEF Now, Settled

(* A function fails and the node goes back to what it found.               *)
LEMMA RejectHost == ASSUME HostInv, Reject PROVE HostInv'
<1>1. /\ stack # <<>> /\ trapped' = FALSE
      /\ root' = Top.saved.root /\ entry' = Top.saved.entry /\ logical' = Top.saved.logical
      /\ stack' = IF Len(stack) = 1 THEN << >>
                  ELSE Append(SubSeq(stack, 1, Len(stack) - 2), [Caller EXCEPT !.call = "none"])
  BY DEF Reject
<1>2. Top \in ActivationType /\ Settled(Top.saved) /\ Len(stack) \in Nat \ {0}
  BY <1>1, TopFacts DEF ActivationOK
<1>3. /\ Now' = Top.saved
      /\ logical' \in Logical /\ root' = logical'.flat
      /\ root' \in Values /\ entry' \in Values
      /\ ~logical'.exposed => entry' = logical'.box
  BY <1>1, <1>2, SavedSettled
<1>4. CASE Len(stack) = 1
  BY <1>1, <1>3, <1>4, EmptyHost
<1>5. CASE Len(stack) # 1
  <2>1. Len(stack) > 1
    <3>1. \A k \in Nat \ {0} : k # 1 => k > 1
      OBVIOUS
    <3>2. Len(stack) \in Nat \ {0}
      BY <1>2
    <3> QED
      BY <1>5, <3>1, <3>2
  <2>2. stack' = Append(SubSeq(stack, 1, Len(stack) - 2), [Caller EXCEPT !.call = "none"])
    BY <1>1, <1>5
  <2> QED
    BY <1>1, <1>3, <2>1, <2>2, CallerGoesOn
<1> QED
  BY <1>4, <1>5

(* The caller loads the state again; it has nothing left to write. *)
LEMMA ReturnModifiedHost == ASSUME HostInv, ReturnModified PROVE HostInv'
<1> DEFINE a == [Caller EXCEPT !.flat = StoredRoot, !.box = Reference, !.call = "none"]
           d == Len(stack) - 1
<1>1. /\ Running /\ Len(stack) > 1 /\ Caller.call = "raw" /\ root' = StoredRoot
      /\ stack' = Append(SubSeq(stack, 1, Len(stack) - 2), a)
      /\ logical' = logical
  BY DEF ReturnModified
<1>2. /\ Caller \in ActivationType /\ ActivationOK(Caller, Top.saved)
      /\ Caller.box.modified => Top.saved.logical.exposed
  BY <1>1, CallerFacts DEF Running
<1>11. ActivationOK(Top, Now)
  BY <1>1, TopFacts DEF Running
<1>12. Caller.box.modified => logical.exposed
  BY <1>2, <1>11, NowFields DEF ActivationOK
<1>4. /\ StoredRoot = logical.flat
      /\ ~logical.exposed => StoredEntry = logical.box
      /\ StoredRoot \in Values /\ StoredEntry \in Values
  BY <1>1, StoredSettled
<1>3. /\ trapped' \in BOOLEAN /\ (trapped' => Caller.box.modified)
      /\ entry' \in Values /\ (entry' # StoredEntry => Caller.box.modified)
  <2>1. Caller.box.modified => Caller.box.value \in Values
    BY <1>2, BoxFacts DEF ActivationType
  <2>2. PICK valid \in IF Caller.box.modified THEN BOOLEAN ELSE {TRUE} :
          /\ trapped' = ~valid
          /\ entry' = IF valid /\ Caller.box.modified THEN Caller.box.value ELSE StoredEntry
    BY DEF ReturnModified
  <2>3. valid \in BOOLEAN /\ (~valid => Caller.box.modified)
    BY <2>2
  <2> QED
    BY <1>4, <2>1, <2>2, <2>3
<1>13. TrappedByExposed'
  BY <1>1, <1>3, <1>12 DEF TrappedByExposed
<1>5. /\ a \in ActivationType /\ a.flat = StoredRoot /\ a.box = Reference
      /\ a.readonly = Caller.readonly /\ a.call = "none" /\ a.saved = Caller.saved
  BY <1>2, <1>4, BoxFacts DEF ActivationType
<1> HIDE DEF a
<1>6. ~a.readonly
  BY <1>1, <1>2, <1>5 DEF ActivationOK
<1>14. Views(a, Now')
  BY <1>1, <1>3, <1>4, <1>5, <1>12, NowFields, BoxFacts DEF Views
<1>15. a.saved.logical.exposed => Now'.logical.exposed
  BY <1>1, <1>2, <1>5, <1>11, NowFields DEF ActivationOK
<1>7. ActivationOK(a, Now')
  BY <1>2, <1>5, <1>6, <1>14, <1>15 DEF ActivationOK
<1>8. Len(stack) \in Nat \ {0}
  BY <1>1, TopFacts DEF Running
<1>9. d \in Nat /\ d >= 1 /\ d < Len(stack) /\ d - 1 = Len(stack) - 2
  BY <1>1, <1>8
<1>10. stack' = Append(SubSeq(stack, 1, d - 1), a) /\ a.saved = stack[d].saved
  BY <1>1, <1>5, <1>9 DEF Caller
<1> HIDE DEF d
<1> QED
  BY <1>1, <1>3, <1>4, <1>5, <1>7, <1>9, <1>10, <1>13, BelowGoesOn DEF HostInv, Running

(* The caller is aborted and the one below it goes on, if there is one. *)
LEMMA ReturnForbiddenHost == ASSUME HostInv, ReturnForbidden PROVE HostInv'
<1> DEFINE L     == Len(stack)
           below == SubSeq(stack, 1, L - 2)
           d     == L - 2
<1>1. /\ Running /\ L > 1 /\ trapped' = trapped
      /\ root' = Caller.saved.root /\ entry' = Caller.saved.entry
      /\ logical' = Caller.saved.logical
      /\ stack' = IF below = << >> THEN below ELSE [below EXCEPT ![Len(below)].call = "none"]
  BY DEF ReturnForbidden
<1>2. Caller \in ActivationType /\ Settled(Caller.saved)
  BY <1>1, CallerFacts DEF Running, ActivationOK
<1>3. /\ Now' = Caller.saved
      /\ logical' \in Logical /\ root' = logical'.flat
      /\ root' \in Values /\ entry' \in Values
      /\ ~logical'.exposed => entry' = logical'.box
  BY <1>1, <1>2, SavedSettled
<1>4. stack \in Seq(ActivationType) /\ L \in Nat \ {0}
  BY <1>1, TopFacts DEF Running
<1>5. /\ below \in Seq(ActivationType) /\ Len(below) = L - 2
      /\ \A n \in 1 .. (L - 2) : below[n] = stack[n]
  <2>1. L - 2 \in Int /\ 1 \in Int /\ \A n \in 1 .. (L - 2) : stack[n] \in ActivationType
    BY <1>4, ElementOfSeq
  <2>2. /\ below \in Seq(ActivationType)
        /\ Len(below) = IF 1 <= L - 2 THEN (L - 2) - 1 + 1 ELSE 0
        /\ \A i \in 1 .. ((L - 2) - 1 + 1) : below[i] = stack[1 + i - 1]
    BY <2>1, SubSeqProperties
  <2>3. L \in Nat /\ L > 1
    BY <1>1, <1>4
  <2> HIDE DEF below, L
  <2>4. Len(below) = L - 2
    BY <2>2, <2>3
  <2>5. ASSUME NEW n \in 1 .. (L - 2) PROVE below[n] = stack[n]
    <3>1. n \in 1 .. ((L - 2) - 1 + 1) /\ 1 + n - 1 = n
      BY <2>3
    <3> QED
      BY <2>2, <3>1
  <2> QED
    BY <2>2, <2>4, <2>5
<1>6. CASE below = <<>>
  <2>1. stack' = <<>>
    BY <1>1, <1>6
  <2> QED
    BY <1>1, <1>3, <2>1, EmptyHost DEF HostInv, Running
<1>7. CASE below # <<>>
  <2> DEFINE a == [stack[d] EXCEPT !.call = "none"]
             t == [below EXCEPT ![Len(below)].call = "none"]
  <2>1. d \in Nat /\ d >= 1 /\ d < L /\ d \in 1 .. L /\ d # L /\ d \in 1 .. (L - 2)
    BY <1>4, <1>5, <1>7, EmptySeq
  <2>2. stack[d] \in ActivationType
    BY <1>4, <2>1, ElementOfSeq
  <2>3. Found(stack, d, Now) = Caller.saved
    <3>1. d + 1 = L - 1
      BY <1>4
    <3> QED
      BY <2>1, <3>1 DEF Found, Caller
  <2>4. ActivationOK(stack[d], Caller.saved)
    BY <2>1, <2>3 DEF HostInv, StackOK
  <2>5. /\ a \in ActivationType /\ a.flat = stack[d].flat /\ a.box = stack[d].box
        /\ a.readonly = stack[d].readonly /\ a.call = "none" /\ a.saved = stack[d].saved
    BY <2>2 DEF ActivationType
  <2>6. t = [below EXCEPT ![d] = a]
    BY <1>5, <2>1
  <2>7. /\ t \in Seq(ActivationType) /\ Len(t) = d
        /\ \A j \in 1 .. d : t[j] = IF j = d THEN a ELSE below[j]
    <3> HIDE DEF t, below, a
    <3>1. d \in 1 .. Len(below)
      BY <1>5, <2>1
    <3> QED
      BY <1>5, <2>5, <2>6, <3>1, ExceptSeq
  <2>8. stack' = t
    BY <1>1, <1>7
  <2> HIDE DEF t, a, below, d, L
  <2>9. ActivationOK(a, Now')
    BY <1>3, <2>4, <2>5 DEF ActivationOK, Views
  <2>10. /\ t # <<>> /\ Len(t) <= Len(stack) /\ t[Len(t)] = a
         /\ t[Len(t)].saved = stack[Len(t)].saved
         /\ \A n \in 1 .. (Len(t) - 1) : t[n] = stack[n]
    <3>1. t # <<>>
      BY <2>1, <2>7, EmptySeq
    <3>2. \A n \in 1 .. (d - 1) : n \in 1 .. d /\ n # d /\ n \in 1 .. (L - 2)
      BY <1>4, <2>1 DEF d
    <3>3. Len(t) = d /\ d \in 1 .. d /\ d < Len(stack) /\ d \in Nat /\ Len(stack) \in Nat
      BY <1>4, <2>1, <2>7 DEF L
    <3>4. t[d] = a /\ a.saved = stack[d].saved
      BY <2>5, <2>7, <3>3
    <3>5. \A n \in 1 .. (d - 1) : t[n] = stack[n]
      BY <1>5, <2>7, <3>2
    <3> QED
      BY <3>1, <3>3, <3>4, <3>5
  <2>11. StackOK(stack, Now)
    BY DEF HostInv
  <2>12. StackOK(t, Now')
    BY <2>5, <2>7, <2>9, <2>10, <2>11, TopRuns
  <2>13. StackOK(stack, Now)'
    BY <2>8, <2>12 DEF StackOK, Found
  <2> QED
    BY <1>1, <1>3, <2>8, <2>10, <2>13 DEF HostInv, StoredAtEnd, TrappedByExposed, Running
<1> QED
  BY <1>6, <1>7

-----------------------------------------------------------------------------
(* Induction *)

(* Initially nothing runs and the node has what was assigned.              *)
LEMMA InitHost == Init => HostInv
<1> SUFFICES ASSUME Init PROVE HostInv
  OBVIOUS
<1>1. /\ root \in Values /\ entry \in Values /\ stack = <<>> /\ trapped = FALSE
      /\ logical = [flat |-> root, box |-> entry, exposed |-> FALSE]
  BY DEF Init
<1>2. logical \in Logical /\ logical.flat = root /\ logical.box = entry
  BY <1>1 DEF Logical
<1>3. stack \in Seq(ActivationType) /\ Len(stack) = 0
  BY <1>1
<1>4. 0 <= MaxDepth /\ \A n \in 1 .. 0 : FALSE
  BY HostAssumption
<1>5. StackOK(stack, Now)
  BY <1>3, <1>4 DEF StackOK
<1> QED
  BY <1>1, <1>2, <1>5 DEF HostInv, StoredAtEnd, TrappedByExposed

(* Every step keeps the invariant. *)
LEMMA NextHost == ASSUME HostInv, [Next]_hostVars PROVE HostInv'
<1>1. CASE UNCHANGED hostVars
  BY <1>1 DEF hostVars, HostInv, StoredAtEnd, TrappedByExposed, StackOK, Found, Now
<1>2. CASE Next
  BY <1>2, ReceiveHost, InvokeHost, InvokeReadOnlyHost, StateMutHost, BoxSetHost,
     BoxGetHost, CommitHost, FinishHost, ReturnUnmodifiedHost, ReturnModifiedHost,
     ReturnForbiddenHost, RejectHost DEF Next
<1> QED
  BY <1>1, <1>2

(* The inductive invariant always holds. *)
LEMMA HostAlways == Spec => []HostInv
<1>1. HostInv /\ [Next]_hostVars => HostInv'
  BY NextHost
<1> QED
  BY <1>1, InitHost, PTL DEF Spec

(* Through any nesting of calls that come back to the contract, whether     *)
(* they succeed, reject, are read-only or abort their caller, the function  *)
(* that runs reads the flat value last assigned, and the value of the box   *)
(* last assigned unless a call was made with the box modified in memory,    *)
(* which is what commit_state leaves out.                                   *)
THEOREM HostViewCurrent == Spec => []ViewIsCurrent
<1>1. HostInv => ViewIsCurrent
  <2> SUFFICES ASSUME HostInv, Running
               PROVE  /\ Top.flat = logical.flat
                      /\ ~logical.exposed => Cached(Top.box).value = logical.box
    BY DEF ViewIsCurrent
  <2>1. Top \in ActivationType /\ ActivationOK(Top, Now)
    BY TopFacts DEF Running
  <2>2. Cached(Top.box).value = IF Top.box.loaded THEN Top.box.value ELSE entry
    BY BoxFacts DEF Cached, Loaded
  <2> QED
    BY <2>1, <2>2, NowFields DEF ActivationOK, Views
<1> QED
  BY <1>1, HostAlways, PTL

(* Between transactions the node has the flat value that functions that     *)
(* succeeded assigned, and the value of the box unless it was modified in   *)
(* memory during a call; the reload after a call aborts no other caller.    *)
THEOREM HostConsistent == Spec => []Consistent
<1>1. HostInv => Consistent
  <2> SUFFICES ASSUME HostInv PROVE Consistent
    OBVIOUS
  <2>1. DOMAIN stack = 1 .. Len(stack)
    BY LenProperties DEF HostInv, StackOK
  <2> QED
    BY <2>1 DEF HostInv, StackOK, Consistent, TypeOK
<1> QED
  BY <1>1, HostAlways, PTL

=============================================================================
