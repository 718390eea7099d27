---------------------------- MODULE TokensProofs ----------------------------
(***************************************************************************)
(* What is true of the token contracts of examples/, for any accounts,     *)
(* contracts that receive tokens, batches of transfers and signed messages.*)
(***************************************************************************)
EXTENDS Tokens, SumProofs

\* What the contracts have in common.
Tok == INSTANCE Cis2

-----------------------------------------------------------------------------
(* Sequences of the same elements are the same. *)
LEMMA SameElements ==
    ASSUME NEW S, NEW s \in Seq(S), NEW t \in Seq(S), NEW n \in Nat, Len(s) = n, Len(t) = n,
           \A i \in 1 .. n : s[i] = t[i]
    PROVE  s = t
  BY SeqEqual

(* One sequence after another, of at most two elements each *)
LEMMA Joined ==
    ASSUME NEW x, NEW y
    PROVE  /\ <<x>> \o <<y>> = <<x, y>> /\ <<>> \o <<y>> = <<y>>
           /\ <<x>> \o <<>> = <<x>> /\ <<x, y>> \o <<>> = <<x, y>>
<1> DEFINE S == {x, y}
           p == <<x>>
           q == <<y>>
           n == <<>>
           b == <<x, y>>
           u == p \o q
           v == n \o q
           w == p \o n
<1>1. /\ p \in Seq(S) /\ Len(p) = 1 /\ p[1] = x
      /\ q \in Seq(S) /\ Len(q) = 1 /\ q[1] = y
      /\ n \in Seq(S) /\ Len(n) = 0
      /\ b \in Seq(S) /\ Len(b) = 2 /\ b[1] = x /\ b[2] = y
  OBVIOUS
<1> HIDE DEF S, p, q, n, b
<1>2. /\ u \in Seq(S) /\ Len(u) = 2 /\ u[1] = x /\ u[2] = y
      /\ v \in Seq(S) /\ Len(v) = 1 /\ v[1] = y
      /\ w \in Seq(S) /\ Len(w) = 1 /\ w[1] = x
  BY <1>1, ConcatProperties
<1> HIDE DEF u, v, w
<1>3. /\ \A i \in 1 .. 2 : u[i] = b[i]
      /\ \A i \in 1 .. 1 : v[i] = q[i]
      /\ \A i \in 1 .. 1 : w[i] = p[i]
  <2>1. \A i \in 1 .. 2 : i = 1 \/ i = 2
    OBVIOUS
  <2>2. \A i \in 1 .. 1 : i = 1
    OBVIOUS
  <2> QED
    BY <1>1, <1>2, <2>1, <2>2
<1>4. 1 \in Nat /\ 2 \in Nat
  OBVIOUS
<1>5. u = b /\ v = q /\ w = p
  BY <1>1, <1>2, <1>3, <1>4, SameElements
<1>6. b \o n = b
  BY <1>1, ConcatEmptySeq DEF n
<1> QED
  BY <1>5, <1>6 DEF p, q, n, b, u, v, w

-----------------------------------------------------------------------------
(* What is known after a sequence of events *)

Told(s, es) == Tok!Told(s, es)

(* The event that is heard last *)
Latest(u) == Tok!Latest(u)

(* The recursion of Told over the sets of events *)
Tells(g, s, es, S) ==
    g = [u \in SUBSET S |-> IF u = {} THEN s
                            ELSE Tok!Heard(g[u \ {Latest(u)}], es[Latest(u)])]

(* What g is at each of them *)
TellsUp(g, s, es, S) ==
    \A u \in SUBSET S :
      /\ u = {} => g[u] = s
      /\ u # {} => g[u] = Tok!Heard(g[u \ {Latest(u)}], es[Latest(u)])

(* S is a set of places up to n. *)
Places(S, n) == n \in Nat /\ S \subseteq 1 .. n

(* One of finitely many numbers is the latest. *)
LEMMA LatestIn ==
    ASSUME NEW n \in Nat, NEW u \in SUBSET (1 .. n), u # {}
    PROVE  Latest(u) \in u /\ \A i \in u : i <= Latest(u)
<1>1. \E x \in u : \A y \in u : x >= y
  <2> DEFINE T == {n - i : i \in u}
  <2>1. T \subseteq Nat /\ T # {}
    <3>1. \A i \in u : n - i \in Nat
      OBVIOUS
    <3>2. PICK i \in u : TRUE
      OBVIOUS
    <3> QED
      BY <3>1, <3>2
  <2>2. PICK x \in T : \A y \in T : x <= y
    <3> HIDE DEF T
    <3> QED
      BY <2>1, LeastNumber
  <2>4. PICK i \in u : x = n - i
    BY <2>2
  <2>5. \A j \in u : n - j \in T
    OBVIOUS
  <2>6. \A j \in u : i >= j
    <3> HIDE DEF T
    <3> TAKE j \in u
    <3>1. n - i <= n - j
      BY <2>2, <2>4, <2>5
    <3> QED
      BY <3>1
  <2> QED
    BY <2>6
<1>2. Latest(u) \in u /\ \A y \in u : Latest(u) >= y
  BY <1>1 DEF Latest, Tok!Latest
<1> QED
  BY <1>2

(* The recursion tells what it should, *)
LEMMA TellsAt == ASSUME NEW s, NEW es, NEW S, NEW g, Tells(g, s, es, S) PROVE TellsUp(g, s, es, S)
  BY DEF Tells, TellsUp

(* and a function with these values is the recursion. *)
LEMMA TellsIf ==
    ASSUME NEW s, NEW es, NEW S, NEW g, g = [u \in SUBSET S |-> g[u]],
           \A u \in SUBSET S :
             g[u] = IF u = {} THEN s ELSE Tok!Heard(g[u \ {Latest(u)}], es[Latest(u)])
    PROVE  Tells(g, s, es, S)
<1> DEFINE h == [u \in SUBSET S |-> IF u = {} THEN s
                                    ELSE Tok!Heard(g[u \ {Latest(u)}], es[Latest(u)])]
<1>1. g = h
  OBVIOUS
<1> QED
  BY <1>1 DEF Tells

(* There is one such function, also for events that differ elsewhere, *)
LEMMA TellsUnique ==
    ASSUME NEW s, NEW n, NEW S, Places(S, n), NEW es, NEW fs,
           \A i \in S : es[i] = fs[i],
           NEW T1, NEW T2, S \subseteq T1, S \subseteq T2,
           NEW g, NEW h, TellsUp(g, s, es, T1), TellsUp(h, s, fs, T2)
    PROVE  g[S] = h[S]
<1> DEFINE T == {u \in SUBSET S : g[u] # h[u]}
<1> SUFFICES ASSUME T # {} PROVE FALSE
  OBVIOUS
<1>c. T # {}
  OBVIOUS
<1>a. IsFiniteSet(S)
  <2>1. IsFiniteSet(1 .. n)
    BY FS_Interval DEF Places
  <2> QED
    BY <2>1, FS_Subset DEF Places
<1>b. T \subseteq SUBSET S
  OBVIOUS
<1>1. PICK u \in T : \A v \in T : v \subseteq u => v = u
  <2> HIDE DEF T
  <2> QED
    BY <1>a, <1>b, <1>c, LeastSubset
<1>2. u # {}
  BY <1>1 DEF TellsUp
<1>3. Latest(u) \in u
  BY <1>2, LatestIn DEF Places
<1>4. g[u \ {Latest(u)}] = h[u \ {Latest(u)}] /\ es[Latest(u)] = fs[Latest(u)]
  BY <1>1, <1>3
<1>5. /\ g[u] = Tok!Heard(g[u \ {Latest(u)}], es[Latest(u)])
      /\ h[u] = Tok!Heard(h[u \ {Latest(u)}], fs[Latest(u)])
  BY <1>2 DEF TellsUp
<1> QED
  BY <1>4, <1>5

(* in particular one for the same events *)
LEMMA TellsSame ==
    ASSUME NEW s, NEW n, NEW S, Places(S, n), NEW es, NEW T, S \subseteq T,
           NEW g, NEW h, TellsUp(g, s, es, T), TellsUp(h, s, es, S)
    PROVE  g[S] = h[S]
<1>1. (\A i \in S : es[i] = es[i]) /\ S \subseteq S
  OBVIOUS
<1> QED
  BY <1>1, TellsUnique

(* and there is one for every sequence of events. *)
LEMMA TellsExists ==
    ASSUME NEW s, NEW es, NEW n \in Nat
    PROVE  \E g : Tells(g, s, es, 1 .. n)
<1> DEFINE S == 1 .. n
           T == {u \in SUBSET S : ~ \E g : Tells(g, s, es, u)}
<1> SUFFICES ASSUME T # {} PROVE FALSE
  OBVIOUS
<1>a. IsFiniteSet(S)
  BY FS_Interval
<1>b. T \subseteq SUBSET S
  OBVIOUS
<1>1. PICK t \in T : \A u \in T : u \subseteq t => u = t
  <2> HIDE DEF T, S
  <2> QED
    BY <1>a, <1>b, LeastSubset
<1>t. t \in SUBSET S
  BY <1>1
<1> DEFINE G(u) == CHOOSE g : Tells(g, s, es, u)
           V(u) == G(u)[u]
           W(u) == IF u = {} THEN s ELSE Tok!Heard(V(u \ {Latest(u)}), es[Latest(u)])
           h    == [u \in SUBSET t |-> W(u)]
<1>2. ASSUME NEW u \in SUBSET t, u # t
      PROVE  TellsUp(G(u), s, es, u)
  <2>1. \E g : Tells(g, s, es, u)
    BY <1>1, <1>2
  <2>2. Tells(G(u), s, es, u)
    BY <2>1
  <2> HIDE DEF G
  <2> QED
    BY <2>2, TellsAt
<1>3. ASSUME NEW u \in SUBSET t, u # t, NEW v \in SUBSET u
      PROVE  G(u)[v] = V(v)
  <2>1. v # t
    BY <1>3
  <2>2. TellsUp(G(u), s, es, u) /\ TellsUp(G(v), s, es, v)
    BY <1>2, <1>3, <2>1
  <2> HIDE DEF G
  <2>3. Places(v, n) /\ v \subseteq u
    BY <1>t DEF Places
  <2>4. G(u)[v] = G(v)[v]
    <3> HIDE DEF T
    <3> QED
      BY <2>2, <2>3, TellsSame
  <2> QED
    BY <2>4
<1>4. ASSUME NEW u \in SUBSET t, u # t PROVE V(u) = W(u)
  <2>1. TellsUp(G(u), s, es, u)
    BY <1>2, <1>4
  <2>2. CASE u = {}
    BY <2>1, <2>2 DEF TellsUp
  <2>3. CASE u # {}
    <3>1. V(u) = Tok!Heard(G(u)[u \ {Latest(u)}], es[Latest(u)])
      BY <2>1, <2>3 DEF TellsUp
    <3>2. G(u)[u \ {Latest(u)}] = V(u \ {Latest(u)})
      BY <1>3, <1>4
    <3> HIDE DEF G, V
    <3> QED
      BY <2>3, <3>1, <3>2
  <2> QED
    BY <2>2, <2>3
<1>5. Tells(h, s, es, t)
  <2>0. h = [u \in SUBSET t |-> h[u]] /\ \A u \in SUBSET t : h[u] = W(u)
    <3> HIDE DEF W
    <3> QED
      OBVIOUS
  <2> SUFFICES ASSUME NEW u \in SUBSET t
               PROVE  h[u] = IF u = {} THEN s ELSE Tok!Heard(h[u \ {Latest(u)}], es[Latest(u)])
    <3> HIDE DEF h
    <3> QED
      BY <2>0, TellsIf
  <2>1. CASE u # {}
    <3>1. Latest(u) \in u
      BY <2>1, <1>t, LatestIn
    <3>2. u \ {Latest(u)} \in SUBSET t /\ u \ {Latest(u)} # t
      BY <3>1
    <3>3. h[u \ {Latest(u)}] = V(u \ {Latest(u)})
      BY <1>4, <3>2
    <3> QED
      BY <2>1, <3>3
  <2> QED
    BY <2>1
<1> QED
  BY <1>5

(* What is known is what the recursion has told. *)
LEMMA ToldTells ==
    ASSUME NEW s, NEW es, NEW n \in Nat, DOMAIN es = 1 .. n
    PROVE  \E g : TellsUp(g, s, es, 1 .. n) /\ Told(s, es) = g[1 .. n]
<1> DEFINE c == CHOOSE g : Tells(g, s, es, 1 .. n)
<1>1. Tells(c, s, es, 1 .. n)
  BY TellsExists
<1>2. Told(s, es) = c[1 .. n]
  BY DEF Told, Tok!Told, Tok!MapThenFoldSet, Tells, Latest
<1> HIDE DEF c
<1> QED
  BY <1>1, <1>2, TellsAt

(* No event tells nothing, *)
LEMMA ToldNothing == ASSUME NEW s PROVE Told(s, <<>>) = s
<1>1. DOMAIN <<>> = 1 .. 0
  OBVIOUS
<1>2. PICK g : TellsUp(g, s, <<>>, 1 .. 0) /\ Told(s, <<>>) = g[1 .. 0]
  BY <1>1, ToldTells
<1>3. 1 .. 0 = {}
  OBVIOUS
<1> QED
  BY <1>2, <1>3 DEF TellsUp

(* and one more event is heard after the others. *)
LEMMA ToldMore ==
    ASSUME NEW s, NEW n \in Nat, NEW es, NEW fs, DOMAIN es = 1 .. n, DOMAIN fs = 1 .. (n + 1),
           \A i \in 1 .. n : fs[i] = es[i]
    PROVE  Told(s, fs) = Tok!Heard(Told(s, es), fs[n + 1])
<1>1. PICK g : TellsUp(g, s, es, 1 .. n) /\ Told(s, es) = g[1 .. n]
  BY ToldTells
<1>2. PICK h : TellsUp(h, s, fs, 1 .. (n + 1)) /\ Told(s, fs) = h[1 .. (n + 1)]
  BY ToldTells
<1> DEFINE u == 1 .. (n + 1)
<1>3. Latest(u) = n + 1
  <2>1. n + 1 \in u /\ u \in SUBSET (1 .. (n + 1)) /\ n + 1 \in Nat
    OBVIOUS
  <2>2. Latest(u) \in u /\ \A i \in u : i <= Latest(u)
    <3> HIDE DEF u
    <3> QED
      BY <2>1, LatestIn
  <2> QED
    BY <2>1, <2>2
<1>4. u \ {n + 1} = 1 .. n /\ u # {}
  OBVIOUS
<1>5. h[u] = Tok!Heard(h[1 .. n], fs[n + 1])
  <2> HIDE DEF u
  <2>1. u \in SUBSET (1 .. (n + 1))
    BY DEF u
  <2> QED
    BY <1>2, <1>3, <1>4, <2>1 DEF TellsUp
<1>6. h[1 .. n] = g[1 .. n]
  <2>1. /\ n + 1 \in Nat /\ 1 .. n \in SUBSET (1 .. (n + 1))
        /\ 1 .. n \subseteq 1 .. n /\ 1 .. n \subseteq 1 .. (n + 1)
    OBVIOUS
  <2> DEFINE m == n + 1
             S == 1 .. n
             U == 1 .. m
  <2>2. /\ Places(S, m)
        /\ S \subseteq S /\ S \subseteq U /\ \A i \in S : es[i] = fs[i]
    BY <2>1 DEF Places
  <2>3. TellsUp(g, s, es, S) /\ TellsUp(h, s, fs, U)
    BY <1>1, <1>2
  <2> HIDE DEF S, U, m
  <2>4. g[S] = h[S]
    BY <2>2, <2>3, TellsUnique
  <2> QED
    BY <2>4 DEF S
<1> QED
  BY <1>1, <1>2, <1>5, <1>6

(* The same, of events whose number is m *)
LEMMA ToldNext ==
    ASSUME NEW s, NEW n \in Nat, NEW m, m = n + 1, NEW es, NEW fs, DOMAIN es = 1 .. n,
           DOMAIN fs = 1 .. m, \A i \in 1 .. n : fs[i] = es[i]
    PROVE  Told(s, fs) = Tok!Heard(Told(s, es), fs[m])
  BY ToldMore

-----------------------------------------------------------------------------
(* The entrypoints under way *)

(* What they are, of senders A, transfers T, final events L and, for a        *)
(* rejection, pairs G of a state and of what was known of it                  *)
Frames(A, T, L, G) ==
    [sender : A, rest : Seq(T), hook : Contracts \cup {None}, last : L, saved : G]

(* One that calls nobody has transfers to make. *)
CallsOK(A, T, L, G) ==
    /\ calls \in Seq(Frames(A, T, L, G))
    /\ \A i \in 1 .. Len(calls) : calls[i].hook = None => calls[i].rest # <<>>

(* The next transfer ends the entrypoint. *)
Ends == Tail(Tok!Top.rest) = <<>> /\ Tok!Upcoming.to \notin Contracts

(* A transfer is made. *)
Moves(moved, events) ==
    /\ state' = moved
    /\ seen' = Told(seen, events \o IF Ends THEN Tok!Top.last ELSE <<>>)
    /\ calls' = IF Ends THEN Tok!Waiting(calls)
                ELSE Append(Tok!Waiting(calls),
                            [Tok!Top EXCEPT !.rest = Tail(Tok!Top.rest),
                                            !.hook = Tok!HookOf(Tok!Upcoming.to)])

LEMMA TopFrame ==
    ASSUME NEW F, calls \in Seq(F), calls # <<>>
    PROVE  /\ Len(calls) \in Nat \ {0}
           /\ Tok!Top = calls[Len(calls)] /\ Tok!Top \in F
           /\ Tok!Waiting(calls) \in Seq(F) /\ Len(Tok!Waiting(calls)) = Len(calls) - 1
           /\ \A i \in 1 .. (Len(calls) - 1) : Tok!Waiting(calls)[i] = calls[i]
<1>1. Len(calls) \in Nat /\ Len(calls) # 0 /\ DOMAIN calls = 1 .. Len(calls)
  BY EmptySeq, LenProperties
<1>2. Tok!Top = calls[Len(calls)] /\ Tok!Top \in F
  BY <1>1, ElementOfSeq DEF Tok!Top
<1>3. /\ SubSeq(calls, 1, Len(calls) - 1) \in Seq(F)
      /\ Len(SubSeq(calls, 1, Len(calls) - 1)) = Len(calls) - 1
      /\ \A i \in 1 .. (Len(calls) - 1) : SubSeq(calls, 1, Len(calls) - 1)[i] = calls[i]
  BY <1>1, SubSeqProperties
<1> QED
  BY <1>1, <1>2, <1>3 DEF Tok!Waiting

(* The frames after one has been put on top, in place of another or not *)
LEMMA Pushed ==
    ASSUME NEW F, NEW s \in Seq(F), NEW f \in F, \A i \in 1 .. Len(s) : s[i].hook = None => s[i].rest # <<>>,
           f.hook = None => f.rest # <<>>
    PROVE  /\ Append(s, f) \in Seq(F) /\ Len(Append(s, f)) = Len(s) + 1
           /\ \A i \in 1 .. Len(Append(s, f)) :
                Append(s, f)[i].hook = None => Append(s, f)[i].rest # <<>>
<1>1. /\ Append(s, f) \in Seq(F) /\ Len(Append(s, f)) = Len(s) + 1 /\ Len(s) \in Nat
      /\ \A i \in 1 .. Len(s) : Append(s, f)[i] = s[i]
      /\ Append(s, f)[Len(s) + 1] = f
  BY AppendProperties, LenProperties
<1> QED
  BY <1>1

(* A batch starts: what a rejection restores is right. *)
LEMMA StartsOK ==
    ASSUME NEW A, NEW T, NEW L, NEW G, CallsOK(A, T, L, G), Tok!Saved \in G,
           NEW sender \in A, NEW batch \in Seq(T), batch # <<>>, NEW last \in L,
           Tok!StartsBatch(sender, batch, last)
    PROVE  CallsOK(A, T, L, G)'
<1> DEFINE f == Tok!Frame(sender, batch, None, last)
           F == Frames(A, T, L, G)
<1>1. f \in F /\ f.rest = batch
  BY DEF Tok!Frame, Frames
<1>2. calls' = Append(calls, f)
  BY DEF Tok!StartsBatch
<1> HIDE DEF f, F
<1>3. calls \in Seq(F) /\ \A i \in 1 .. Len(calls) : calls[i].hook = None => calls[i].rest # <<>>
  BY DEF CallsOK, F
<1> QED
  BY <1>1, <1>2, <1>3, Pushed DEF CallsOK, F

(* An entrypoint ends with a call. *)
LEMMA EndsCallingOK ==
    ASSUME NEW A, NEW T, NEW L, NEW G, CallsOK(A, T, L, G), Tok!Saved \in G,
           NEW sender \in A, NEW receiver, <<>> \in L, None \notin Contracts,
           Tok!EndsCalling(sender, receiver)
    PROVE  CallsOK(A, T, L, G)'
<1>1. CASE receiver \notin Contracts
  <2>1. calls' = calls
    BY <1>1 DEF Tok!EndsCalling
  <2> QED
    BY <2>1 DEF CallsOK
<1>2. CASE receiver \in Contracts
  <2> DEFINE f == Tok!Frame(sender, <<>>, receiver, <<>>)
             F == Frames(A, T, L, G)
  <2>1. f \in F /\ f.hook # None
    <3>1. <<>> \in Seq(T)
      BY EmptySeq
    <3> QED
      BY <1>2, <3>1 DEF Tok!Frame, Frames
  <2>2. calls' = Append(calls, f)
    BY <1>2 DEF Tok!EndsCalling
  <2> HIDE DEF f, F
  <2>3. calls \in Seq(F) /\ \A i \in 1 .. Len(calls) : calls[i].hook = None => calls[i].rest # <<>>
    BY DEF CallsOK, F
  <2> QED
    BY <2>1, <2>2, <2>3, Pushed DEF CallsOK, F
<1> QED
  BY <1>1, <1>2

(* The entrypoint on top ends, *)
LEMMA PopsOK ==
    ASSUME NEW A, NEW T, NEW L, NEW G, CallsOK(A, T, L, G), calls # <<>>, calls' = Tok!Waiting(calls)
    PROVE  CallsOK(A, T, L, G)' /\ Len(calls') = Len(calls) - 1
<1> DEFINE F == Frames(A, T, L, G)
<1> HIDE DEF F
<1>1. calls \in Seq(F) /\ \A i \in 1 .. Len(calls) : calls[i].hook = None => calls[i].rest # <<>>
  BY DEF CallsOK, F
<1>2. /\ Tok!Waiting(calls) \in Seq(F) /\ Len(Tok!Waiting(calls)) = Len(calls) - 1
      /\ \A i \in 1 .. (Len(calls) - 1) : Tok!Waiting(calls)[i] = calls[i]
      /\ Len(calls) \in Nat \ {0}
  BY <1>1, TopFrame
<1> QED
  BY <1>1, <1>2 DEF CallsOK, F

(* rejecting, *)
LEMMA RejectsOK ==
    ASSUME NEW A, NEW T, NEW L, NEW G, CallsOK(A, T, L, G), calls # <<>>, Tok!Rejects,
           \A w \in G : w = [state |-> w.state, seen |-> w.seen]
    PROVE  CallsOK(A, T, L, G)' /\ Tok!Saved' \in G /\ Len(calls') = Len(calls) - 1
<1> DEFINE F == Frames(A, T, L, G)
<1>0. \A f \in F : f.saved \in G
  BY DEF Frames
<1> HIDE DEF F
<1>1. Tok!Top \in F
  BY TopFrame DEF CallsOK, F
<1>2. calls' = Tok!Waiting(calls) /\ state' = Tok!Top.saved.state /\ seen' = Tok!Top.saved.seen
  BY DEF Tok!Rejects
<1>3. Tok!Saved' = Tok!Top.saved
  <2>1. Tok!Saved' = [state |-> state', seen |-> seen']
    BY DEF Tok!Saved
  <2> QED
    BY <1>0, <1>1, <1>2, <2>1
<1> QED
  BY <1>0, <1>1, <1>2, <1>3, PopsOK

(* or after the contract that it called has returned. *)
LEMMA HookReturnsOK ==
    ASSUME NEW A, NEW T, NEW L, NEW G, CallsOK(A, T, L, G), Tok!HookReturns
    PROVE  /\ CallsOK(A, T, L, G)' /\ Tok!Top.last \in L
           /\ \/ calls' = Tok!Waiting(calls) /\ seen' = Told(seen, Tok!Top.last)
              \/ /\ UNCHANGED seen /\ Len(calls') = Len(calls)
                 /\ calls' = Append(Tok!Waiting(calls), [Tok!Top EXCEPT !.hook = None])
<1> DEFINE F == Frames(A, T, L, G)
           f == [Tok!Top EXCEPT !.hook = None]
<1>0. \A g \in F : [g EXCEPT !.hook = None] \in F /\ [g EXCEPT !.hook = None].rest = g.rest /\ g.last \in L
  BY DEF Frames
<1> HIDE DEF F
<1>1. calls # <<>>
  BY DEF Tok!HookReturns
<1>2. calls \in Seq(F) /\ \A i \in 1 .. Len(calls) : calls[i].hook = None => calls[i].rest # <<>>
  BY DEF CallsOK, F
<1>3. /\ Len(calls) \in Nat \ {0}
      /\ Tok!Top \in F
      /\ Tok!Waiting(calls) \in Seq(F) /\ Len(Tok!Waiting(calls)) = Len(calls) - 1
      /\ \A i \in 1 .. (Len(calls) - 1) : Tok!Waiting(calls)[i] = calls[i]
  BY <1>1, <1>2, TopFrame
<1>4. CASE Tok!Top.rest = <<>> /\ calls' = Tok!Waiting(calls) /\ Tok!log(Tok!Top.last)
  BY <1>0, <1>1, <1>3, <1>4, PopsOK DEF Tok!log, Told
<1>5. CASE Tok!Top.rest # <<>> /\ calls' = Append(Tok!Waiting(calls), f) /\ UNCHANGED seen
  <2>1. f \in F /\ f.rest # <<>>
    BY <1>0, <1>3, <1>5
  <2> HIDE DEF f
  <2>2. \A i \in 1 .. Len(Tok!Waiting(calls)) : Tok!Waiting(calls)[i].hook = None => Tok!Waiting(calls)[i].rest # <<>>
    BY <1>2, <1>3
  <2>3. CallsOK(A, T, L, G)' /\ Len(calls') = Len(calls)
    BY <1>3, <1>5, <2>1, <2>2, Pushed DEF CallsOK, F
  <2> QED
    BY <1>0, <1>3, <1>5, <2>3 DEF f
<1> QED
  BY <1>4, <1>5 DEF Tok!HookReturns

(* A transfer is one of those that were asked for. *)
LEMMA UpcomingOK ==
    ASSUME NEW A, NEW T, NEW L, NEW G, CallsOK(A, T, L, G), calls # <<>>, Tok!Top.hook = None
    PROVE  /\ Tok!Upcoming \in T /\ Tok!Top.sender \in A /\ Tok!Top.last \in L
           /\ Tail(Tok!Top.rest) \in Seq(T)
<1> DEFINE F == Frames(A, T, L, G)
<1>0. \A f \in F : f.rest \in Seq(T) /\ f.sender \in A /\ f.last \in L
  BY DEF Frames
<1> HIDE DEF F
<1>1. Tok!Top \in F /\ Tok!Top.rest # <<>>
  <2>1. /\ Tok!Top = calls[Len(calls)] /\ Tok!Top \in F /\ Len(calls) \in Nat \ {0}
    BY TopFrame DEF CallsOK, F
  <2> QED
    BY <2>1 DEF CallsOK
<1>2. Tok!Top.rest \in Seq(T)
  BY <1>0, <1>1
<1>3. Head(Tok!Top.rest) \in T /\ Tail(Tok!Top.rest) \in Seq(T)
  BY <1>1, <1>2, HeadTailProperties
<1> QED
  BY <1>0, <1>1, <1>3 DEF Tok!Upcoming

LEMMA MovesOK ==
    ASSUME NEW A, NEW T, NEW L, NEW G, CallsOK(A, T, L, G), calls # <<>>, Tok!Top.hook = None,
           None \notin Contracts, NEW moved, NEW events, Moves(moved, events)
    PROVE  CallsOK(A, T, L, G)'
<1> DEFINE F == Frames(A, T, L, G)
           h == Tok!HookOf(Tok!Upcoming.to)
           r == Tail(Tok!Top.rest)
           f == [Tok!Top EXCEPT !.rest = r, !.hook = h]
<1>h. h \in Contracts \cup {None} /\ (h = None => Tok!Upcoming.to \notin Contracts)
  BY DEF Tok!HookOf
<1>r. r \in Seq(T)
  BY UpcomingOK
<1>1. CASE Ends
  BY <1>1, PopsOK DEF Moves
<1>2. CASE ~ Ends
  <2>1. calls' = Append(Tok!Waiting(calls), f)
    BY <1>2 DEF Moves
  <2>2. h = None => r # <<>>
    BY <1>2, <1>h DEF Ends
  <2> HIDE DEF F, h, r
  <2>3. calls \in Seq(F) /\ \A i \in 1 .. Len(calls) : calls[i].hook = None => calls[i].rest # <<>>
    BY DEF CallsOK, F
  <2>4. /\ Len(calls) \in Nat \ {0}
        /\ Tok!Top \in F
        /\ Tok!Waiting(calls) \in Seq(F) /\ Len(Tok!Waiting(calls)) = Len(calls) - 1
        /\ \A i \in 1 .. (Len(calls) - 1) : Tok!Waiting(calls)[i] = calls[i]
    BY <2>3, TopFrame
  <2>5. f \in F /\ f.rest = r /\ f.hook = h
    <3> DEFINE g == Tok!Top
    <3> HIDE DEF g
    <3>1. g \in F
      BY <2>4 DEF g
    <3>2. f = [g EXCEPT !.rest = r, !.hook = h]
      BY DEF g
    <3> HIDE DEF f
    <3> QED
      BY <1>h, <1>r, <3>1, <3>2 DEF F, Frames
  <2> HIDE DEF f
  <2>6. \A i \in 1 .. Len(Tok!Waiting(calls)) : Tok!Waiting(calls)[i].hook = None => Tok!Waiting(calls)[i].rest # <<>>
    BY <2>3, <2>4
  <2> QED
    BY <2>1, <2>2, <2>4, <2>5, <2>6, Pushed DEF CallsOK, F
<1> QED
  BY <1>1, <1>2

(* What Nft takes from Cis2 *)
LEMMA NftShared ==
    /\ \A es : Nft!log(es) <=> seen' = Told(seen, es)
    /\ Nft!HookReturns <=> Tok!HookReturns
    /\ Nft!HookRejects => calls # <<>> /\ Tok!Rejects
    /\ Nft!Rejects => Tok!Rejects
    /\ Nft!Top = Tok!Top /\ Nft!Upcoming = Tok!Upcoming /\ Nft!Waiting(calls) = Tok!Waiting(calls)
    /\ \A a : Nft!HookOf(a) = Tok!HookOf(a)
    /\ \A s, b, l : Nft!StartsBatch(s, b, l) => Tok!StartsBatch(s, b, l)
    /\ \A s, r : Nft!EndsCalling(s, r) => Tok!EndsCalling(s, r)
<1>1. \A es : Nft!log(es) <=> seen' = Told(seen, es)
  BY DEF Nft!log, Told, Nft!Heard, Tok!Heard, Nft!Transferred, Tok!Transferred, Nft!add, Nft!sub, Tok!add, Tok!sub,
         Nft!Updated, Tok!Updated, Nft!Told, Tok!Told, Nft!MapThenFoldSet,
         Tok!MapThenFoldSet, Nft!Latest, Tok!Latest
<1>2. Nft!Top = Tok!Top /\ Nft!Upcoming = Tok!Upcoming /\ Nft!Waiting(calls) = Tok!Waiting(calls)
  BY DEF Nft!Top, Tok!Top, Nft!Upcoming, Tok!Upcoming, Nft!Waiting, Tok!Waiting
<1>3. Nft!Rejects => Tok!Rejects
  BY <1>2 DEF Nft!Rejects, Tok!Rejects
<1>4. Nft!HookRejects => calls # <<>> /\ Tok!Rejects
  BY <1>3 DEF Nft!HookRejects
<1>5. Nft!HookReturns <=> Tok!HookReturns
  <2>1. Nft!log(Nft!Top.last) <=> Tok!log(Tok!Top.last)
    BY <1>1, <1>2 DEF Tok!log, Told
  <2> QED
    BY <1>2, <2>1 DEF Nft!HookReturns, Tok!HookReturns
<1>6. \A a : Nft!HookOf(a) = Tok!HookOf(a)
  BY DEF Nft!HookOf, Tok!HookOf
<1>7. \A s, b, l : Nft!StartsBatch(s, b, l) => Tok!StartsBatch(s, b, l)
  BY DEF Nft!StartsBatch, Tok!StartsBatch, Nft!Frame, Tok!Frame, Nft!Saved, Tok!Saved
<1>8. \A s, r : Nft!EndsCalling(s, r) => Tok!EndsCalling(s, r)
  BY DEF Nft!EndsCalling, Tok!EndsCalling, Nft!Frame, Tok!Frame, Nft!Saved, Tok!Saved
<1> QED
  BY <1>1, <1>2, <1>3, <1>4, <1>5, <1>6, <1>7, <1>8

(* The next transfer is made or rejects the batch. *)
LEMMA NftTransfers ==
    ASSUME Nft!NextTransfer(Nft!Accepts(Nft!Top.sender, Nft!Upcoming), Nft!Moved(Nft!Upcoming),
                            Nft!OneEvent(Nft!Upcoming))
    PROVE  /\ calls # <<>> /\ Tok!Top.hook = None
           /\ \/ /\ Nft!Accepts(Tok!Top.sender, Tok!Upcoming)
                 /\ Moves(Nft!Moved(Tok!Upcoming), Nft!OneEvent(Tok!Upcoming))
              \/ Tok!Rejects
<1> DEFINE t  == Tok!Upcoming
           es == Nft!OneEvent(t) \o IF Ends THEN Tok!Top.last ELSE <<>>
<1>1. Nft!Top = Tok!Top /\ Nft!Upcoming = t /\ Nft!Waiting(calls) = Tok!Waiting(calls)
  BY NftShared
<1>2. Nft!log(es) <=> seen' = Told(seen, es)
  BY NftShared
<1>3. Nft!HookOf(t.to) = Tok!HookOf(t.to) /\ (Nft!Rejects => Tok!Rejects)
  BY NftShared
<1>4. /\ calls # <<>> /\ Tok!Top.hook = None
      /\ \/ /\ Nft!Accepts(Tok!Top.sender, t) /\ state' = Nft!Moved(t) /\ Nft!log(es)
            /\ calls' = IF Ends THEN Tok!Waiting(calls)
                        ELSE Append(Tok!Waiting(calls),
                                    [Tok!Top EXCEPT !.rest = Tail(Tok!Top.rest),
                                                    !.hook = Nft!HookOf(t.to)])
         \/ Nft!Rejects
  BY <1>1 DEF Nft!NextTransfer, Ends
<1> QED
  BY <1>2, <1>3, <1>4 DEF Moves

(* What Multi takes from Cis2 *)
LEMMA MultiShared ==
    /\ \A es : Multi!log(es) <=> seen' = Told(seen, es)
    /\ Multi!HookReturns <=> Tok!HookReturns
    /\ Multi!HookRejects => calls # <<>> /\ Tok!Rejects
    /\ Multi!Rejects => Tok!Rejects
    /\ Multi!Top = Tok!Top /\ Multi!Upcoming = Tok!Upcoming /\ Multi!Waiting(calls) = Tok!Waiting(calls)
    /\ \A a : Multi!HookOf(a) = Tok!HookOf(a)
    /\ \A s, b, l : Multi!StartsBatch(s, b, l) => Tok!StartsBatch(s, b, l)
    /\ \A s, r : Multi!EndsCalling(s, r) => Tok!EndsCalling(s, r)
<1>1. \A es : Multi!log(es) <=> seen' = Told(seen, es)
  BY DEF Multi!log, Told, Multi!Heard, Tok!Heard, Multi!Transferred, Tok!Transferred, Multi!add, Multi!sub, Tok!add, Tok!sub,
         Multi!Updated, Tok!Updated, Multi!Told, Tok!Told, Multi!MapThenFoldSet,
         Tok!MapThenFoldSet, Multi!Latest, Tok!Latest
<1>2. Multi!Top = Tok!Top /\ Multi!Upcoming = Tok!Upcoming /\ Multi!Waiting(calls) = Tok!Waiting(calls)
  BY DEF Multi!Top, Tok!Top, Multi!Upcoming, Tok!Upcoming, Multi!Waiting, Tok!Waiting
<1>3. Multi!Rejects => Tok!Rejects
  BY <1>2 DEF Multi!Rejects, Tok!Rejects
<1>4. Multi!HookRejects => calls # <<>> /\ Tok!Rejects
  BY <1>3 DEF Multi!HookRejects
<1>5. Multi!HookReturns <=> Tok!HookReturns
  <2>1. Multi!log(Multi!Top.last) <=> Tok!log(Tok!Top.last)
    BY <1>1, <1>2 DEF Tok!log, Told
  <2> QED
    BY <1>2, <2>1 DEF Multi!HookReturns, Tok!HookReturns
<1>6. \A a : Multi!HookOf(a) = Tok!HookOf(a)
  BY DEF Multi!HookOf, Tok!HookOf
<1>7. \A s, b, l : Multi!StartsBatch(s, b, l) => Tok!StartsBatch(s, b, l)
  BY DEF Multi!StartsBatch, Tok!StartsBatch, Multi!Frame, Tok!Frame, Multi!Saved, Tok!Saved
<1>8. \A s, r : Multi!EndsCalling(s, r) => Tok!EndsCalling(s, r)
  BY DEF Multi!EndsCalling, Tok!EndsCalling, Multi!Frame, Tok!Frame, Multi!Saved, Tok!Saved
<1> QED
  BY <1>1, <1>2, <1>3, <1>4, <1>5, <1>6, <1>7, <1>8

(* The next transfer is made or rejects the batch. *)
LEMMA MultiTransfers ==
    ASSUME Multi!NextTransfer(Multi!Accepts(Multi!Top.sender, Multi!Upcoming), Multi!Moved(Multi!Upcoming),
                            Multi!OneEvent(Multi!Upcoming))
    PROVE  /\ calls # <<>> /\ Tok!Top.hook = None
           /\ \/ /\ Multi!Accepts(Tok!Top.sender, Tok!Upcoming)
                 /\ Moves(Multi!Moved(Tok!Upcoming), Multi!OneEvent(Tok!Upcoming))
              \/ Tok!Rejects
<1> DEFINE t  == Tok!Upcoming
           es == Multi!OneEvent(t) \o IF Ends THEN Tok!Top.last ELSE <<>>
<1>1. Multi!Top = Tok!Top /\ Multi!Upcoming = t /\ Multi!Waiting(calls) = Tok!Waiting(calls)
  BY MultiShared
<1>2. Multi!log(es) <=> seen' = Told(seen, es)
  BY MultiShared
<1>3. Multi!HookOf(t.to) = Tok!HookOf(t.to) /\ (Multi!Rejects => Tok!Rejects)
  BY MultiShared
<1>4. /\ calls # <<>> /\ Tok!Top.hook = None
      /\ \/ /\ Multi!Accepts(Tok!Top.sender, t) /\ state' = Multi!Moved(t) /\ Multi!log(es)
            /\ calls' = IF Ends THEN Tok!Waiting(calls)
                        ELSE Append(Tok!Waiting(calls),
                                    [Tok!Top EXCEPT !.rest = Tail(Tok!Top.rest),
                                                    !.hook = Multi!HookOf(t.to)])
         \/ Multi!Rejects
  BY <1>1 DEF Multi!NextTransfer, Ends
<1> QED
  BY <1>2, <1>3, <1>4 DEF Moves

(* What Wccd takes from Cis2 *)
LEMMA WccdShared ==
    /\ \A es : Wccd!log(es) <=> seen' = Told(seen, es)
    /\ Wccd!HookReturns <=> Tok!HookReturns
    /\ Wccd!HookRejects => calls # <<>> /\ Tok!Rejects
    /\ Wccd!Rejects => Tok!Rejects
    /\ Wccd!Top = Tok!Top /\ Wccd!Upcoming = Tok!Upcoming /\ Wccd!Waiting(calls) = Tok!Waiting(calls)
    /\ \A a : Wccd!HookOf(a) = Tok!HookOf(a)
    /\ \A s, b, l : Wccd!StartsBatch(s, b, l) => Tok!StartsBatch(s, b, l)
    /\ \A s, r : Wccd!EndsCalling(s, r) => Tok!EndsCalling(s, r)
<1>1. \A es : Wccd!log(es) <=> seen' = Told(seen, es)
  BY DEF Wccd!log, Told, Wccd!Heard, Tok!Heard, Wccd!Transferred, Tok!Transferred, Wccd!add, Wccd!sub, Tok!add, Tok!sub,
         Wccd!Updated, Tok!Updated, Wccd!Told, Tok!Told, Wccd!MapThenFoldSet,
         Tok!MapThenFoldSet, Wccd!Latest, Tok!Latest
<1>2. Wccd!Top = Tok!Top /\ Wccd!Upcoming = Tok!Upcoming /\ Wccd!Waiting(calls) = Tok!Waiting(calls)
  BY DEF Wccd!Top, Tok!Top, Wccd!Upcoming, Tok!Upcoming, Wccd!Waiting, Tok!Waiting
<1>3. Wccd!Rejects => Tok!Rejects
  BY <1>2 DEF Wccd!Rejects, Tok!Rejects
<1>4. Wccd!HookRejects => calls # <<>> /\ Tok!Rejects
  BY <1>3 DEF Wccd!HookRejects
<1>5. Wccd!HookReturns <=> Tok!HookReturns
  <2>1. Wccd!log(Wccd!Top.last) <=> Tok!log(Tok!Top.last)
    BY <1>1, <1>2 DEF Tok!log, Told
  <2> QED
    BY <1>2, <2>1 DEF Wccd!HookReturns, Tok!HookReturns
<1>6. \A a : Wccd!HookOf(a) = Tok!HookOf(a)
  BY DEF Wccd!HookOf, Tok!HookOf
<1>7. \A s, b, l : Wccd!StartsBatch(s, b, l) => Tok!StartsBatch(s, b, l)
  BY DEF Wccd!StartsBatch, Tok!StartsBatch, Wccd!Frame, Tok!Frame, Wccd!Saved, Tok!Saved
<1>8. \A s, r : Wccd!EndsCalling(s, r) => Tok!EndsCalling(s, r)
  BY DEF Wccd!EndsCalling, Tok!EndsCalling, Wccd!Frame, Tok!Frame, Wccd!Saved, Tok!Saved
<1> QED
  BY <1>1, <1>2, <1>3, <1>4, <1>5, <1>6, <1>7, <1>8

(* The next transfer is made or rejects the batch. *)
LEMMA WccdTransfers ==
    ASSUME Wccd!NextTransfer(Wccd!Accepts(Wccd!Top.sender, Wccd!Upcoming), Wccd!Moved(Wccd!Upcoming),
                            Wccd!OneEvent(Wccd!Upcoming))
    PROVE  /\ calls # <<>> /\ Tok!Top.hook = None
           /\ \/ /\ Wccd!Accepts(Tok!Top.sender, Tok!Upcoming)
                 /\ Moves(Wccd!Moved(Tok!Upcoming), Wccd!OneEvent(Tok!Upcoming))
              \/ Tok!Rejects
<1> DEFINE t  == Tok!Upcoming
           es == Wccd!OneEvent(t) \o IF Ends THEN Tok!Top.last ELSE <<>>
<1>1. Wccd!Top = Tok!Top /\ Wccd!Upcoming = t /\ Wccd!Waiting(calls) = Tok!Waiting(calls)
  BY WccdShared
<1>2. Wccd!log(es) <=> seen' = Told(seen, es)
  BY WccdShared
<1>3. Wccd!HookOf(t.to) = Tok!HookOf(t.to) /\ (Wccd!Rejects => Tok!Rejects)
  BY WccdShared
<1>4. /\ calls # <<>> /\ Tok!Top.hook = None
      /\ \/ /\ Wccd!Accepts(Tok!Top.sender, t) /\ state' = Wccd!Moved(t) /\ Wccd!log(es)
            /\ calls' = IF Ends THEN Tok!Waiting(calls)
                        ELSE Append(Tok!Waiting(calls),
                                    [Tok!Top EXCEPT !.rest = Tail(Tok!Top.rest),
                                                    !.hook = Wccd!HookOf(t.to)])
         \/ Wccd!Rejects
  BY <1>1 DEF Wccd!NextTransfer, Ends
<1> QED
  BY <1>2, <1>3, <1>4 DEF Moves

(* What Cis3 takes from Cis2 *)
LEMMA Cis3Shared ==
    /\ \A es : Cis3!log(es) <=> seen' = Told(seen, es)
    /\ Cis3!HookReturns <=> Tok!HookReturns
    /\ Cis3!HookRejects => calls # <<>> /\ Tok!Rejects
    /\ Cis3!Rejects => Tok!Rejects
    /\ Cis3!Top = Tok!Top /\ Cis3!Upcoming = Tok!Upcoming /\ Cis3!Waiting(calls) = Tok!Waiting(calls)
    /\ \A a : Cis3!HookOf(a) = Tok!HookOf(a)
    /\ \A s, b, l : Cis3!StartsBatch(s, b, l) => Tok!StartsBatch(s, b, l)
    /\ \A s, r : Cis3!EndsCalling(s, r) => Tok!EndsCalling(s, r)
<1>1. \A es : Cis3!log(es) <=> seen' = Told(seen, es)
  BY DEF Cis3!log, Told, Cis3!Heard, Tok!Heard, Cis3!Transferred, Tok!Transferred, Cis3!add, Cis3!sub, Tok!add, Tok!sub,
         Cis3!Updated, Tok!Updated, Cis3!Told, Tok!Told, Cis3!MapThenFoldSet,
         Tok!MapThenFoldSet, Cis3!Latest, Tok!Latest
<1>2. Cis3!Top = Tok!Top /\ Cis3!Upcoming = Tok!Upcoming /\ Cis3!Waiting(calls) = Tok!Waiting(calls)
  BY DEF Cis3!Top, Tok!Top, Cis3!Upcoming, Tok!Upcoming, Cis3!Waiting, Tok!Waiting
<1>3. Cis3!Rejects => Tok!Rejects
  BY <1>2 DEF Cis3!Rejects, Tok!Rejects
<1>4. Cis3!HookRejects => calls # <<>> /\ Tok!Rejects
  BY <1>3 DEF Cis3!HookRejects
<1>5. Cis3!HookReturns <=> Tok!HookReturns
  <2>1. Cis3!log(Cis3!Top.last) <=> Tok!log(Tok!Top.last)
    BY <1>1, <1>2 DEF Tok!log, Told
  <2> QED
    BY <1>2, <2>1 DEF Cis3!HookReturns, Tok!HookReturns
<1>6. \A a : Cis3!HookOf(a) = Tok!HookOf(a)
  BY DEF Cis3!HookOf, Tok!HookOf
<1>7. \A s, b, l : Cis3!StartsBatch(s, b, l) => Tok!StartsBatch(s, b, l)
  BY DEF Cis3!StartsBatch, Tok!StartsBatch, Cis3!Frame, Tok!Frame, Cis3!Saved, Tok!Saved
<1>8. \A s, r : Cis3!EndsCalling(s, r) => Tok!EndsCalling(s, r)
  BY DEF Cis3!EndsCalling, Tok!EndsCalling, Cis3!Frame, Tok!Frame, Cis3!Saved, Tok!Saved
<1> QED
  BY <1>1, <1>2, <1>3, <1>4, <1>5, <1>6, <1>7, <1>8

(* The next transfer is made or rejects the batch. *)
LEMMA Cis3Transfers ==
    ASSUME Cis3!NextTransfer(Cis3!Accepts(Cis3!Top.sender, Cis3!Upcoming), Cis3!Moved(Cis3!Upcoming),
                            Cis3!OneEvent(Cis3!Upcoming))
    PROVE  /\ calls # <<>> /\ Tok!Top.hook = None
           /\ \/ /\ Cis3!Accepts(Tok!Top.sender, Tok!Upcoming)
                 /\ Moves(Cis3!Moved(Tok!Upcoming), Cis3!OneEvent(Tok!Upcoming))
              \/ Tok!Rejects
<1> DEFINE t  == Tok!Upcoming
           es == Cis3!OneEvent(t) \o IF Ends THEN Tok!Top.last ELSE <<>>
<1>1. Cis3!Top = Tok!Top /\ Cis3!Upcoming = t /\ Cis3!Waiting(calls) = Tok!Waiting(calls)
  BY Cis3Shared
<1>2. Cis3!log(es) <=> seen' = Told(seen, es)
  BY Cis3Shared
<1>3. Cis3!HookOf(t.to) = Tok!HookOf(t.to) /\ (Cis3!Rejects => Tok!Rejects)
  BY Cis3Shared
<1>4. /\ calls # <<>> /\ Tok!Top.hook = None
      /\ \/ /\ Cis3!Accepts(Tok!Top.sender, t) /\ state' = Cis3!Moved(t) /\ Cis3!log(es)
            /\ calls' = IF Ends THEN Tok!Waiting(calls)
                        ELSE Append(Tok!Waiting(calls),
                                    [Tok!Top EXCEPT !.rest = Tail(Tok!Top.rest),
                                                    !.hook = Cis3!HookOf(t.to)])
         \/ Cis3!Rejects
  BY <1>1 DEF Cis3!NextTransfer, Ends
<1> QED
  BY <1>2, <1>3, <1>4 DEF Moves

(* What Names takes from Cis2 *)
LEMMA NamesShared ==
    /\ \A es : Names!log(es) <=> seen' = Told(seen, es)
    /\ Names!HookReturns <=> Tok!HookReturns
    /\ Names!HookRejects => calls # <<>> /\ Tok!Rejects
    /\ Names!Rejects => Tok!Rejects
    /\ Names!Top = Tok!Top /\ Names!Upcoming = Tok!Upcoming /\ Names!Waiting(calls) = Tok!Waiting(calls)
    /\ \A a : Names!HookOf(a) = Tok!HookOf(a)
    /\ \A s, b, l : Names!StartsBatch(s, b, l) => Tok!StartsBatch(s, b, l)
    /\ \A s, r : Names!EndsCalling(s, r) => Tok!EndsCalling(s, r)
<1>1. \A es : Names!log(es) <=> seen' = Told(seen, es)
  BY DEF Names!log, Told, Names!Heard, Tok!Heard, Names!Transferred, Tok!Transferred, Names!add, Names!sub, Tok!add, Tok!sub,
         Names!Updated, Tok!Updated, Names!Told, Tok!Told, Names!MapThenFoldSet,
         Tok!MapThenFoldSet, Names!Latest, Tok!Latest
<1>2. Names!Top = Tok!Top /\ Names!Upcoming = Tok!Upcoming /\ Names!Waiting(calls) = Tok!Waiting(calls)
  BY DEF Names!Top, Tok!Top, Names!Upcoming, Tok!Upcoming, Names!Waiting, Tok!Waiting
<1>3. Names!Rejects => Tok!Rejects
  BY <1>2 DEF Names!Rejects, Tok!Rejects
<1>4. Names!HookRejects => calls # <<>> /\ Tok!Rejects
  BY <1>3 DEF Names!HookRejects
<1>5. Names!HookReturns <=> Tok!HookReturns
  <2>1. Names!log(Names!Top.last) <=> Tok!log(Tok!Top.last)
    BY <1>1, <1>2 DEF Tok!log, Told
  <2> QED
    BY <1>2, <2>1 DEF Names!HookReturns, Tok!HookReturns
<1>6. \A a : Names!HookOf(a) = Tok!HookOf(a)
  BY DEF Names!HookOf, Tok!HookOf
<1>7. \A s, b, l : Names!StartsBatch(s, b, l) => Tok!StartsBatch(s, b, l)
  BY DEF Names!StartsBatch, Tok!StartsBatch, Names!Frame, Tok!Frame, Names!Saved, Tok!Saved
<1>8. \A s, r : Names!EndsCalling(s, r) => Tok!EndsCalling(s, r)
  BY DEF Names!EndsCalling, Tok!EndsCalling, Names!Frame, Tok!Frame, Names!Saved, Tok!Saved
<1> QED
  BY <1>1, <1>2, <1>3, <1>4, <1>5, <1>6, <1>7, <1>8

(* The next transfer is made or rejects the batch. *)
LEMMA NamesTransfers ==
    ASSUME Names!NextTransfer(Names!Accepts(Names!Top.sender, Names!Upcoming), Names!Moved(Names!Upcoming),
                            Names!OneEvent(Names!Upcoming))
    PROVE  /\ calls # <<>> /\ Tok!Top.hook = None
           /\ \/ /\ Names!Accepts(Tok!Top.sender, Tok!Upcoming)
                 /\ Moves(Names!Moved(Tok!Upcoming), Names!OneEvent(Tok!Upcoming))
              \/ Tok!Rejects
<1> DEFINE t  == Tok!Upcoming
           es == Names!OneEvent(t) \o IF Ends THEN Tok!Top.last ELSE <<>>
<1>1. Names!Top = Tok!Top /\ Names!Upcoming = t /\ Names!Waiting(calls) = Tok!Waiting(calls)
  BY NamesShared
<1>2. Names!log(es) <=> seen' = Told(seen, es)
  BY NamesShared
<1>3. Names!HookOf(t.to) = Tok!HookOf(t.to) /\ (Names!Rejects => Tok!Rejects)
  BY NamesShared
<1>4. /\ calls # <<>> /\ Tok!Top.hook = None
      /\ \/ /\ Names!Accepts(Tok!Top.sender, t) /\ state' = Names!Moved(t) /\ Names!log(es)
            /\ calls' = IF Ends THEN Tok!Waiting(calls)
                        ELSE Append(Tok!Waiting(calls),
                                    [Tok!Top EXCEPT !.rest = Tail(Tok!Top.rest),
                                                    !.hook = Names!HookOf(t.to)])
         \/ Names!Rejects
  BY <1>1 DEF Names!NextTransfer, Ends
<1> QED
  BY <1>2, <1>3, <1>4 DEF Moves

(* What Dynamic takes from Cis2 *)
LEMMA DynamicShared ==
    /\ \A es : Dynamic!log(es) <=> seen' = Told(seen, es)
    /\ Dynamic!HookReturns <=> Tok!HookReturns
    /\ Dynamic!HookRejects => calls # <<>> /\ Tok!Rejects
    /\ Dynamic!Rejects => Tok!Rejects
    /\ Dynamic!Top = Tok!Top /\ Dynamic!Upcoming = Tok!Upcoming /\ Dynamic!Waiting(calls) = Tok!Waiting(calls)
    /\ \A a : Dynamic!HookOf(a) = Tok!HookOf(a)
    /\ \A s, b, l : Dynamic!StartsBatch(s, b, l) => Tok!StartsBatch(s, b, l)
    /\ \A s, r : Dynamic!EndsCalling(s, r) => Tok!EndsCalling(s, r)
<1>1. \A es : Dynamic!log(es) <=> seen' = Told(seen, es)
  BY DEF Dynamic!log, Told, Dynamic!Heard, Tok!Heard, Dynamic!Transferred, Tok!Transferred, Dynamic!add, Dynamic!sub, Tok!add, Tok!sub,
         Dynamic!Updated, Tok!Updated, Dynamic!Told, Tok!Told, Dynamic!MapThenFoldSet,
         Tok!MapThenFoldSet, Dynamic!Latest, Tok!Latest
<1>2. Dynamic!Top = Tok!Top /\ Dynamic!Upcoming = Tok!Upcoming /\ Dynamic!Waiting(calls) = Tok!Waiting(calls)
  BY DEF Dynamic!Top, Tok!Top, Dynamic!Upcoming, Tok!Upcoming, Dynamic!Waiting, Tok!Waiting
<1>3. Dynamic!Rejects => Tok!Rejects
  BY <1>2 DEF Dynamic!Rejects, Tok!Rejects
<1>4. Dynamic!HookRejects => calls # <<>> /\ Tok!Rejects
  BY <1>3 DEF Dynamic!HookRejects
<1>5. Dynamic!HookReturns <=> Tok!HookReturns
  <2>1. Dynamic!log(Dynamic!Top.last) <=> Tok!log(Tok!Top.last)
    BY <1>1, <1>2 DEF Tok!log, Told
  <2> QED
    BY <1>2, <2>1 DEF Dynamic!HookReturns, Tok!HookReturns
<1>6. \A a : Dynamic!HookOf(a) = Tok!HookOf(a)
  BY DEF Dynamic!HookOf, Tok!HookOf
<1>7. \A s, b, l : Dynamic!StartsBatch(s, b, l) => Tok!StartsBatch(s, b, l)
  BY DEF Dynamic!StartsBatch, Tok!StartsBatch, Dynamic!Frame, Tok!Frame, Dynamic!Saved, Tok!Saved
<1>8. \A s, r : Dynamic!EndsCalling(s, r) => Tok!EndsCalling(s, r)
  BY DEF Dynamic!EndsCalling, Tok!EndsCalling, Dynamic!Frame, Tok!Frame, Dynamic!Saved, Tok!Saved
<1> QED
  BY <1>1, <1>2, <1>3, <1>4, <1>5, <1>6, <1>7, <1>8

(* The next transfer is made or rejects the batch. *)
LEMMA DynamicTransfers ==
    ASSUME Dynamic!NextTransfer(Dynamic!Accepts(Dynamic!Top.sender, Dynamic!Upcoming), Dynamic!Moved(Dynamic!Upcoming),
                            Dynamic!OneEvent(Dynamic!Upcoming))
    PROVE  /\ calls # <<>> /\ Tok!Top.hook = None
           /\ \/ /\ Dynamic!Accepts(Tok!Top.sender, Tok!Upcoming)
                 /\ Moves(Dynamic!Moved(Tok!Upcoming), Dynamic!OneEvent(Tok!Upcoming))
              \/ Tok!Rejects
<1> DEFINE t  == Tok!Upcoming
           es == Dynamic!OneEvent(t) \o IF Ends THEN Tok!Top.last ELSE <<>>
<1>1. Dynamic!Top = Tok!Top /\ Dynamic!Upcoming = t /\ Dynamic!Waiting(calls) = Tok!Waiting(calls)
  BY DynamicShared
<1>2. Dynamic!log(es) <=> seen' = Told(seen, es)
  BY DynamicShared
<1>3. Dynamic!HookOf(t.to) = Tok!HookOf(t.to) /\ (Dynamic!Rejects => Tok!Rejects)
  BY DynamicShared
<1>4. /\ calls # <<>> /\ Tok!Top.hook = None
      /\ \/ /\ Dynamic!Accepts(Tok!Top.sender, t) /\ state' = Dynamic!Moved(t) /\ Dynamic!log(es)
            /\ calls' = IF Ends THEN Tok!Waiting(calls)
                        ELSE Append(Tok!Waiting(calls),
                                    [Tok!Top EXCEPT !.rest = Tail(Tok!Top.rest),
                                                    !.hook = Dynamic!HookOf(t.to)])
         \/ Dynamic!Rejects
  BY <1>1 DEF Dynamic!NextTransfer, Ends
<1> QED
  BY <1>2, <1>3, <1>4 DEF Moves

(* What Royalties takes from Cis2 *)
LEMMA RoyaltiesShared ==
    /\ \A es : Royalties!log(es) <=> seen' = Told(seen, es)
    /\ Royalties!HookReturns <=> Tok!HookReturns
    /\ Royalties!HookRejects => calls # <<>> /\ Tok!Rejects
    /\ Royalties!Rejects => Tok!Rejects
    /\ Royalties!Top = Tok!Top /\ Royalties!Upcoming = Tok!Upcoming /\ Royalties!Waiting(calls) = Tok!Waiting(calls)
    /\ \A a : Royalties!HookOf(a) = Tok!HookOf(a)
    /\ \A s, b, l : Royalties!StartsBatch(s, b, l) => Tok!StartsBatch(s, b, l)
    /\ \A s, r : Royalties!EndsCalling(s, r) => Tok!EndsCalling(s, r)
<1>1. \A es : Royalties!log(es) <=> seen' = Told(seen, es)
  BY DEF Royalties!log, Told, Royalties!Heard, Tok!Heard, Royalties!Transferred, Tok!Transferred, Royalties!add, Royalties!sub, Tok!add, Tok!sub,
         Royalties!Updated, Tok!Updated, Royalties!Told, Tok!Told, Royalties!MapThenFoldSet,
         Tok!MapThenFoldSet, Royalties!Latest, Tok!Latest
<1>2. Royalties!Top = Tok!Top /\ Royalties!Upcoming = Tok!Upcoming /\ Royalties!Waiting(calls) = Tok!Waiting(calls)
  BY DEF Royalties!Top, Tok!Top, Royalties!Upcoming, Tok!Upcoming, Royalties!Waiting, Tok!Waiting
<1>3. Royalties!Rejects => Tok!Rejects
  BY <1>2 DEF Royalties!Rejects, Tok!Rejects
<1>4. Royalties!HookRejects => calls # <<>> /\ Tok!Rejects
  BY <1>3 DEF Royalties!HookRejects
<1>5. Royalties!HookReturns <=> Tok!HookReturns
  <2>1. Royalties!log(Royalties!Top.last) <=> Tok!log(Tok!Top.last)
    BY <1>1, <1>2 DEF Tok!log, Told
  <2> QED
    BY <1>2, <2>1 DEF Royalties!HookReturns, Tok!HookReturns
<1>6. \A a : Royalties!HookOf(a) = Tok!HookOf(a)
  BY DEF Royalties!HookOf, Tok!HookOf
<1>7. \A s, b, l : Royalties!StartsBatch(s, b, l) => Tok!StartsBatch(s, b, l)
  BY DEF Royalties!StartsBatch, Tok!StartsBatch, Royalties!Frame, Tok!Frame, Royalties!Saved, Tok!Saved
<1>8. \A s, r : Royalties!EndsCalling(s, r) => Tok!EndsCalling(s, r)
  BY DEF Royalties!EndsCalling, Tok!EndsCalling, Royalties!Frame, Tok!Frame, Royalties!Saved, Tok!Saved
<1> QED
  BY <1>1, <1>2, <1>3, <1>4, <1>5, <1>6, <1>7, <1>8

(* The next transfer is made or rejects the batch. *)
LEMMA RoyaltiesTransfers ==
    ASSUME Royalties!NextTransfer(Royalties!Accepts(Royalties!Top.sender, Royalties!Upcoming), Royalties!Moved(Royalties!Upcoming),
                            Royalties!Events(Royalties!Upcoming))
    PROVE  /\ calls # <<>> /\ Tok!Top.hook = None
           /\ \/ /\ Royalties!Accepts(Tok!Top.sender, Tok!Upcoming)
                 /\ Moves(Royalties!Moved(Tok!Upcoming), Royalties!Events(Tok!Upcoming))
              \/ Tok!Rejects
<1> DEFINE t  == Tok!Upcoming
           es == Royalties!Events(t) \o IF Ends THEN Tok!Top.last ELSE <<>>
<1>1. Royalties!Top = Tok!Top /\ Royalties!Upcoming = t /\ Royalties!Waiting(calls) = Tok!Waiting(calls)
  BY RoyaltiesShared
<1>2. Royalties!log(es) <=> seen' = Told(seen, es)
  BY RoyaltiesShared
<1>3. Royalties!HookOf(t.to) = Tok!HookOf(t.to) /\ (Royalties!Rejects => Tok!Rejects)
  BY RoyaltiesShared
<1>4. /\ calls # <<>> /\ Tok!Top.hook = None
      /\ \/ /\ Royalties!Accepts(Tok!Top.sender, t) /\ state' = Royalties!Moved(t) /\ Royalties!log(es)
            /\ calls' = IF Ends THEN Tok!Waiting(calls)
                        ELSE Append(Tok!Waiting(calls),
                                    [Tok!Top EXCEPT !.rest = Tail(Tok!Top.rest),
                                                    !.hook = Royalties!HookOf(t.to)])
         \/ Royalties!Rejects
  BY <1>1 DEF Royalties!NextTransfer, Ends
<1> QED
  BY <1>2, <1>3, <1>4 DEF Moves

-----------------------------------------------------------------------------
(* What can be known *)

(* The texts that there are, with those that the contracts have of their own *)
Texts == STRING \cup {"url", "url1", "url2", "url3", "ADMIN"}

(* Amounts that a token amount can say *)
Sayable == 0 .. (Modulus - 1)

(* of the addresses A and the tokens I *)
Knowledge(A, I) ==
    [balances  : [A \X I -> Sayable],
     operators : SUBSET (A \X A),
     metadata  : [I -> I \cup Texts \cup {None}],
     admin     : A \cup {None},
     roles     : SUBSET (A \X Texts),
     blacklist : SUBSET A,
     nonces    : SUBSET (A \X Nat),
     replayed  : BOOLEAN]

(* What a sum or a difference says *)
LEMMA AddSayable ==
    ASSUME NEW a \in Int, NEW b \in Int
    PROVE  Tok!add(a, b) \in Sayable /\ Tok!sub(a, b) \in Sayable
  BY AmountAssumption DEF Tok!add, Tok!sub, Sayable

LEMMA ToldOne == ASSUME NEW s, NEW e PROVE Told(s, <<e>>) = Tok!Heard(s, e)
<1> DEFINE n == 0
           m == 1
           es == <<>>
           fs == <<e>>
<1>1. /\ n \in Nat /\ m = n + 1 /\ DOMAIN es = 1 .. n /\ DOMAIN fs = 1 .. m /\ fs[m] = e
      /\ \A i \in 1 .. n : fs[i] = es[i]
  OBVIOUS
<1>2. Told(s, es) = s
  BY ToldNothing
<1> HIDE DEF n, m, es, fs
<1>3. Told(s, fs) = Tok!Heard(s, e)
  BY <1>1, <1>2, ToldNext
<1> QED
  BY <1>3 DEF fs

LEMMA ToldTwo ==
    ASSUME NEW s, NEW e, NEW f
    PROVE  Told(s, <<e, f>>) = Tok!Heard(Tok!Heard(s, e), f)
<1> DEFINE n == 1
           m == 2
           es == <<e>>
           fs == <<e, f>>
<1>1. /\ n \in Nat /\ m = n + 1 /\ DOMAIN es = 1 .. n /\ DOMAIN fs = 1 .. m /\ fs[m] = f
      /\ \A i \in 1 .. n : fs[i] = es[i]
  OBVIOUS
<1>2. Told(s, es) = Tok!Heard(s, e)
  BY ToldOne
<1> HIDE DEF n, m, es, fs
<1>3. Told(s, fs) = Tok!Heard(Tok!Heard(s, e), f)
  BY <1>1, <1>2, ToldNext
<1> QED
  BY <1>3 DEF fs

LEMMA ToldThree ==
    ASSUME NEW s, NEW e, NEW f, NEW g
    PROVE  Told(s, <<e, f, g>>) = Tok!Heard(Tok!Heard(Tok!Heard(s, e), f), g)
<1> DEFINE n == 2
           m == 3
           es == <<e, f>>
           fs == <<e, f, g>>
<1>1. /\ n \in Nat /\ m = n + 1 /\ DOMAIN es = 1 .. n /\ DOMAIN fs = 1 .. m /\ fs[m] = g
      /\ \A i \in 1 .. n : fs[i] = es[i]
  OBVIOUS
<1>2. Told(s, es) = Tok!Heard(Tok!Heard(s, e), f)
  BY ToldTwo
<1> HIDE DEF n, m, es, fs
<1>3. Told(s, fs) = Tok!Heard(Tok!Heard(Tok!Heard(s, e), f), g)
  BY <1>1, <1>2, ToldNext
<1> QED
  BY <1>3 DEF fs

(* Only the balances differ, *)
SaysBalances(s, h, b) ==
    /\ h.balances = b /\ h.operators = s.operators /\ h.metadata = s.metadata
    /\ h.admin = s.admin /\ h.roles = s.roles /\ h.blacklist = s.blacklist
    /\ h.nonces = s.nonces /\ h.replayed = s.replayed

(* the operators, *)
SaysOperators(s, h, o) ==
    /\ h.operators = o /\ h.balances = s.balances /\ h.metadata = s.metadata
    /\ h.admin = s.admin /\ h.roles = s.roles /\ h.blacklist = s.blacklist
    /\ h.nonces = s.nonces /\ h.replayed = s.replayed

(* or the metadata. *)
SaysMetadata(s, h, m) ==
    /\ h.metadata = m /\ h.balances = s.balances /\ h.operators = s.operators
    /\ h.admin = s.admin /\ h.roles = s.roles /\ h.blacklist = s.blacklist
    /\ h.nonces = s.nonces /\ h.replayed = s.replayed

LEMMA HeardMint ==
    ASSUME NEW A, NEW I, NEW s \in Knowledge(A, I), NEW t \in I, NEW o \in A, NEW amount \in Nat,
           NEW h, h = Tok!Heard(s, Tok!MintEvent(t, amount, o))
    PROVE  /\ h \in Knowledge(A, I)
           /\ SaysBalances(s, h, [s.balances EXCEPT ![<<o, t>>] = Tok!add(@, amount)])
<1> DEFINE e == Tok!MintEvent(t, amount, o)
<1>1. h = [s EXCEPT !.balances[<<e.owner, e.token_id>>] = Tok!add(@, e.amount)]
  BY DEF Tok!Heard, Tok!MintEvent
<1>2. e.owner = o /\ e.token_id = t /\ e.amount = amount
  BY DEF Tok!MintEvent
<1> HIDE DEF e
<1> DEFINE b == [s.balances EXCEPT ![<<o, t>>] = Tok!add(@, amount)]
<1>3. h = [s EXCEPT !.balances = b]
  BY <1>1, <1>2
<1>4. b \in [A \X I -> Sayable]
  <2>1. s.balances \in [A \X I -> Sayable] /\ s.balances[<<o, t>>] \in Int
    BY AmountAssumption DEF Knowledge, Sayable
  <2>2. Tok!add(s.balances[<<o, t>>], amount) \in Sayable
    BY <2>1, AddSayable
  <2> QED
    BY <2>1, <2>2
<1> HIDE DEF b
<1>5. h \in Knowledge(A, I) /\ SaysBalances(s, h, b)
  BY <1>3, <1>4 DEF Knowledge, SaysBalances
<1> QED
  BY <1>5 DEF b

LEMMA HeardBurn ==
    ASSUME NEW A, NEW I, NEW s \in Knowledge(A, I), NEW t \in I, NEW o \in A, NEW amount \in Nat,
           NEW h, h = Tok!Heard(s, Tok!BurnEvent(t, amount, o))
    PROVE  /\ h \in Knowledge(A, I)
           /\ SaysBalances(s, h, [s.balances EXCEPT ![<<o, t>>] = Tok!sub(@, amount)])
<1> DEFINE e == Tok!BurnEvent(t, amount, o)
<1>1. h = [s EXCEPT !.balances[<<e.owner, e.token_id>>] = Tok!sub(@, e.amount)]
  BY DEF Tok!Heard, Tok!BurnEvent
<1>2. e.owner = o /\ e.token_id = t /\ e.amount = amount
  BY DEF Tok!BurnEvent
<1> HIDE DEF e
<1> DEFINE b == [s.balances EXCEPT ![<<o, t>>] = Tok!sub(@, amount)]
<1>3. h = [s EXCEPT !.balances = b]
  BY <1>1, <1>2
<1>4. b \in [A \X I -> Sayable]
  <2>1. s.balances \in [A \X I -> Sayable] /\ s.balances[<<o, t>>] \in Int
    BY AmountAssumption DEF Knowledge, Sayable
  <2>2. Tok!sub(s.balances[<<o, t>>], amount) \in Sayable
    BY <2>1, AddSayable
  <2> QED
    BY <2>1, <2>2
<1> HIDE DEF b
<1>5. h \in Knowledge(A, I) /\ SaysBalances(s, h, b)
  BY <1>3, <1>4 DEF Knowledge, SaysBalances
<1> QED
  BY <1>5 DEF b

LEMMA TransferredSayable ==
    ASSUME NEW A, NEW I, NEW b \in [A \X I -> Sayable], NEW t \in I, NEW amount \in Int,
           NEW from \in A, NEW to \in A
    PROVE  Tok!Transferred(b, t, amount, from, to) \in [A \X I -> Sayable]
<1> DEFINE c == [b EXCEPT ![<<from, t>>] = Tok!sub(@, amount)]
<1>0. \A x \in Sayable : x \in Int
  BY AmountAssumption DEF Sayable
<1>1. Tok!sub(b[<<from, t>>], amount) \in Sayable
  BY <1>0, AddSayable
<1>2. c \in [A \X I -> Sayable]
  BY <1>1
<1> HIDE DEF c
<1>3. Tok!add(c[<<to, t>>], amount) \in Sayable
  <2>1. c[<<to, t>>] \in Sayable
    BY <1>2
  <2> QED
    BY <1>0, <2>1, AddSayable
<1>4. [c EXCEPT ![<<to, t>>] = Tok!add(@, amount)] \in [A \X I -> Sayable]
  BY <1>2, <1>3
<1> QED
  BY <1>4 DEF Tok!Transferred, c

LEMMA HeardTransfer ==
    ASSUME NEW A, NEW I, NEW s \in Knowledge(A, I),
           NEW t, t.token_id \in I, t.amount \in Int, t.from \in A, t.to \in A,
           NEW h, h = Tok!Heard(s, Tok!TransferEvent(t))
    PROVE  /\ h \in Knowledge(A, I)
           /\ SaysBalances(s, h, Tok!Transferred(s.balances, t.token_id, t.amount, t.from, t.to))
<1> DEFINE b == Tok!Transferred(s.balances, t.token_id, t.amount, t.from, t.to)
<1> DEFINE e == Tok!TransferEvent(t)
<1>1. h = Tok!Heard(s, e)
  OBVIOUS
<1>2. /\ e.event = "transfer" /\ e.from = t.from /\ e.to = t.to
      /\ e.token_id = t.token_id /\ e.amount = t.amount
  BY DEF Tok!TransferEvent
<1> HIDE DEF e
<1>a. h = [s EXCEPT !.balances = Tok!Transferred(@, e.token_id, e.amount, e.from, e.to)]
  BY <1>1, <1>2 DEF Tok!Heard
<1>3. h = [s EXCEPT !.balances = b]
  BY <1>2, <1>a
<1>4. b \in [A \X I -> Sayable]
  <2>1. s.balances \in [A \X I -> Sayable]
    BY DEF Knowledge
  <2> QED
    BY <2>1, TransferredSayable
<1> HIDE DEF b
<1>5. h \in Knowledge(A, I) /\ SaysBalances(s, h, b)
  BY <1>3, <1>4 DEF Knowledge, SaysBalances
<1> QED
  BY <1>5 DEF b

LEMMA HeardOperator ==
    ASSUME NEW A, NEW I, NEW s \in Knowledge(A, I), NEW owner \in A, NEW operator \in A, NEW update,
           NEW h, h = Tok!Heard(s, Tok!UpdateOperatorEvent(owner, operator, update))
    PROVE  /\ h \in Knowledge(A, I)
           /\ SaysOperators(s, h, Tok!Updated(s.operators, <<owner, operator>>, update))
<1> DEFINE e == Tok!UpdateOperatorEvent(owner, operator, update)
           o == Tok!Updated(s.operators, <<owner, operator>>, update)
<1>1. h = [s EXCEPT !.operators = Tok!Updated(@, <<e.owner, e.operator>>, e.update)]
  BY DEF Tok!Heard, Tok!UpdateOperatorEvent
<1>2. e.owner = owner /\ e.operator = operator /\ e.update = update
  BY DEF Tok!UpdateOperatorEvent
<1> HIDE DEF e
<1>3. h = [s EXCEPT !.operators = o]
  BY <1>1, <1>2
<1>4. o \in SUBSET (A \X A)
  BY DEF Knowledge, Tok!Updated
<1> HIDE DEF o
<1>5. h \in Knowledge(A, I) /\ SaysOperators(s, h, o)
  BY <1>3, <1>4 DEF Knowledge, SaysOperators
<1> QED
  BY <1>5 DEF o

LEMMA HeardMetadata ==
    ASSUME NEW A, NEW I, NEW s \in Knowledge(A, I), NEW t \in I, NEW url \in I \cup Texts,
           NEW h, h = Tok!Heard(s, Tok!TokenMetadataEvent(t, url))
    PROVE  /\ h \in Knowledge(A, I)
           /\ SaysMetadata(s, h, [s.metadata EXCEPT ![t] = url])
<1> DEFINE e == Tok!TokenMetadataEvent(t, url)
<1>1. h = [s EXCEPT !.metadata[e.token_id] = e.metadata_url]
  BY DEF Tok!Heard, Tok!TokenMetadataEvent
<1>2. e.token_id = t /\ e.metadata_url = url
  BY DEF Tok!TokenMetadataEvent
<1> HIDE DEF e
<1>3. h = [s EXCEPT !.metadata = [s.metadata EXCEPT ![t] = url]]
  BY <1>1, <1>2
<1> QED
  BY <1>3 DEF Knowledge, SaysMetadata

(* At the beginning *)
LEMMA NothingKnown ==
    ASSUME NEW A, NEW I, NEW s,
           s = [balances  |-> [q \in A \X I |-> 0], operators |-> {},
                metadata  |-> [t \in I |-> None], admin |-> None, roles |-> {},
                blacklist |-> {}, nonces |-> {}, replayed |-> FALSE]
    PROVE  s \in Knowledge(A, I)
<1>1. 0 \in Sayable
  BY AmountAssumption DEF Sayable
<1> QED
  BY <1>1 DEF Knowledge

-----------------------------------------------------------------------------
(* cis2-nft *)

(* The addresses that there are, and what the entrypoints of a contract do with *)
(* transfers *)
Everybody == Accounts \cup Contracts
TransfersOf(ids, addresses) == [token_id : ids, amount : Nat, from : addresses, to : addresses]

Implementations ==
    [{imp[1] : imp \in Implementors} -> {{}} \cup {imp[2] : imp \in Implementors}]

NftStates ==
    [owned_tokens : [Everybody -> SUBSET TokenIds],
     operators    : [Everybody -> SUBSET Everybody],
     all_tokens   : SUBSET TokenIds,
     implementors : Implementations]

(* Each token that was minted has one owner and the others have none, *)
OwnedOnce(owned, tokens, A, I) ==
    /\ \A t \in I, a, b \in A : t \in owned[a] /\ t \in owned[b] => a = b
    /\ \A a \in A : owned[a] \subseteq tokens
    /\ \A t \in tokens : \E a \in A : t \in owned[a]

(* the balances that are known are those, *)
KnownOwners(owned, b, A, I) ==
    \A a \in A, t \in I : b[<<a, t>>] = IF t \in owned[a] THEN 1 ELSE 0

(* and so are the operators *)
KnownOperators(operators, known, A) ==
    \A a, o \in A : a \in operators[o] <=> <<o, a>> \in known

NftAgree(s, k) ==
    /\ OwnedOnce(s.owned_tokens, s.all_tokens, Everybody, TokenIds)
    /\ KnownOwners(s.owned_tokens, k.balances, Everybody, TokenIds)
    /\ KnownOperators(s.operators, k.operators, Everybody)
    /\ \A t \in TokenIds : k.metadata[t] = IF t \in s.all_tokens THEN t ELSE None

NftGood ==
    {w \in [state : NftStates, seen : Knowledge(Everybody, TokenIds)] : NftAgree(w.state, w.seen)}

NftInv ==
    /\ Tok!Saved \in NftGood
    /\ CallsOK(Everybody, TransfersOf(TokenIds, Everybody), {<<>>}, NftGood)

LEMMA NftGoodIs ==
    /\ Tok!Saved \in NftGood
         <=> state \in NftStates /\ seen \in Knowledge(Everybody, TokenIds) /\ NftAgree(state, seen)
    /\ \A w \in NftGood : w = [state |-> w.state, seen |-> w.seen]
  BY DEF NftGood, Tok!Saved

LEMMA NftKept ==
    ASSUME state' \in NftStates, seen' \in Knowledge(Everybody, TokenIds), NftAgree(state', seen'),
           CallsOK(Everybody, TransfersOf(TokenIds, Everybody), {<<>>}, NftGood)'
    PROVE  NftInv'
  BY DEF NftInv, NftGood, Tok!Saved

(* What a rejection restores, and an entrypoint without final events, leave what *)
(* they should. *)
LEMMA CallingOK ==
    ASSUME NEW A, NEW T, NEW G, CallsOK(A, T, {<<>>}, G), Tok!Saved \in G,
           \A w \in G : w = [state |-> w.state, seen |-> w.seen],
           \/ calls # <<>> /\ Tok!Rejects
           \/ Tok!HookReturns
    PROVE  Tok!Saved' \in G /\ CallsOK(A, T, {<<>>}, G)'
<1>1. CASE calls # <<>> /\ Tok!Rejects
  BY <1>1, RejectsOK
<1>2. CASE Tok!HookReturns
  <2>1. CallsOK(A, T, {<<>>}, G)' /\ (UNCHANGED seen \/ seen' = Told(seen, <<>>))
    BY <1>2, HookReturnsOK
  <2>2. seen' = seen /\ state' = state
    BY <1>2, <2>1, ToldNothing DEF Tok!HookReturns
  <2> QED
    BY <2>1, <2>2 DEF Tok!Saved
<1> QED
  BY <1>1, <1>2

LEMMA ImplementationsAre ==
    /\ [i \in {imp[1] : imp \in Implementors} |-> {}] \in Implementations
    /\ \A m \in Implementations, imp \in Implementors : [m EXCEPT ![imp[1]] = imp[2]] \in Implementations
  BY DEF Implementations

LEMMA NftInit == Nft!Init => NftInv
<1> SUFFICES ASSUME Nft!Init PROVE NftInv
  OBVIOUS
<1>1. seen \in Knowledge(Everybody, TokenIds)
  BY NothingKnown DEF Nft!Init, Nft!NothingSeen, Nft!Addresses, Everybody
<1>2. state \in NftStates
  BY ImplementationsAre DEF Nft!Init, Nft!NoImplementors, Nft!Addresses, Everybody, NftStates
<1>3. NftAgree(state, seen)
  BY DEF Nft!Init, Nft!NothingSeen, Nft!Addresses, Everybody, NftAgree, OwnedOnce, KnownOwners,
         KnownOperators
<1>4. calls = <<>>
  BY DEF Nft!Init
<1>5. CallsOK(Everybody, TransfersOf(TokenIds, Everybody), {<<>>}, NftGood)
  BY <1>4, EmptySeq DEF CallsOK
<1> QED
  BY <1>1, <1>2, <1>3, <1>5, NftGoodIs DEF NftInv

(* What an update of the operators does to those that are known *)
LEMMA OperatorsKnown ==
    ASSUME NEW A, NEW operators \in [A -> SUBSET A], NEW known, KnownOperators(operators, known, A),
           NEW owner \in A, NEW operator \in A, NEW update
    PROVE  LET o == [operators EXCEPT ![owner] = Tok!Updated(@, operator, update)]
           IN  o \in [A -> SUBSET A] /\ KnownOperators(o, Tok!Updated(known, <<owner, operator>>, update), A)
<1> DEFINE o == [operators EXCEPT ![owner] = Tok!Updated(@, operator, update)]
<1>1. o \in [A -> SUBSET A]
  BY DEF Tok!Updated
<1>2. ASSUME NEW a \in A, NEW b \in A
      PROVE  a \in o[b] <=> <<b, a>> \in Tok!Updated(known, <<owner, operator>>, update)
  <2>1. a \in operators[b] <=> <<b, a>> \in known
    BY DEF KnownOperators
  <2>2. CASE b = owner
    <3>1. o[b] = Tok!Updated(operators[b], operator, update)
      BY <2>2
    <3> HIDE DEF o
    <3> QED
      BY <2>1, <2>2, <3>1 DEF Tok!Updated
  <2>3. CASE b # owner
    <3>1. o[b] = operators[b]
      BY <2>3
    <3> HIDE DEF o
    <3> QED
      BY <2>1, <2>3, <3>1 DEF Tok!Updated
  <2> QED
    BY <2>2, <2>3
<1> QED
  BY <1>1, <1>2 DEF KnownOperators

LEMMA NftUpdateOperator ==
    ASSUME NftInv, NEW sender \in Everybody, NEW operator \in Operators, NEW update,
           Nft!contract_update_operator(sender, operator, update)
    PROVE  NftInv'
<1>1. /\ state \in NftStates /\ seen \in Knowledge(Everybody, TokenIds) /\ NftAgree(state, seen)
      /\ CallsOK(Everybody, TransfersOf(TokenIds, Everybody), {<<>>}, NftGood)
  BY NftGoodIs DEF NftInv
<1>2. operator \in Everybody
  BY AddressAssumption DEF Everybody
<1>3. seen' = Tok!Heard(seen, Tok!UpdateOperatorEvent(sender, operator, update))
  <2>1. Nft!UpdateOperatorEvent(sender, operator, update) = Tok!UpdateOperatorEvent(sender, operator, update)
    BY DEF Nft!UpdateOperatorEvent, Tok!UpdateOperatorEvent
  <2> QED
    BY <2>1, NftShared, ToldOne DEF Nft!contract_update_operator
<1>4. /\ seen' \in Knowledge(Everybody, TokenIds)
      /\ SaysOperators(seen, seen', Tok!Updated(seen.operators, <<sender, operator>>, update))
  BY <1>1, <1>2, <1>3, HeardOperator
<1> DEFINE o == [state.operators EXCEPT ![sender] = Tok!Updated(@, operator, update)]
<1>5. state' = [state EXCEPT !.operators = o]
  BY DEF Nft!contract_update_operator, Nft!Updated, Tok!Updated
<1>6. o \in [Everybody -> SUBSET Everybody] /\ KnownOperators(o, seen'.operators, Everybody)
  <2>1. state.operators \in [Everybody -> SUBSET Everybody] /\ KnownOperators(state.operators, seen.operators, Everybody)
    BY <1>1 DEF NftStates, NftAgree
  <2> QED
    BY <1>2, <1>4, <2>1, OperatorsKnown DEF SaysOperators
<1> HIDE DEF o
<1>7. state' \in NftStates /\ NftAgree(state', seen')
  BY <1>1, <1>4, <1>5, <1>6 DEF NftStates, NftAgree, SaysOperators, KnownOwners
<1>8. calls' = calls
  BY DEF Nft!contract_update_operator
<1> QED
  BY <1>1, <1>4, <1>7, <1>8, NftKept DEF CallsOK

LEMMA NftSetImplementor ==
    ASSUME NftInv, NEW sender, NEW imp \in Implementors,
           Nft!contract_set_implementor(sender, imp[1], imp[2])
    PROVE  NftInv'
<1>1. /\ state \in NftStates /\ seen \in Knowledge(Everybody, TokenIds) /\ NftAgree(state, seen)
      /\ CallsOK(Everybody, TransfersOf(TokenIds, Everybody), {<<>>}, NftGood)
  BY NftGoodIs DEF NftInv
<1> DEFINE m == [state.implementors EXCEPT ![imp[1]] = imp[2]]
<1>2. m \in Implementations
  BY <1>1, ImplementationsAre DEF NftStates
<1>3. state' = [state EXCEPT !.implementors = m] /\ seen' = seen /\ calls' = calls
  BY DEF Nft!contract_set_implementor
<1> HIDE DEF m
<1>4. state' \in NftStates /\ NftAgree(state', seen')
  BY <1>1, <1>2, <1>3 DEF NftStates, NftAgree
<1> QED
  BY <1>1, <1>3, <1>4, NftKept DEF CallsOK

LEMMA NftTransfer ==
    ASSUME NftInv, NEW sender \in Everybody, NEW batch \in NftBatches,
           Nft!contract_transfer(sender, batch)
    PROVE  NftInv'
<1>1. batch \in Seq(TransfersOf(TokenIds, Everybody)) /\ batch # <<>>
  BY BatchAssumption DEF BatchesOf, TransfersOf, Everybody
<1>2. Tok!StartsBatch(sender, batch, <<>>) /\ UNCHANGED <<state, seen>>
  BY NftShared DEF Nft!contract_transfer
<1> QED
  BY <1>1, <1>2, StartsOK DEF NftInv, Tok!Saved

(* A token of one owner goes to another, who may be the same. *)
LEMMA HandedOverOnce ==
    ASSUME NEW A, NEW I, NEW owned \in [A -> SUBSET I], NEW tokens, OwnedOnce(owned, tokens, A, I),
           NEW t \in I, NEW from \in A, NEW to \in A, t \in owned[from],
           NEW o, o = Tok!HandedOver(owned, t, from, to)
    PROVE  /\ o \in [A -> SUBSET I] /\ OwnedOnce(o, tokens, A, I)
           /\ \A a \in A, u \in I : u \in o[a] <=> IF u = t THEN a = to ELSE u \in owned[a]
<1>1. o \in [A -> SUBSET I]
  BY DEF Tok!HandedOver
<1>2. \A a \in A, u \in I : u \in o[a] <=> IF u = t THEN a = to ELSE u \in owned[a]
  <2> TAKE a \in A, u \in I
  <2>1. \A b \in A : t \in owned[b] => b = from
    BY DEF OwnedOnce
  <2>2. o[a] = IF a = to THEN (IF a = from THEN owned[a] \ {t} ELSE owned[a]) \cup {t}
               ELSE IF a = from THEN owned[a] \ {t} ELSE owned[a]
    BY DEF Tok!HandedOver
  <2> QED
    BY <2>1, <2>2
<1>3. OwnedOnce(o, tokens, A, I)
  <2>1. t \in tokens
    BY DEF OwnedOnce
  <2> QED
    BY <1>1, <1>2, <2>1 DEF OwnedOnce
<1> QED
  BY <1>1, <1>2, <1>3

(* The event tells so. *)
LEMMA HandedOverKnown ==
    ASSUME NEW A, NEW I, NEW owned, NEW o, NEW b \in [A \X I -> Sayable], KnownOwners(owned, b, A, I),
           NEW t \in I, NEW from \in A, NEW to \in A, t \in owned[from],
           \A a \in A : t \in owned[a] => a = from,
           \A a \in A, u \in I : u \in o[a] <=> IF u = t THEN a = to ELSE u \in owned[a]
    PROVE  KnownOwners(o, Tok!Transferred(b, t, 1, from, to), A, I)
<1>0. Tok!sub(1, 1) = 0 /\ Tok!add(0, 1) = 1
  BY AmountAssumption DEF Tok!add, Tok!sub
<1> DEFINE d == Tok!Transferred(b, t, 1, from, to)
<1>1. b \in [A \X I -> Sayable]
  OBVIOUS
<1>2. ASSUME NEW a \in A, NEW u \in I
      PROVE  d[<<a, u>>] = IF u \in o[a] THEN 1 ELSE 0
  <2>1. b[<<a, u>>] = (IF u \in owned[a] THEN 1 ELSE 0) /\ b[<<from, t>>] = 1
    BY DEF KnownOwners
  <2>2. b[<<to, t>>] = IF to = from THEN 1 ELSE 0
    BY DEF KnownOwners
  <2> DEFINE c == [b EXCEPT ![<<from, t>>] = Tok!sub(@, 1)]
  <2>3. c \in [A \X I -> Sayable] /\ c[<<from, t>>] = 0 /\ \A q \in A \X I : q # <<from, t>> => c[q] = b[q]
    <3>1. 0 \in Sayable
      BY AmountAssumption DEF Sayable
    <3> QED
      BY <1>0, <1>1, <2>1, <3>1
  <2>4. d = [c EXCEPT ![<<to, t>>] = Tok!add(@, 1)]
    BY DEF Tok!Transferred
  <2> HIDE DEF c, d
  <2>5. c[<<to, t>>] = 0
    BY <2>2, <2>3
  <2>6. d[<<a, u>>] = IF <<a, u>> = <<to, t>> THEN 1 ELSE c[<<a, u>>]
    <3>1. [c EXCEPT ![<<to, t>>] = Tok!add(@, 1)] = [c EXCEPT ![<<to, t>>] = 1]
      BY <1>0, <2>5
    <3>2. <<to, t>> \in DOMAIN c /\ <<a, u>> \in DOMAIN c
      BY <2>3
    <3> QED
      BY <2>4, <3>1, <3>2
  <2> QED
    BY <2>1, <2>3, <2>6
<1> QED
  BY <1>2 DEF KnownOwners

(* A transfer of nothing tells nothing. *)
Balances(b, A, I) == b \in [A \X I -> Sayable]

LEMMA NothingTransferred ==
    ASSUME NEW A, NEW I, NEW b, Balances(b, A, I), NEW t \in I, NEW from \in A, NEW to \in A
    PROVE  Tok!Transferred(b, t, 0, from, to) = b
<1>0. b \in [A \X I -> Sayable]
  BY DEF Balances
<1>1. \A x \in Sayable : Tok!sub(x, 0) = x /\ Tok!add(x, 0) = x
  BY AmountAssumption DEF Sayable, Tok!add, Tok!sub
<1>2. [b EXCEPT ![<<from, t>>] = Tok!sub(@, 0)] = b
  <2>1. b[<<from, t>>] \in Sayable
    BY <1>0
  <2> QED
    BY <1>0, <1>1, <2>1
<1>3. [b EXCEPT ![<<to, t>>] = Tok!add(@, 0)] = b
  <2>1. b[<<to, t>>] \in Sayable
    BY <1>0
  <2> QED
    BY <1>0, <1>1, <2>1
<1> QED
  BY <1>2, <1>3 DEF Tok!Transferred

(* Tokens have one owner, who is known. *)
Owners(owned, tokens, b, A, I) ==
    /\ owned \in [A -> SUBSET I] /\ OwnedOnce(owned, tokens, A, I)
    /\ b \in [A \X I -> Sayable] /\ KnownOwners(owned, b, A, I)

(* So they have after a transfer of a token, or of nothing. *)
LEMMA MovedOnce ==
    ASSUME NEW A, NEW I, NEW owned, NEW tokens, NEW b, Owners(owned, tokens, b, A, I),
           NEW u \in I, NEW amount \in {0, 1}, NEW from \in A, NEW to \in A,
           amount = 1 => u \in owned[from],
           NEW o, o = IF amount = 0 THEN owned ELSE Tok!HandedOver(owned, u, from, to)
    PROVE  /\ o \in [A -> SUBSET I] /\ OwnedOnce(o, tokens, A, I)
           /\ KnownOwners(o, Tok!Transferred(b, u, amount, from, to), A, I)
<1>0. /\ owned \in [A -> SUBSET I] /\ OwnedOnce(owned, tokens, A, I)
      /\ b \in [A \X I -> Sayable] /\ KnownOwners(owned, b, A, I)
  BY DEF Owners
<1>1. CASE amount = 0
  <2>1. Tok!Transferred(b, u, 0, from, to) = b
    <3>1. Balances(b, A, I)
      BY <1>0 DEF Balances
    <3> QED
      BY <3>1, NothingTransferred
  <2> QED
    BY <1>0, <1>1, <2>1
<1>2. CASE amount = 1
  <2>1. o = Tok!HandedOver(owned, u, from, to)
    BY <1>2
  <2>2. /\ o \in [A -> SUBSET I] /\ OwnedOnce(o, tokens, A, I)
        /\ \A a \in A, v \in I : v \in o[a] <=> IF v = u THEN a = to ELSE v \in owned[a]
    BY <1>0, <1>2, <2>1, HandedOverOnce
  <2>3. \A a \in A : u \in owned[a] => a = from
    BY <1>0, <1>2 DEF OwnedOnce
  <2>4. KnownOwners(o, Tok!Transferred(b, u, 1, from, to), A, I)
    BY <1>0, <1>2, <2>2, <2>3, HandedOverKnown
  <2> QED
    BY <1>2, <2>2, <2>4
<1> QED
  BY <1>1, <1>2

LEMMA NftMoves ==
    ASSUME NftInv,
           Nft!NextTransfer(Nft!Accepts(Nft!Top.sender, Nft!Upcoming), Nft!Moved(Nft!Upcoming),
                            Nft!OneEvent(Nft!Upcoming))
    PROVE  NftInv'
<1> DEFINE t == Tok!Upcoming
           T == TransfersOf(TokenIds, Everybody)
<1>1. /\ state \in NftStates /\ seen \in Knowledge(Everybody, TokenIds) /\ NftAgree(state, seen)
      /\ CallsOK(Everybody, T, {<<>>}, NftGood)
  BY NftGoodIs DEF NftInv
<1>2. /\ calls # <<>> /\ Tok!Top.hook = None
      /\ \/ Nft!Accepts(Tok!Top.sender, t) /\ Moves(Nft!Moved(t), Nft!OneEvent(t))
         \/ Tok!Rejects
  BY NftTransfers
<1>3. CASE Tok!Rejects
  BY <1>2, <1>3, CallingOK, NftGoodIs DEF NftInv
<1>4. CASE Nft!Accepts(Tok!Top.sender, t) /\ Moves(Nft!Moved(t), Nft!OneEvent(t))
  <2>1. t \in T /\ Tok!Top.last = <<>>
    BY <1>1, <1>2, UpcomingOK
  <2>2. t.token_id \in TokenIds /\ t.amount \in Nat /\ t.from \in Everybody /\ t.to \in Everybody
    BY <2>1 DEF TransfersOf
  <2>3. CallsOK(Everybody, T, {<<>>}, NftGood)'
    BY <1>1, <1>2, <1>4, MovesOK, AddressAssumption
  <2>4. seen' = Tok!Heard(seen, Tok!TransferEvent(t))
    <3>1. Nft!OneEvent(t) = <<Tok!TransferEvent(t)>>
      BY DEF Nft!OneEvent, Nft!TransferEvent, Tok!TransferEvent
    <3>2. seen' = Told(seen, Nft!OneEvent(t) \o <<>>)
      BY <1>4, <2>1 DEF Moves
    <3>3. Nft!OneEvent(t) \o <<>> = <<Tok!TransferEvent(t)>>
      BY <3>1
    <3> QED
      BY <3>2, <3>3, ToldOne
  <2>5. /\ seen' \in Knowledge(Everybody, TokenIds)
        /\ SaysBalances(seen, seen', Tok!Transferred(seen.balances, t.token_id, t.amount, t.from, t.to))
    BY <1>1, <2>2, <2>4, HeardTransfer
  <2> DEFINE owned == state.owned_tokens
             o == IF t.amount = 0 THEN owned ELSE Tok!HandedOver(owned, t.token_id, t.from, t.to)
  <2>6. t.amount \in {0, 1} /\ (t.amount = 1 => t.token_id \in owned[t.from])
    BY <1>4 DEF Nft!Accepts, Nft!balance
  <2>7. Owners(owned, state.all_tokens, seen.balances, Everybody, TokenIds)
    BY <1>1 DEF NftStates, NftAgree, Knowledge, Owners
  <2>8. state' = [state EXCEPT !.owned_tokens = o]
    <3>1. state = [state EXCEPT !.owned_tokens = state.owned_tokens]
      BY <1>1 DEF NftStates
    <3> QED
      BY <1>4, <2>6, <3>1 DEF Moves, Nft!Moved, Nft!HandedOver, Tok!HandedOver
  <2>9. o = IF t.amount = 0 THEN owned ELSE Tok!HandedOver(owned, t.token_id, t.from, t.to)
    OBVIOUS
  <2> HIDE DEF o, owned, t
  <2>10. /\ o \in [Everybody -> SUBSET TokenIds] /\ OwnedOnce(o, state.all_tokens, Everybody, TokenIds)
         /\ KnownOwners(o, Tok!Transferred(seen.balances, t.token_id, t.amount, t.from, t.to), Everybody, TokenIds)
    BY <2>2, <2>6, <2>7, <2>9, MovedOnce
  <2>11. state' \in NftStates /\ NftAgree(state', seen')
    BY <1>1, <2>5, <2>8, <2>10 DEF NftAgree, NftStates, SaysBalances, KnownOperators
  <2> QED
    BY <2>3, <2>5, <2>11, NftKept
<1> QED
  BY <1>2, <1>3, <1>4

(* A set in some order *)
LEMMA InOrder ==
    ASSUME NEW S, IsFiniteSet(S), NEW f, f = Nft!SetToSeq(S)
    PROVE  \E n \in Nat :
              /\ f \in [1 .. n -> S] /\ Len(f) = n
              /\ \A i, j \in 1 .. n : f[i] = f[j] => i = j
              /\ \A x \in S : \E i \in 1 .. n : f[i] = x
<1> DEFINE n == Cardinality(S)
<1>1. n \in Nat /\ ExistsBijection(1 .. n, S)
  BY FS_CardinalityType
<1> HIDE DEF n
<1>2. \E g \in [1 .. n -> S] : IsInjective(g)
  BY <1>1 DEF ExistsBijection, Bijection, Injection
<1>3. f \in [1 .. n -> S] /\ IsInjective(f)
  <2>1. f = CHOOSE g \in [1 .. n -> S] : IsInjective(g)
    BY DEF Nft!SetToSeq, Nft!IsInjective, IsInjective, Nft!Cardinality, Cardinality, n
  <2> QED
    BY <1>2, <2>1
<1>4. f \in Injection(1 .. n, S)
  BY <1>3 DEF Injection
<1>5. IsFiniteSet(1 .. n) /\ Cardinality(1 .. n) = n
  BY <1>1, FS_Interval
<1>6. f \in Surjection(1 .. n, S)
  BY <1>4, <1>5, FS_Injection DEF n
<1>7. Len(f) = n
  BY <1>1, <1>3, LenProperties
<1> QED
  BY <1>1, <1>3, <1>6, <1>7 DEF Surjection, IsInjective

(* What is known, h, when the tokens U have been minted for an owner and s was *)
(* known before *)
KnownMinted(s, h, owner, U) ==
    /\ h \in Knowledge(Everybody, TokenIds)
    /\ h.operators = s.operators
    /\ \A a \in Everybody, t \in TokenIds :
         h.balances[<<a, t>>] = IF a = owner /\ t \in U THEN Tok!add(s.balances[<<a, t>>], 1)
                                ELSE s.balances[<<a, t>>]
    /\ \A t \in TokenIds : h.metadata[t] = IF t \in U THEN t ELSE s.metadata[t]

LEMMA OneMinted ==
    ASSUME NEW s, NEW h, NEW owner \in Everybody, NEW U, KnownMinted(s, h, owner, U),
           NEW t \in TokenIds, t \notin U
    PROVE  KnownMinted(s, Tok!Heard(Tok!Heard(h, Tok!MintEvent(t, 1, owner)), Tok!TokenMetadataEvent(t, t)),
                       owner, U \cup {t})
<1> DEFINE g == Tok!Heard(h, Tok!MintEvent(t, 1, owner))
           f == Tok!Heard(g, Tok!TokenMetadataEvent(t, t))
           b == [h.balances EXCEPT ![<<owner, t>>] = Tok!add(@, 1)]
           m == [h.metadata EXCEPT ![t] = t]
<1>1. h \in Knowledge(Everybody, TokenIds)
  BY DEF KnownMinted
<1>2. g \in Knowledge(Everybody, TokenIds) /\ SaysBalances(h, g, b)
  BY <1>1, HeardMint
<1>3. f \in Knowledge(Everybody, TokenIds) /\ SaysMetadata(g, f, [g.metadata EXCEPT ![t] = t])
  <2> HIDE DEF g
  <2> QED
    BY <1>2, HeardMetadata
<1>4. f.operators = h.operators /\ f.balances = b /\ f.metadata = m
  <2> HIDE DEF f, g, b
  <2> QED
    BY <1>2, <1>3 DEF SaysBalances, SaysMetadata
<1>5. /\ h.balances \in [Everybody \X TokenIds -> Sayable]
      /\ h.metadata \in [TokenIds -> TokenIds \cup Texts \cup {None}]
  BY <1>1 DEF Knowledge
<1>6. ASSUME NEW a \in Everybody, NEW u \in TokenIds
      PROVE  b[<<a, u>>] = IF a = owner /\ u \in U \cup {t} THEN Tok!add(s.balances[<<a, u>>], 1)
                           ELSE s.balances[<<a, u>>]
  <2>1. h.balances[<<a, u>>] = IF a = owner /\ u \in U THEN Tok!add(s.balances[<<a, u>>], 1)
                               ELSE s.balances[<<a, u>>]
    BY DEF KnownMinted
  <2>2. b[<<a, u>>] = IF a = owner /\ u = t THEN Tok!add(h.balances[<<a, u>>], 1) ELSE h.balances[<<a, u>>]
    BY <1>5
  <2> HIDE DEF b
  <2> QED
    BY <2>1, <2>2
<1>7. ASSUME NEW u \in TokenIds
      PROVE  m[u] = IF u \in U \cup {t} THEN u ELSE s.metadata[u]
  BY <1>5 DEF KnownMinted
<1> HIDE DEF f, b, m
<1>8. KnownMinted(s, f, owner, U \cup {t})
  BY <1>3, <1>4, <1>6, <1>7 DEF KnownMinted
<1> QED
  BY <1>8 DEF f

LEMMA AllMinted ==
    ASSUME NEW s \in Knowledge(Everybody, TokenIds), NEW owner \in Everybody,
           NEW tokens \in SUBSET TokenIds
    PROVE  KnownMinted(s, Told(s, Nft!MintEvents(Nft!SetToSeq(tokens), owner)), owner, tokens)
<1> DEFINE ts == Nft!SetToSeq(tokens)
           ev(i) == IF i % 2 = 1 THEN Tok!MintEvent(ts[(i + 1) \div 2], 1, owner)
                    ELSE Tok!TokenMetadataEvent(ts[(i + 1) \div 2], ts[(i + 1) \div 2])
           E(k) == [i \in 1 .. (2 * k) |-> ev(i)]
           U(k) == {ts[j] : j \in 1 .. k}
<1>1. IsFiniteSet(tokens)
  BY AddressAssumption, FS_Subset
<1>2. PICK n \in Nat :
         /\ ts \in [1 .. n -> tokens] /\ Len(ts) = n
         /\ \A i, j \in 1 .. n : ts[i] = ts[j] => i = j
         /\ \A x \in tokens : \E i \in 1 .. n : ts[i] = x
  BY <1>1, InOrder
<1>3. Nft!MintEvents(ts, owner) = E(n)
  BY <1>2 DEF Nft!MintEvents, Nft!MintEvent, Tok!MintEvent, Nft!TokenMetadataEvent, Tok!TokenMetadataEvent
<1>4. U(n) = tokens
  <2> HIDE DEF ts
  <2> QED
    BY <1>2
<1> HIDE DEF ts
<1> DEFINE P(k) == KnownMinted(s, Told(s, E(k)), owner, U(k))
<1>5. P(0)
  <2>1. E(0) = <<>>
    <3>1. 1 .. (2 * 0) = {}
      OBVIOUS
    <3> HIDE DEF ev
    <3> QED
      BY <3>1
  <2>2. U(0) = {}
    OBVIOUS
  <2>3. Told(s, E(0)) = s
    BY <2>1, ToldNothing
  <2> QED
    BY <2>2, <2>3 DEF KnownMinted
<1>6. ASSUME NEW k \in Nat, k + 1 <= n, P(k) PROVE P(k + 1)
  <2> DEFINE t == ts[k + 1]
             es == E(k)
             fs == [i \in 1 .. (2 * k + 1) |-> ev(i)]
             gs == E(k + 1)
             m  == 2 * k
             p  == 2 * k + 1
             q  == 2 * k + 2
  <2>1. t \in TokenIds /\ t \notin U(k) /\ U(k + 1) = U(k) \cup {t}
    <3>1. k + 1 \in 1 .. n /\ \A j \in 1 .. k : j \in 1 .. n /\ j # k + 1
      BY <1>6
    <3>2. t \in TokenIds /\ t \notin U(k)
      BY <1>2, <3>1
    <3>3. 1 .. (k + 1) = (1 .. k) \cup {k + 1}
      OBVIOUS
    <3> QED
      BY <3>2, <3>3
  <2>2. ev(p) = Tok!MintEvent(t, 1, owner) /\ ev(q) = Tok!TokenMetadataEvent(t, t)
    <3>1. p % 2 = 1 /\ (p + 1) \div 2 = k + 1 /\ q % 2 = 0 /\ (q + 1) \div 2 = k + 1
      OBVIOUS
    <3> HIDE DEF p, q
    <3> QED
      BY <3>1
  <2>3. /\ m \in Nat /\ p \in Nat /\ q \in Nat /\ p = m + 1 /\ q = p + 1 /\ 2 * (k + 1) = q
    OBVIOUS
  <2>4. /\ DOMAIN es = 1 .. m /\ DOMAIN fs = 1 .. p /\ DOMAIN gs = 1 .. q
        /\ \A i \in 1 .. m : fs[i] = es[i] /\ es[i] = ev(i)
        /\ \A i \in 1 .. p : gs[i] = fs[i] /\ fs[i] = ev(i)
        /\ fs[p] = ev(p) /\ gs[q] = ev(q)
    <3> HIDE DEF ev
    <3>1. \A i \in 1 .. m : i \in 1 .. p
      OBVIOUS
    <3>2. \A i \in 1 .. p : i \in 1 .. q
      OBVIOUS
    <3>3. p \in 1 .. p /\ q \in 1 .. q
      OBVIOUS
    <3>4. gs = [i \in 1 .. q |-> ev(i)] /\ fs = [i \in 1 .. p |-> ev(i)] /\ es = [i \in 1 .. m |-> ev(i)]
      BY <2>3
    <3> HIDE DEF m, p, q, es, fs, gs
    <3> QED
      BY <3>1, <3>2, <3>3, <3>4
  <2> HIDE DEF es, fs, gs, m, p, q, ev, t
  <2>5. Told(s, fs) = Tok!Heard(Told(s, es), ev(p))
    BY <2>3, <2>4, ToldNext
  <2>6. Told(s, gs) = Tok!Heard(Told(s, fs), ev(q))
    <3>1. p \in Nat /\ q = p + 1
      BY <2>3
    <3>2. DOMAIN fs = 1 .. p /\ DOMAIN gs = 1 .. q /\ (\A i \in 1 .. p : gs[i] = fs[i]) /\ gs[q] = ev(q)
      BY <2>4
    <3> QED
      BY <3>1, <3>2, ToldNext
  <2>7. KnownMinted(s, Told(s, es), owner, U(k))
    BY <1>6 DEF es
  <2> HIDE DEF U
  <2>8. KnownMinted(s, Told(s, gs), owner, U(k) \cup {t})
    BY <2>1, <2>2, <2>5, <2>6, <2>7, OneMinted
  <2> QED
    BY <2>1, <2>8 DEF gs
<1> DEFINE T == {k \in 0 .. n : ~ P(k)}
<1>7. T = {}
  <2> SUFFICES ASSUME T # {} PROVE FALSE
    OBVIOUS
  <2> HIDE DEF P
  <2>1. T \subseteq Nat
    OBVIOUS
  <2>2. PICK k \in T : \A j \in T : k <= j
    <3> HIDE DEF T
    <3> QED
      BY <2>1, LeastNumber
  <2>3. k # 0
    BY <1>5
  <2>4. k - 1 \in 0 .. n /\ k - 1 \notin T
    BY <2>2, <2>3
  <2>5. P(k - 1) /\ k - 1 \in Nat /\ (k - 1) + 1 <= n /\ (k - 1) + 1 = k
    BY <2>3, <2>4
  <2>6. P((k - 1) + 1)
    BY <1>6, <2>5
  <2> QED
    BY <2>5, <2>6
<1>8. P(n)
  <2> HIDE DEF P
  <2> QED
    BY <1>7
<1> QED
  BY <1>3, <1>4, <1>8 DEF ts

LEMMA NftMint ==
    ASSUME NftInv, NEW sender, NEW owner \in Everybody, NEW tokens \in SUBSET TokenIds,
           Nft!contract_mint(sender, owner, tokens)
    PROVE  NftInv'
<1>1. /\ state \in NftStates /\ seen \in Knowledge(Everybody, TokenIds) /\ NftAgree(state, seen)
      /\ CallsOK(Everybody, TransfersOf(TokenIds, Everybody), {<<>>}, NftGood)
  BY NftGoodIs DEF NftInv
<1> DEFINE owned == state.owned_tokens
           o == [owned EXCEPT ![owner] = @ \cup tokens]
           all == state.all_tokens \cup tokens
<1>2. /\ state' = [state EXCEPT !.all_tokens = all, !.owned_tokens = o] /\ calls' = calls
      /\ \A t \in tokens : t \notin state.all_tokens
  BY DEF Nft!contract_mint, Nft!contains_token
<1>3. KnownMinted(seen, seen', owner, tokens)
  <2>1. seen' = Told(seen, Nft!MintEvents(Nft!SetToSeq(tokens), owner))
    BY NftShared DEF Nft!contract_mint
  <2> QED
    BY <1>1, <2>1, AllMinted
<1>4. owned \in [Everybody -> SUBSET TokenIds] /\ OwnedOnce(owned, state.all_tokens, Everybody, TokenIds)
  BY <1>1 DEF NftStates, NftAgree
<1>5. /\ o \in [Everybody -> SUBSET TokenIds]
      /\ \A a \in Everybody, t \in TokenIds : t \in o[a] <=> t \in owned[a] \/ (a = owner /\ t \in tokens)
  BY <1>4
<1>6. \A t \in tokens, a \in Everybody : t \notin owned[a]
  BY <1>2, <1>4 DEF OwnedOnce
<1>7. OwnedOnce(o, all, Everybody, TokenIds)
  <2> HIDE DEF o, owned
  <2> QED
    BY <1>2, <1>4, <1>5, <1>6 DEF OwnedOnce
<1>8. KnownOwners(o, seen'.balances, Everybody, TokenIds)
  <2>0. Tok!add(0, 1) = 1
    BY AmountAssumption DEF Tok!add
  <2> SUFFICES ASSUME NEW a \in Everybody, NEW t \in TokenIds
               PROVE  seen'.balances[<<a, t>>] = IF t \in o[a] THEN 1 ELSE 0
    BY DEF KnownOwners
  <2>1. seen.balances[<<a, t>>] = IF t \in owned[a] THEN 1 ELSE 0
    BY <1>1 DEF NftAgree, KnownOwners
  <2>2. seen'.balances[<<a, t>>] = IF a = owner /\ t \in tokens THEN Tok!add(seen.balances[<<a, t>>], 1)
                                   ELSE seen.balances[<<a, t>>]
    BY <1>3 DEF KnownMinted
  <2> HIDE DEF o, owned
  <2> QED
    BY <1>5, <1>6, <2>0, <2>1, <2>2
<1> HIDE DEF o
<1>9. state' \in NftStates /\ NftAgree(state', seen')
  BY <1>1, <1>2, <1>3, <1>5, <1>7, <1>8 DEF NftStates, NftAgree, KnownMinted
<1> QED
  BY <1>1, <1>2, <1>3, <1>9, NftKept DEF KnownMinted, CallsOK

LEMMA NftNext == ASSUME NftInv, Nft!Next PROVE NftInv'
<1>1. CASE \E sender \in Nft!Addresses :
              \/ \E owner \in Nft!Addresses, tokens \in SUBSET TokenIds \ {{}} :
                    Nft!contract_mint(sender, owner, tokens)
              \/ \E batch \in NftBatches : Nft!contract_transfer(sender, batch)
              \/ \E operator \in Operators, update \in {"add", "remove"} :
                    Nft!contract_update_operator(sender, operator, update)
              \/ \E imp \in Implementors : Nft!contract_set_implementor(sender, imp[1], imp[2])
  BY <1>1, NftMint, NftTransfer, NftUpdateOperator, NftSetImplementor DEF Nft!Addresses, Everybody
<1>2. CASE Nft!HookReturns \/ Nft!HookRejects
  BY <1>2, NftShared, CallingOK, NftGoodIs DEF NftInv
<1> QED
  BY <1>1, <1>2, NftMoves DEF Nft!Next

LEMMA NftOneOwner == NftInv => Nft!OneOwner
<1> SUFFICES ASSUME NftInv, NEW t \in TokenIds
             PROVE  Cardinality({a \in Everybody : t \in state.owned_tokens[a]})
                      = IF t \in state.all_tokens THEN 1 ELSE 0
  BY DEF Nft!OneOwner, Nft!Addresses, Everybody, Nft!contains_token, Nft!Cardinality, Cardinality
<1> DEFINE owned == state.owned_tokens
<1>1. OwnedOnce(owned, state.all_tokens, Everybody, TokenIds)
  BY NftGoodIs DEF NftInv, NftAgree
<1>2. CASE t \in state.all_tokens
  <2>1. PICK b \in Everybody : t \in owned[b]
    BY <1>1, <1>2 DEF OwnedOnce
  <2>2. {a \in Everybody : t \in owned[a]} = {b}
    BY <1>1, <2>1 DEF OwnedOnce
  <2> QED
    BY <1>2, <2>2, FS_Singleton
<1>3. CASE t \notin state.all_tokens
  <2>1. {a \in Everybody : t \in owned[a]} = {}
    BY <1>1, <1>3 DEF OwnedOnce
  <2> QED
    BY <1>3, <2>1, FS_EmptySet
<1> QED
  BY <1>2, <1>3

LEMMA NftLogTells == NftInv => Nft!LogTellsState
<1> SUFFICES ASSUME NftInv PROVE Nft!LogTellsState
  OBVIOUS
<1>1. NftAgree(state, seen) /\ state \in NftStates
  BY NftGoodIs DEF NftInv
<1>2. Nft!TellsBalances(state.all_tokens, Nft!contract_balance_of)
  <2> SUFFICES ASSUME NEW t \in state.all_tokens, NEW a \in Everybody
               PROVE  (IF t \in state.owned_tokens[a] THEN 1 ELSE 0) = seen.balances[<<a, t>>]
    BY DEF Nft!TellsBalances, Nft!contract_balance_of, Nft!contains_token, Nft!balance, Nft!Addresses, Everybody
  <2>1. t \in TokenIds
    BY <1>1 DEF NftStates
  <2> QED
    BY <1>1, <2>1 DEF NftAgree, KnownOwners
<1>3. Nft!TellsOperators(Nft!contract_operator_of)
  <2>1. \A a, o \in Everybody : a \in state.operators[o] <=> <<o, a>> \in seen.operators
    BY <1>1 DEF NftAgree, KnownOperators
  <2> QED
    BY <2>1 DEF Nft!TellsOperators, Nft!contract_operator_of, Nft!is_operator, Nft!Addresses, Everybody
<1> QED
  BY <1>1, <1>2, <1>3 DEF Nft!LogTellsState, NftAgree, Nft!contract_token_metadata, Nft!contains_token

-----------------------------------------------------------------------------
(* Signed messages *)

(* What an entrypoint logs at its end *)
FinalEvents(A) == {<<>>} \cup {<<Tok!NonceEvent(a, n)>> : a \in A, n \in Nat}

(* An entrypoint under way will log that a message was executed. *)
Pending(f, a, n) == f.last = <<Tok!NonceEvent(a, n)>>

(* Nothing was executed twice, and the nonces of what was executed and of what the *)
(* first i entrypoints of cs execute have been counted and do not meet. *)
NoncesOK(r, k, cs, i) ==
    /\ ~ k.replayed
    /\ \A q \in k.nonces : q[2] < r[q[1]]
    /\ \A j \in 1 .. i : \A a, n : Pending(cs[j], a, n) => n < r[a] /\ <<a, n>> \notin k.nonces

(* So it is now and after every rejection, and no two entrypoints execute the same. *)
NonceInv(r, k, cs) ==
    /\ NoncesOK(r, k, cs, Len(cs))
    /\ \A i \in 1 .. Len(cs) :
          NoncesOK(cs[i].saved.state.nonces_registry, cs[i].saved.seen, cs, i - 1)
    /\ \A i, j \in 1 .. Len(cs) : \A a, n :
          i # j => ~ (Pending(cs[i], a, n) /\ Pending(cs[j], a, n))

(* What is known after an event of a message *)
SaysNonce(s, h, a, n) ==
    /\ h.balances = s.balances /\ h.operators = s.operators /\ h.metadata = s.metadata
    /\ h.admin = s.admin /\ h.roles = s.roles /\ h.blacklist = s.blacklist
    /\ h.nonces = s.nonces \cup {<<a, n>>}
    /\ h.replayed => s.replayed \/ <<a, n>> \in s.nonces

LEMMA HeardNonce ==
    ASSUME NEW A, NEW I, NEW s \in Knowledge(A, I), NEW a \in A, NEW n \in Nat,
           NEW h, h = Tok!Heard(s, Tok!NonceEvent(a, n))
    PROVE  h \in Knowledge(A, I) /\ SaysNonce(s, h, a, n)
<1> DEFINE e == Tok!NonceEvent(a, n)
<1>1. h = [s EXCEPT !.nonces = @ \cup {<<e.account, e.nonce>>},
                    !.replayed = @ \/ <<e.account, e.nonce>> \in s.nonces]
  BY DEF Tok!Heard, Tok!NonceEvent
<1>2. e.account = a /\ e.nonce = n
  BY DEF Tok!NonceEvent
<1> HIDE DEF e
<1> DEFINE b == (s.replayed \/ <<a, n>> \in s.nonces)
           N == s.nonces \cup {<<a, n>>}
<1>3. h = [s EXCEPT !.nonces = N, !.replayed = b]
  BY <1>1, <1>2
<1>4. b \in BOOLEAN /\ N \in SUBSET (A \X Nat)
  BY DEF Knowledge
<1>5. b => s.replayed \/ <<a, n>> \in s.nonces
  OBVIOUS
<1> HIDE DEF b, N
<1>6. h \in Knowledge(A, I) /\ h.replayed = b /\ h.nonces = N
      /\ h.balances = s.balances /\ h.operators = s.operators /\ h.metadata = s.metadata
      /\ h.admin = s.admin /\ h.roles = s.roles /\ h.blacklist = s.blacklist
  BY <1>3, <1>4 DEF Knowledge
<1> QED
  BY <1>5, <1>6 DEF SaysNonce, N

(* Nothing but nonces is told at the end of an entrypoint. *)
SaysFinal(s, h, l) ==
    /\ h.balances = s.balances /\ h.operators = s.operators /\ h.metadata = s.metadata
    /\ h.admin = s.admin /\ h.roles = s.roles /\ h.blacklist = s.blacklist
    /\ \/ l = <<>> /\ h.nonces = s.nonces /\ (h.replayed => s.replayed)
       \/ \E a, n : l = <<Tok!NonceEvent(a, n)>> /\ SaysNonce(s, h, a, n)

LEMMA ToldFinal ==
    ASSUME NEW A, NEW I, NEW s \in Knowledge(A, I), NEW B, B \subseteq A, NEW l \in FinalEvents(B),
           NEW h, h = Told(s, l)
    PROVE  h \in Knowledge(A, I) /\ SaysFinal(s, h, l)
<1>1. CASE l = <<>>
  <2>1. h = s
    BY <1>1, ToldNothing
  <2> QED
    BY <1>1, <2>1 DEF SaysFinal
<1>2. CASE l # <<>>
  <2>1. PICK a \in B, n \in Nat : l = <<Tok!NonceEvent(a, n)>>
    BY <1>2 DEF FinalEvents
  <2>2. h = Tok!Heard(s, Tok!NonceEvent(a, n))
    BY <2>1, ToldOne
  <2>3. h \in Knowledge(A, I) /\ SaysNonce(s, h, a, n)
    BY <2>2, HeardNonce
  <2> QED
    BY <2>1, <2>3 DEF SaysFinal, SaysNonce
<1> QED
  BY <1>1, <1>2

(* Events are told, and then another. *)
LEMMA ToldThen ==
    ASSUME NEW S, NEW es \in Seq(S), NEW s, NEW g
    PROVE  Told(s, es \o <<g>>) = Tok!Heard(Told(s, es), g)
<1> DEFINE fs == es \o <<g>>
           n == Len(es)
           m == n + 1
           R == S \cup {g}
<1>1. es \in Seq(R) /\ <<g>> \in Seq(R) /\ Len(<<g>>) = 1 /\ <<g>>[1] = g
  OBVIOUS
<1>2. n \in Nat /\ DOMAIN es = 1 .. n
  BY LenProperties
<1>3. /\ fs \in Seq(R) /\ Len(fs) = n + 1
      /\ \A i \in 1 .. (n + 1) : fs[i] = IF i <= n THEN es[i] ELSE <<g>>[i - n]
  BY <1>1, ConcatProperties
<1>4. DOMAIN fs = 1 .. m
  BY <1>3, LenProperties
<1>5. fs[m] = g /\ \A i \in 1 .. n : fs[i] = es[i]
  <2> HIDE DEF fs, n
  <2>1. m \in 1 .. (n + 1) /\ ~ (m <= n) /\ m - n = 1
    BY <1>2
  <2> QED
    BY <1>1, <1>2, <1>3, <2>1
<1> HIDE DEF fs, n, m
<1>6. m = n + 1
  BY DEF m
<1>7. Told(s, fs) = Tok!Heard(Told(s, es), fs[m])
  BY <1>2, <1>4, <1>5, <1>6, ToldNext
<1> QED
  BY <1>5, <1>7 DEF fs

(* The events of an entrypoint come before its final ones. *)
LEMMA ToldAfter ==
    ASSUME NEW s, NEW B, NEW l \in FinalEvents(B)
    PROVE  /\ \A e : Told(s, <<e>> \o l) = Told(Tok!Heard(s, e), l)
           /\ \A e, f : Told(s, <<e, f>> \o l) = Told(Tok!Heard(Tok!Heard(s, e), f), l)
<1>1. CASE l = <<>>
  <2>1. ASSUME NEW e PROVE Told(s, <<e>> \o l) = Told(Tok!Heard(s, e), l)
    <3>1. <<e>> \o l = <<e>>
      BY <1>1
    <3> QED
      BY <1>1, <3>1, ToldOne, ToldNothing
  <2>2. ASSUME NEW e, NEW f PROVE Told(s, <<e, f>> \o l) = Told(Tok!Heard(Tok!Heard(s, e), f), l)
    <3>1. <<e, f>> \o l = <<e, f>>
      BY <1>1
    <3> QED
      BY <1>1, <3>1, ToldTwo, ToldNothing
  <2> QED
    BY <2>1, <2>2
<1>2. CASE l # <<>>
  <2>1. PICK g : l = <<g>>
    BY <1>2 DEF FinalEvents
  <2>2. ASSUME NEW e PROVE Told(s, <<e>> \o l) = Told(Tok!Heard(s, e), l)
    <3>1. <<e>> \in Seq({e})
      OBVIOUS
    <3>2. Told(s, <<e>> \o <<g>>) = Tok!Heard(Told(s, <<e>>), g)
      BY <3>1, ToldThen
    <3> QED
      BY <2>1, <3>2, ToldOne
  <2>3. ASSUME NEW e, NEW f PROVE Told(s, <<e, f>> \o l) = Told(Tok!Heard(Tok!Heard(s, e), f), l)
    <3>1. <<e, f>> \in Seq({e, f})
      OBVIOUS
    <3>2. Told(s, <<e, f>> \o <<g>>) = Tok!Heard(Told(s, <<e, f>>), g)
      BY <3>1, ToldThen
    <3> QED
      BY <2>1, <3>2, ToldOne, ToldTwo
  <2> QED
    BY <2>2, <2>3
<1> QED
  BY <1>1, <1>2

(* Nonces are those of the accounts A. *)
NonceTypes(A, r, k, cs) ==
    /\ r \in [A -> Nat] /\ k.nonces \in SUBSET (A \X Nat)
    /\ \A i \in 1 .. Len(cs) : cs[i].last \in FinalEvents(A)

(* An entrypoint that is called counts the nonce of the message that it executes. *)
Counts(A, r, r2, last) ==
    \/ r2 = r /\ last = <<>>
    \/ \E a \in A : r2 = [r EXCEPT ![a] = @ + 1] /\ last = <<Tok!NonceEvent(a, r[a])>>

LEMMA NoncePushed ==
    ASSUME NEW F, NEW cs \in Seq(F), NEW f, NEW A, NEW r, NEW k, NEW r2, NEW k2,
           NonceInv(r, k, cs), NonceTypes(A, r, k, cs),
           f.saved.state.nonces_registry = r, f.saved.seen = k,
           k2.nonces = k.nonces, k2.replayed = k.replayed,
           Counts(A, r, r2, f.last)
    PROVE  NonceInv(r2, k2, Append(cs, f))
<1> DEFINE ds == Append(cs, f)
<1>t. /\ r \in [A -> Nat] /\ k.nonces \in SUBSET (A \X Nat)
      /\ \A i \in 1 .. Len(cs) : cs[i].last \in FinalEvents(A)
  BY DEF NonceTypes
<1>1. /\ Len(cs) \in Nat /\ Len(ds) = Len(cs) + 1
      /\ \A i \in 1 .. Len(cs) : ds[i] = cs[i]
      /\ ds[Len(cs) + 1] = f
  BY AppendProperties, LenProperties
<1> HIDE DEF ds
<1> DEFINE m == Len(cs)
<1>m. m \in Nat /\ Len(ds) = m + 1 /\ ds[m + 1] = f /\ \A i \in 1 .. m : ds[i] = cs[i]
  BY <1>1
<1>k. /\ NoncesOK(r, k, cs, m)
      /\ \A i \in 1 .. m : NoncesOK(cs[i].saved.state.nonces_registry, cs[i].saved.seen, cs, i - 1)
      /\ \A i, j \in 1 .. m : \A a, n : i # j => ~ (Pending(cs[i], a, n) /\ Pending(cs[j], a, n))
  BY DEF NonceInv
<1>l. \A i \in 1 .. m : cs[i].last \in FinalEvents(A)
  BY <1>t
<1> HIDE DEF m
<1>2. \A i \in 1 .. m : \A a, n : Pending(cs[i], a, n) => a \in A /\ n \in Nat
  <2> TAKE i \in 1 .. m
  <2> TAKE a, n
  <2> HAVE Pending(cs[i], a, n)
  <2>1. <<Tok!NonceEvent(a, n)>> # <<>> /\ <<Tok!NonceEvent(a, n)>> \in FinalEvents(A)
    BY <1>l DEF Pending
  <2>2. PICK b \in A, p \in Nat : <<Tok!NonceEvent(a, n)>> = <<Tok!NonceEvent(b, p)>>
    BY <2>1 DEF FinalEvents
  <2>3. Tok!NonceEvent(a, n) = Tok!NonceEvent(b, p)
    BY <2>2
  <2> QED
    BY <2>3 DEF Tok!NonceEvent
<1>3. /\ \A a \in A : r[a] \in Nat /\ r2[a] \in Nat /\ r2[a] >= r[a]
      /\ \A a, n : Pending(f, a, n) => a \in A /\ n = r[a] /\ r2[a] = r[a] + 1
  <2>1. CASE r2 = r /\ f.last = <<>>
    BY <1>t, <2>1 DEF Pending
  <2>2. ASSUME NEW b \in A, r2 = [r EXCEPT ![b] = @ + 1] /\ f.last = <<Tok!NonceEvent(b, r[b])>>
        PROVE  /\ \A a \in A : r[a] \in Nat /\ r2[a] \in Nat /\ r2[a] >= r[a]
               /\ \A a, n : Pending(f, a, n) => a \in A /\ n = r[a] /\ r2[a] = r[a] + 1
    <3>1. \A a, n : Pending(f, a, n) => a = b /\ n = r[b]
      <4> TAKE a, n
      <4> HAVE Pending(f, a, n)
      <4>1. Tok!NonceEvent(a, n) = Tok!NonceEvent(b, r[b])
        BY <2>2 DEF Pending
      <4> QED
        BY <4>1 DEF Tok!NonceEvent
    <3> QED
      BY <1>t, <2>2, <3>1
  <2> QED
    BY <2>1, <2>2 DEF Counts
<1>4. \A i \in 1 .. m : \A a, n : Pending(ds[i], a, n) <=> Pending(cs[i], a, n)
  BY <1>m
<1>5. NoncesOK(r2, k2, ds, m + 1)
  <2>1. ~ k2.replayed
    BY <1>k DEF NoncesOK
  <2>2. \A q \in k2.nonces : q[2] < r2[q[1]]
    <3> TAKE q \in k2.nonces
    <3>1. q \in A \X Nat /\ q[2] < r[q[1]]
      BY <1>k, <1>t DEF NoncesOK
    <3> QED
      BY <1>3, <3>1
  <2>3. ASSUME NEW j \in 1 .. (m + 1), NEW a, NEW n, Pending(ds[j], a, n)
        PROVE  n < r2[a] /\ <<a, n>> \notin k2.nonces
    <3>1. CASE j = m + 1
      <4>1. a \in A /\ n = r[a] /\ r2[a] = r[a] + 1
        BY <1>3, <1>m, <2>3, <3>1
      <4>2. \A q \in k.nonces : q[2] < r[q[1]]
        BY <1>k DEF NoncesOK
      <4>3. <<a, n>> \in k.nonces => n < r[a]
        BY <4>2
      <4> QED
        BY <1>3, <4>1, <4>3
    <3>2. CASE j \in 1 .. m
      <4>1. Pending(cs[j], a, n)
        BY <1>4, <2>3, <3>2
      <4>2. n < r[a] /\ <<a, n>> \notin k.nonces
        BY <1>k, <3>2, <4>1 DEF NoncesOK
      <4>3. a \in A /\ n \in Nat
        BY <1>2, <3>2, <4>1
      <4>4. r[a] \in Nat /\ r2[a] \in Nat /\ r2[a] >= r[a]
        BY <1>3, <4>3
      <4> QED
        BY <4>2, <4>3, <4>4
    <3> QED
      BY <1>m, <3>1, <3>2
  <2> QED
    BY <2>1, <2>2, <2>3 DEF NoncesOK
<1>6. ASSUME NEW i \in 1 .. (m + 1)
      PROVE  NoncesOK(ds[i].saved.state.nonces_registry, ds[i].saved.seen, ds, i - 1)
  <2>1. \A x, s : NoncesOK(x, s, cs, i - 1) => NoncesOK(x, s, ds, i - 1)
    <3>1. \A j \in 1 .. (i - 1) : j \in 1 .. m
      BY <1>m
    <3> QED
      BY <1>4, <3>1 DEF NoncesOK
  <2>2. CASE i = m + 1
    <3>1. i - 1 = m /\ ds[i] = f
      BY <1>m, <2>2
    <3> QED
      BY <1>k, <2>1, <3>1
  <2>3. CASE i \in 1 .. m
    <3>1. ds[i] = cs[i]
      BY <1>m, <2>3
    <3> QED
      BY <1>k, <2>1, <2>3, <3>1
  <2> QED
    BY <1>m, <2>2, <2>3
<1>7. ASSUME NEW i \in 1 .. (m + 1), NEW j \in 1 .. (m + 1), NEW a, NEW n, i # j,
             Pending(ds[i], a, n), Pending(ds[j], a, n)
      PROVE  FALSE
  <2>1. ASSUME NEW x \in 1 .. m, Pending(ds[x], a, n), Pending(f, a, n) PROVE FALSE
    <3>1. Pending(cs[x], a, n)
      BY <1>4, <2>1
    <3>2. n < r[a] /\ a \in A /\ n = r[a]
      BY <1>3, <1>k, <2>1, <3>1 DEF NoncesOK
    <3> QED
      BY <1>3, <3>2
  <2>2. CASE i = m + 1
    <3>1. j \in 1 .. m
      BY <1>7, <1>m, <2>2
    <3> QED
      BY <1>7, <1>m, <2>1, <2>2, <3>1
  <2>3. CASE j = m + 1
    <3>1. i \in 1 .. m
      BY <1>7, <1>m, <2>3
    <3> QED
      BY <1>7, <1>m, <2>1, <2>3, <3>1
  <2>4. CASE i \in 1 .. m /\ j \in 1 .. m
    <3>1. Pending(cs[i], a, n) /\ Pending(cs[j], a, n)
      BY <1>4, <1>7, <2>4
    <3> QED
      BY <1>7, <1>k, <2>4, <3>1
  <2> QED
    BY <1>m, <2>2, <2>3, <2>4
<1> QED
  BY <1>5, <1>6, <1>7, <1>m DEF NonceInv, ds

Counted(r, r2, a) == r2 = [r EXCEPT ![a] = @ + 1]

(* A message is executed at once. *)
LEMMA NonceUsed ==
    ASSUME NEW A, NEW cs, NEW r, NEW k, NEW r2, NEW h, NEW k2, NEW a \in A,
           NonceInv(r, k, cs), NonceTypes(A, r, k, cs),
           Counted(r, r2, a), h.nonces = k.nonces, h.replayed = k.replayed,
           SaysNonce(h, k2, a, r[a])
    PROVE  NonceInv(r2, k2, cs)
<1>t. /\ r \in [A -> Nat] /\ k.nonces \in SUBSET (A \X Nat)
      /\ \A i \in 1 .. Len(cs) : cs[i].last \in FinalEvents(A)
  BY DEF NonceTypes
<1>s. /\ k2.nonces = k.nonces \cup {<<a, r[a]>>}
      /\ k2.replayed => k.replayed \/ <<a, r[a]>> \in k.nonces
  BY DEF SaysNonce
<1>1. NoncesOK(r, k, cs, Len(cs))
  BY DEF NonceInv
<1>2. <<a, r[a]>> \notin k.nonces
  <2>1. \A q \in k.nonces : q[2] < r[q[1]]
    BY <1>1 DEF NoncesOK
  <2>2. <<a, r[a]>> \in k.nonces => r[a] < r[a]
    BY <2>1
  <2> QED
    BY <1>t, <2>2
<1>3. \A b \in A : r[b] \in Nat /\ r2[b] \in Nat /\ r2[b] >= r[b] /\ r2[a] = r[a] + 1
  BY <1>t DEF Counted
<1>4. ~ k2.replayed
  BY <1>1, <1>2, <1>s DEF NoncesOK
<1>5. ASSUME NEW q \in k2.nonces PROVE q[2] < r2[q[1]]
  <2>1. CASE q = <<a, r[a]>>
    BY <1>3, <2>1
  <2>2. CASE q \in k.nonces
    <3>1. q \in A \X Nat /\ q[2] < r[q[1]]
      BY <1>1, <1>t, <2>2 DEF NoncesOK
    <3>2. q[1] \in A /\ q[2] \in Nat
      BY <3>1
    <3> QED
      BY <1>3, <3>1, <3>2
  <2> QED
    BY <1>s, <2>1, <2>2
<1>6. ASSUME NEW j \in 1 .. Len(cs), NEW b, NEW n, Pending(cs[j], b, n)
      PROVE  n < r2[b] /\ <<b, n>> \notin k2.nonces
  <2>1. b \in A /\ n \in Nat
    <3>1. <<Tok!NonceEvent(b, n)>> # <<>> /\ <<Tok!NonceEvent(b, n)>> \in FinalEvents(A)
      BY <1>6, <1>t DEF Pending
    <3>2. PICK c \in A, p \in Nat : <<Tok!NonceEvent(b, n)>> = <<Tok!NonceEvent(c, p)>>
      BY <3>1 DEF FinalEvents
    <3>3. Tok!NonceEvent(b, n) = Tok!NonceEvent(c, p)
      BY <3>2
    <3> QED
      BY <3>3 DEF Tok!NonceEvent
  <2>2. n < r[b] /\ <<b, n>> \notin k.nonces
    BY <1>1, <1>6 DEF NoncesOK
  <2>3. r[b] \in Nat /\ r2[b] \in Nat /\ r2[b] >= r[b]
    BY <1>3, <2>1
  <2>4. <<b, n>> # <<a, r[a]>>
    BY <2>1, <2>2, <2>3
  <2> QED
    BY <1>s, <2>1, <2>2, <2>3, <2>4
<1>7. NoncesOK(r2, k2, cs, Len(cs))
  BY <1>4, <1>5, <1>6 DEF NoncesOK
<1> QED
  BY <1>7 DEF NonceInv

(* Of the entrypoints under way nothing but their transfers and the contract that is *)
(* called has changed, and the last of them may have ended. *)
LEMMA NoncesBelow ==
    ASSUME NEW cs, NEW ds, NEW r, NEW k, NonceInv(r, k, cs), Len(cs) \in Nat, Len(ds) \in Nat,
           Len(ds) <= Len(cs), \A i \in 1 .. Len(ds) : ds[i].last = cs[i].last /\ ds[i].saved = cs[i].saved
    PROVE  /\ NoncesOK(r, k, ds, Len(ds))
           /\ \A i \in 1 .. Len(ds) :
                 NoncesOK(ds[i].saved.state.nonces_registry, ds[i].saved.seen, ds, i - 1)
           /\ \A i, j \in 1 .. Len(ds) : \A a, n :
                 i # j => ~ (Pending(ds[i], a, n) /\ Pending(ds[j], a, n))
<1>1. \A i \in 1 .. Len(ds) : i \in 1 .. Len(cs)
  OBVIOUS
<1>2. \A i \in 1 .. Len(ds) : \A a, n : Pending(ds[i], a, n) <=> Pending(cs[i], a, n)
  BY DEF Pending
<1>3. ASSUME NEW x, NEW s, NEW i \in Int, NEW j \in Int, i <= j, i <= Len(ds), NoncesOK(x, s, cs, j)
      PROVE  NoncesOK(x, s, ds, i)
  <2>1. \A l \in 1 .. i : l \in 1 .. Len(ds) /\ l \in 1 .. j
    BY <1>3
  <2> QED
    BY <1>2, <1>3, <2>1 DEF NoncesOK
<1>4. NoncesOK(r, k, ds, Len(ds))
  BY <1>3 DEF NonceInv
<1>5. ASSUME NEW i \in 1 .. Len(ds)
      PROVE  NoncesOK(ds[i].saved.state.nonces_registry, ds[i].saved.seen, ds, i - 1)
  <2>1. NoncesOK(cs[i].saved.state.nonces_registry, cs[i].saved.seen, cs, i - 1)
    BY <1>1 DEF NonceInv
  <2>2. NoncesOK(cs[i].saved.state.nonces_registry, cs[i].saved.seen, ds, i - 1)
    BY <1>3, <2>1
  <2> QED
    BY <2>2
<1>6. \A i, j \in 1 .. Len(ds) : \A a, n : i # j => ~ (Pending(ds[i], a, n) /\ Pending(ds[j], a, n))
  BY <1>1, <1>2 DEF NonceInv
<1> QED
  BY <1>4, <1>5, <1>6

(* The last entrypoint rejects *)
LEMMA NonceRejected ==
    ASSUME NEW cs, NEW ds, NEW r, NEW k, NonceInv(r, k, cs), Len(cs) \in Nat \ {0},
           Len(ds) = Len(cs) - 1, \A i \in 1 .. Len(ds) : ds[i] = cs[i],
           NEW f, f = cs[Len(cs)]
    PROVE  NonceInv(f.saved.state.nonces_registry, f.saved.seen, ds)
<1> DEFINE m == Len(ds)
<1>0. m \in Nat /\ Len(cs) = m + 1
  OBVIOUS
<1>1. /\ \A i \in 1 .. Len(ds) :
            NoncesOK(ds[i].saved.state.nonces_registry, ds[i].saved.seen, ds, i - 1)
      /\ \A i, j \in 1 .. Len(ds) : \A a, n :
            i # j => ~ (Pending(ds[i], a, n) /\ Pending(ds[j], a, n))
  <2>1. /\ Len(cs) \in Nat /\ Len(ds) \in Nat /\ Len(ds) <= Len(cs)
        /\ \A i \in 1 .. Len(ds) : ds[i].last = cs[i].last /\ ds[i].saved = cs[i].saved
    BY <1>0
  <2> QED
    BY <2>1, NoncesBelow
<1>2. NoncesOK(f.saved.state.nonces_registry, f.saved.seen, cs, m)
  <2>1. Len(cs) \in 1 .. Len(cs) /\ Len(cs) - 1 = m
    BY <1>0
  <2> QED
    BY <2>1 DEF NonceInv
<1>3. NoncesOK(f.saved.state.nonces_registry, f.saved.seen, ds, m)
  BY <1>2 DEF NoncesOK
<1> QED
  BY <1>1, <1>3 DEF NonceInv

(* or ends, with its final event. *)
LEMMA NonceEnded ==
    ASSUME NEW cs, NEW ds, NEW r, NEW k, NonceInv(r, k, cs), Len(cs) \in Nat \ {0},
           Len(ds) = Len(cs) - 1, \A i \in 1 .. Len(ds) : ds[i] = cs[i],
           NEW k2, SaysFinal(k, k2, cs[Len(cs)].last)
    PROVE  NonceInv(r, k2, ds)
<1> DEFINE m == Len(ds)
           f == cs[Len(cs)]
<1>0. m \in Nat /\ Len(cs) = m + 1
  OBVIOUS
<1>1. /\ NoncesOK(r, k, ds, m)
      /\ \A i \in 1 .. Len(ds) :
            NoncesOK(ds[i].saved.state.nonces_registry, ds[i].saved.seen, ds, i - 1)
      /\ \A i, j \in 1 .. Len(ds) : \A a, n :
            i # j => ~ (Pending(ds[i], a, n) /\ Pending(ds[j], a, n))
  <2>1. /\ Len(cs) \in Nat /\ Len(ds) \in Nat /\ Len(ds) <= Len(cs)
        /\ \A i \in 1 .. Len(ds) : ds[i].last = cs[i].last /\ ds[i].saved = cs[i].saved
    BY <1>0
  <2> QED
    BY <2>1, NoncesBelow
<1>2. CASE f.last = <<>> /\ k2.nonces = k.nonces /\ (k2.replayed => k.replayed)
  BY <1>1, <1>2 DEF NonceInv, NoncesOK
<1>3. ASSUME NEW a, NEW n, f.last = <<Tok!NonceEvent(a, n)>>, SaysNonce(k, k2, a, n)
      PROVE  NoncesOK(r, k2, ds, m)
  <2>1. n < r[a] /\ <<a, n>> \notin k.nonces
    <3>1. NoncesOK(r, k, cs, Len(cs)) /\ Len(cs) \in 1 .. Len(cs) /\ Pending(f, a, n)
      BY <1>3 DEF NonceInv, Pending
    <3> QED
      BY <3>1 DEF NoncesOK
  <2>2. ~ k2.replayed
    BY <1>1, <1>3, <2>1 DEF NoncesOK, SaysNonce
  <2>3. \A q \in k2.nonces : q[2] < r[q[1]]
    BY <1>1, <1>3, <2>1 DEF NoncesOK, SaysNonce
  <2>4. ASSUME NEW j \in 1 .. m, NEW b, NEW p, Pending(ds[j], b, p)
        PROVE  p < r[b] /\ <<b, p>> \notin k2.nonces
    <3>1. p < r[b] /\ <<b, p>> \notin k.nonces
      BY <1>1, <2>4 DEF NoncesOK
    <3>2. ~ (b = a /\ p = n)
      <4>1. j \in 1 .. Len(cs) /\ j # Len(cs) /\ Len(cs) \in 1 .. Len(cs) /\ ds[j] = cs[j]
        BY <1>0
      <4>2. Pending(cs[Len(cs)], a, n)
        BY <1>3 DEF Pending
      <4> QED
        BY <2>4, <4>1, <4>2 DEF NonceInv
    <3> QED
      BY <1>3, <3>1, <3>2 DEF SaysNonce
  <2> QED
    BY <2>2, <2>3, <2>4 DEF NoncesOK
<1>4. NoncesOK(r, k2, ds, m)
  BY <1>2, <1>3 DEF SaysFinal, NonceInv
<1> QED
  BY <1>1, <1>4 DEF NonceInv

(* The final events of the entrypoints under way, and what they are after one more *)
(* or one less *)
LEMMA FramesFinal ==
    ASSUME NEW A, NEW T, NEW L, NEW G, CallsOK(A, T, L, G)
    PROVE  \A i \in 1 .. Len(calls) : calls[i].last \in L
<1> DEFINE F == Frames(A, T, L, G)
<1>0. \A f \in F : f.last \in L
  BY DEF Frames
<1> HIDE DEF F
<1>1. calls \in Seq(F)
  BY DEF CallsOK, F
<1>2. \A i \in 1 .. Len(calls) : calls[i] \in F
  BY <1>1, ElementOfSeq
<1> QED
  BY <1>0, <1>2

LEMMA StartsNonces ==
    ASSUME NEW A, NEW T, NEW B, NEW G, CallsOK(A, T, FinalEvents(B), G),
           NonceInv(state.nonces_registry, seen, calls),
           NonceTypes(B, state.nonces_registry, seen, calls),
           NEW sender, NEW batch, NEW last,
           Tok!StartsBatch(sender, batch, last),
           seen'.nonces = seen.nonces, seen'.replayed = seen.replayed,
           Counts(B, state.nonces_registry, state'.nonces_registry, last)
    PROVE  NonceInv(state.nonces_registry, seen, calls)'
<1> DEFINE f == Tok!Frame(sender, batch, None, last)
           F == Frames(A, T, FinalEvents(B), G)
           r == state.nonces_registry
           r2 == state'.nonces_registry
           k == seen
           k2 == seen'
           ds == calls'
           cs == calls
<1>1. f.saved.state.nonces_registry = r /\ f.saved.seen = k /\ f.last = last
  BY DEF Tok!Frame, Tok!Saved
<1>2. ds = Append(cs, f)
  BY DEF Tok!StartsBatch
<1>3. cs \in Seq(F)
  BY DEF CallsOK
<1>4. Counts(B, r, r2, f.last)
  BY <1>1
<1>5. /\ NonceInv(r, k, cs) /\ NonceTypes(B, r, k, cs)
      /\ k2.nonces = k.nonces /\ k2.replayed = k.replayed
  OBVIOUS
<1> HIDE DEF f, F, r, r2, k, k2, ds, cs
<1>6. NonceInv(r2, k2, ds)
  BY <1>1, <1>2, <1>3, <1>4, <1>5, NoncePushed
<1> QED
  BY <1>6 DEF r2, k2, ds

LEMMA EndsCallingNonces ==
    ASSUME NEW A, NEW T, NEW B, NEW G, CallsOK(A, T, FinalEvents(B), G),
           NonceInv(state.nonces_registry, seen, calls),
           NonceTypes(B, state.nonces_registry, seen, calls),
           NEW sender, NEW receiver, Tok!EndsCalling(sender, receiver),
           seen'.nonces = seen.nonces, seen'.replayed = seen.replayed,
           state'.nonces_registry = state.nonces_registry
    PROVE  NonceInv(state.nonces_registry, seen, calls)'
<1>1. CASE receiver \notin Contracts
  <2>1. calls' = calls
    BY <1>1 DEF Tok!EndsCalling
  <2> QED
    BY <2>1 DEF NonceInv, NoncesOK
<1>2. CASE receiver \in Contracts
  <2> DEFINE f == Tok!Frame(sender, <<>>, receiver, <<>>)
             F == Frames(A, T, FinalEvents(B), G)
             r == state.nonces_registry
             r2 == state'.nonces_registry
             k == seen
             k2 == seen'
             ds == calls'
             cs == calls
  <2>1. f.saved.state.nonces_registry = r /\ f.saved.seen = k /\ f.last = <<>>
    BY DEF Tok!Frame, Tok!Saved
  <2>2. ds = Append(cs, f)
    BY <1>2 DEF Tok!EndsCalling
  <2>3. cs \in Seq(F)
    BY DEF CallsOK
  <2>4. Counts(B, r, r2, f.last)
    BY <2>1 DEF Counts
  <2>5. /\ NonceInv(r, k, cs) /\ NonceTypes(B, r, k, cs)
        /\ k2.nonces = k.nonces /\ k2.replayed = k.replayed
    OBVIOUS
  <2> HIDE DEF f, F, r, r2, k, k2, ds, cs
  <2>6. NonceInv(r2, k2, ds)
    BY <2>1, <2>2, <2>3, <2>4, <2>5, NoncePushed
  <2> QED
    BY <2>6 DEF r2, k2, ds
<1> QED
  BY <1>1, <1>2

LEMMA RejectsNonces ==
    ASSUME NEW F, calls \in Seq(F), NonceInv(state.nonces_registry, seen, calls),
           calls # <<>>, Tok!Rejects
    PROVE  NonceInv(state.nonces_registry, seen, calls)'
<1>1. /\ Len(calls) \in Nat \ {0} /\ Tok!Top = calls[Len(calls)]
      /\ Len(Tok!Waiting(calls)) = Len(calls) - 1
      /\ \A i \in 1 .. (Len(calls) - 1) : Tok!Waiting(calls)[i] = calls[i]
  BY TopFrame
<1> DEFINE ds == Tok!Waiting(calls)
           f == Tok!Top
<1>2. calls' = ds /\ state' = f.saved.state /\ seen' = f.saved.seen
  BY DEF Tok!Rejects
<1>3. Len(ds) = Len(calls) - 1 /\ (\A i \in 1 .. Len(ds) : ds[i] = calls[i]) /\ f = calls[Len(calls)]
  BY <1>1
<1> HIDE DEF ds, f
<1>4. NonceInv(f.saved.state.nonces_registry, f.saved.seen, ds)
  BY <1>1, <1>3, NonceRejected
<1> QED
  BY <1>2, <1>4

(* The entrypoint goes on, *)
LEMMA GoesOnNonces ==
    ASSUME NEW F, calls \in Seq(F), NonceInv(state.nonces_registry, seen, calls), calls # <<>>,
           NEW g, g.last = Tok!Top.last, g.saved = Tok!Top.saved, calls' = Append(Tok!Waiting(calls), g),
           state'.nonces_registry = state.nonces_registry,
           seen'.nonces = seen.nonces, seen'.replayed = seen.replayed
    PROVE  NonceInv(state.nonces_registry, seen, calls)'
<1>1. /\ Len(calls) \in Nat \ {0} /\ Tok!Top = calls[Len(calls)] /\ Tok!Waiting(calls) \in Seq(F)
      /\ Len(Tok!Waiting(calls)) = Len(calls) - 1
      /\ \A i \in 1 .. (Len(calls) - 1) : Tok!Waiting(calls)[i] = calls[i]
  BY TopFrame
<1> DEFINE ds == calls'
           cs == calls
           r == state.nonces_registry
           k == seen
           k2 == seen'
<1>2. /\ Len(ds) = Len(cs)
      /\ \A i \in 1 .. (Len(cs) - 1) : ds[i] = cs[i]
      /\ ds[Len(cs)] = g
  <2> DEFINE fr == Tok!Waiting(calls)
             G == F \cup {g}
  <2>1. fr \in Seq(G) /\ g \in G /\ ds = Append(fr, g) /\ Len(fr) = Len(cs) - 1
        /\ \A i \in 1 .. (Len(cs) - 1) : fr[i] = cs[i]
    BY <1>1
  <2> HIDE DEF fr, G
  <2>2. Len(Append(fr, g)) = Len(fr) + 1 /\ (\A i \in 1 .. Len(fr) : Append(fr, g)[i] = fr[i])
        /\ Append(fr, g)[Len(fr) + 1] = g
    BY <2>1, AppendProperties
  <2>3. Len(fr) + 1 = Len(cs)
    BY <1>1, <2>1
  <2> QED
    BY <2>1, <2>2, <2>3
<1>3. \A i \in 1 .. Len(ds) : ds[i].last = cs[i].last /\ ds[i].saved = cs[i].saved
  <2>0. g.last = cs[Len(cs)].last /\ g.saved = cs[Len(cs)].saved
    BY <1>1
  <2> HIDE DEF ds, cs
  <2>1. \A i \in 1 .. Len(ds) : i \in 1 .. (Len(cs) - 1) \/ i = Len(cs)
    BY <1>1, <1>2 DEF cs
  <2> QED
    BY <1>2, <2>0, <2>1
<1>4. NonceInv(r, k, cs) /\ Len(cs) \in Nat /\ Len(ds) \in Nat /\ Len(ds) <= Len(cs)
      /\ k2.nonces = k.nonces /\ k2.replayed = k.replayed
  BY <1>1, <1>2
<1>c. state'.nonces_registry = r
  OBVIOUS
<1> HIDE DEF ds, cs, r, k, k2
<1>5. NonceInv(r, k, ds)
  BY <1>3, <1>4, NoncesBelow DEF NonceInv
<1>6. NonceInv(r, k2, ds)
  BY <1>4, <1>5 DEF NonceInv, NoncesOK
<1> QED
  BY <1>6, <1>c DEF k2, ds

(* or ends. *)
LEMMA EndedNonces ==
    ASSUME NEW F, calls \in Seq(F), NonceInv(state.nonces_registry, seen, calls), calls # <<>>,
           calls' = Tok!Waiting(calls), state'.nonces_registry = state.nonces_registry,
           NEW h, h.nonces = seen.nonces, h.replayed = seen.replayed, SaysFinal(h, seen', Tok!Top.last)
    PROVE  NonceInv(state.nonces_registry, seen, calls)'
<1>1. /\ Len(calls) \in Nat \ {0} /\ Tok!Top = calls[Len(calls)]
      /\ Len(Tok!Waiting(calls)) = Len(calls) - 1
      /\ \A i \in 1 .. (Len(calls) - 1) : Tok!Waiting(calls)[i] = calls[i]
  BY TopFrame
<1> DEFINE ds == calls'
           cs == calls
           r == state.nonces_registry
           k2 == seen'
<1>2. Len(ds) = Len(cs) - 1 /\ (\A i \in 1 .. Len(ds) : ds[i] = cs[i]) /\ Len(cs) \in Nat \ {0}
      /\ SaysFinal(h, k2, cs[Len(cs)].last)
  BY <1>1
<1>3. NonceInv(r, h, cs)
  BY DEF NonceInv, NoncesOK
<1>c. state'.nonces_registry = r
  OBVIOUS
<1> HIDE DEF ds, cs, r, k2
<1>4. NonceInv(r, k2, ds)
  BY <1>2, <1>3, NonceEnded
<1> QED
  BY <1>4, <1>c DEF k2, ds

(* What is known of anything but messages is the same. *)
SaysNonces(s, h) ==
    /\ h.balances = s.balances /\ h.operators = s.operators /\ h.metadata = s.metadata
    /\ h.admin = s.admin /\ h.roles = s.roles /\ h.blacklist = s.blacklist

LEMMA FinalSays ==
    ASSUME NEW s, NEW h, NEW B, NEW l \in FinalEvents(B), SaysFinal(s, h, l),
           s.nonces \in SUBSET (B \X Nat)
    PROVE  SaysNonces(s, h) /\ h.nonces \in SUBSET (B \X Nat)
<1>1. SaysNonces(s, h)
  BY DEF SaysFinal, SaysNonces
<1>2. ASSUME NEW a, NEW n, l = <<Tok!NonceEvent(a, n)>>, SaysNonce(s, h, a, n)
      PROVE  h.nonces \in SUBSET (B \X Nat)
  <2>1. l # <<>>
    BY <1>2
  <2>2. PICK b \in B, p \in Nat : l = <<Tok!NonceEvent(b, p)>>
    BY <2>1 DEF FinalEvents
  <2>3. Tok!NonceEvent(a, n) = Tok!NonceEvent(b, p)
    BY <1>2, <2>2
  <2>4. a = b /\ n = p
    BY <2>3 DEF Tok!NonceEvent
  <2> QED
    BY <1>2, <2>4 DEF SaysNonce
<1> QED
  BY <1>1, <1>2 DEF SaysFinal

LEMMA HookReturnsNonces ==
    ASSUME NEW A, NEW T, NEW B, NEW G, NEW K, NEW I, CallsOK(A, T, FinalEvents(B), G),
           seen \in Knowledge(K, I), B \subseteq K, seen.nonces \in SUBSET (B \X Nat),
           NonceInv(state.nonces_registry, seen, calls), Tok!HookReturns
    PROVE  /\ state' = state
           /\ CallsOK(A, T, FinalEvents(B), G)'
           /\ seen' \in Knowledge(K, I) /\ SaysNonces(seen, seen') /\ seen'.nonces \in SUBSET (B \X Nat)
           /\ NonceInv(state.nonces_registry, seen, calls)'
<1> DEFINE F == Frames(A, T, FinalEvents(B), G)
           l == Tok!Top.last
<1>1. calls \in Seq(F) /\ calls # <<>> /\ state' = state
  BY DEF CallsOK, Tok!HookReturns
<1>2. /\ CallsOK(A, T, FinalEvents(B), G)' /\ l \in FinalEvents(B)
      /\ \/ calls' = Tok!Waiting(calls) /\ seen' = Told(seen, l)
         \/ /\ UNCHANGED seen
            /\ calls' = Append(Tok!Waiting(calls), [Tok!Top EXCEPT !.hook = None])
  BY HookReturnsOK
<1>3. CASE calls' = Tok!Waiting(calls) /\ seen' = Told(seen, l)
  <2>1. seen' \in Knowledge(K, I) /\ SaysFinal(seen, seen', l)
    <3> HIDE DEF l
    <3> QED
      BY <1>2, <1>3, ToldFinal
  <2>2. SaysNonces(seen, seen') /\ seen'.nonces \in SUBSET (B \X Nat)
    <3> HIDE DEF l
    <3> QED
      BY <1>2, <2>1, FinalSays
  <2>3. NonceInv(state.nonces_registry, seen, calls)'
    <3> HIDE DEF F
    <3> QED
      BY <1>1, <1>3, <2>1, EndedNonces
  <2> QED
    BY <1>1, <1>2, <2>1, <2>2, <2>3
<1>4. CASE UNCHANGED seen /\ calls' = Append(Tok!Waiting(calls), [Tok!Top EXCEPT !.hook = None])
  <2> DEFINE g == [Tok!Top EXCEPT !.hook = None]
  <2>1. g.last = Tok!Top.last /\ g.saved = Tok!Top.saved
    <3>1. Tok!Top \in F
      <4> HIDE DEF F
      <4> QED
        BY <1>1, TopFrame
    <3> QED
      BY <3>1 DEF Frames
  <2>2. NonceInv(state.nonces_registry, seen, calls)'
    <3>1. calls' = Append(Tok!Waiting(calls), g) /\ state'.nonces_registry = state.nonces_registry
          /\ seen'.nonces = seen.nonces /\ seen'.replayed = seen.replayed
      BY <1>1, <1>4
    <3> HIDE DEF F, g
    <3> QED
      BY <1>1, <2>1, <3>1, GoesOnNonces
  <2> QED
    BY <1>1, <1>2, <1>4, <2>2 DEF SaysNonces
<1> QED
  BY <1>2, <1>3, <1>4

LEMMA MovesNonces ==
    ASSUME NEW A, NEW T, NEW B, NEW G, NEW K, NEW I, CallsOK(A, T, FinalEvents(B), G),
           calls # <<>>, Tok!Top.hook = None, seen.nonces \in SUBSET (B \X Nat),
           NonceInv(state.nonces_registry, seen, calls), B \subseteq K,
           NEW moved, NEW e, Moves(moved, <<e>>), moved.nonces_registry = state.nonces_registry,
           NEW h, h = Tok!Heard(seen, e), h \in Knowledge(K, I), h.nonces = seen.nonces,
           h.replayed = seen.replayed
    PROVE  /\ state' = moved
           /\ seen' \in Knowledge(K, I) /\ SaysNonces(h, seen') /\ seen'.nonces \in SUBSET (B \X Nat)
           /\ NonceInv(state.nonces_registry, seen, calls)'
<1> DEFINE F == Frames(A, T, FinalEvents(B), G)
           l == IF Ends THEN Tok!Top.last ELSE <<>>
<1>1. calls \in Seq(F) /\ state' = moved /\ Tok!Top \in F
  <2>1. calls \in Seq(F) /\ state' = moved
    BY DEF CallsOK, Moves
  <2> HIDE DEF F
  <2> QED
    BY <2>1, TopFrame
<1>2. l \in FinalEvents(B)
  BY UpcomingOK DEF FinalEvents
<1>3. seen' = Told(h, l)
  <2>1. seen' = Told(seen, <<e>> \o l)
    BY DEF Moves
  <2> HIDE DEF l
  <2> QED
    BY <1>2, <2>1, ToldAfter
<1>4. seen' \in Knowledge(K, I) /\ SaysFinal(h, seen', l)
  <2> HIDE DEF l
  <2> QED
    BY <1>2, <1>3, ToldFinal
<1>5. SaysNonces(h, seen') /\ seen'.nonces \in SUBSET (B \X Nat)
  <2> HIDE DEF l
  <2> QED
    BY <1>2, <1>4, FinalSays
<1>6. CASE Ends
  <2>1. calls' = Tok!Waiting(calls) /\ SaysFinal(h, seen', Tok!Top.last) /\ state'.nonces_registry = state.nonces_registry
    BY <1>1, <1>4, <1>6 DEF Moves
  <2>2. NonceInv(state.nonces_registry, seen, calls)'
    <3> HIDE DEF F, l
    <3> QED
      BY <1>1, <2>1, EndedNonces
  <2> QED
    BY <1>1, <1>4, <1>5, <2>2
<1>7. CASE ~ Ends
  <2> DEFINE g == [Tok!Top EXCEPT !.rest = Tail(Tok!Top.rest), !.hook = Tok!HookOf(Tok!Upcoming.to)]
  <2>1. calls' = Append(Tok!Waiting(calls), g) /\ state'.nonces_registry = state.nonces_registry /\ seen' = h
    BY <1>1, <1>3, <1>7, ToldNothing DEF Moves
  <2>2. g.last = Tok!Top.last /\ g.saved = Tok!Top.saved
    BY <1>1 DEF Frames
  <2>3. NonceInv(state.nonces_registry, seen, calls)'
    <3>1. seen'.nonces = seen.nonces /\ seen'.replayed = seen.replayed
      BY <2>1
    <3> HIDE DEF F, l, g
    <3> QED
      BY <1>1, <2>1, <2>2, <3>1, GoesOnNonces
  <2> QED
    BY <1>1, <1>4, <1>5, <2>3
<1> QED
  BY <1>6, <1>7

(* Nothing is known of messages at the beginning. *)
LEMMA NoNonces ==
    ASSUME NEW r, NEW k, NEW cs, cs = <<>>, k.nonces = {}, ~ k.replayed
    PROVE  NonceInv(r, k, cs)
<1>1. Len(cs) = 0 /\ 1 .. 0 = {}
  OBVIOUS
<1> QED
  BY <1>1 DEF NonceInv, NoncesOK

-----------------------------------------------------------------------------
(* cis3-nft-sponsored-txs *)

Numbers == 1 .. (MaxTokenId - 1)

Cis3States ==
    [token_id_counter : Nat,
     owned_tokens     : [Everybody -> SUBSET Numbers],
     operators        : [Everybody -> SUBSET Everybody],
     all_tokens       : SUBSET Numbers,
     implementors     : Implementations,
     nonces_registry  : [Accounts -> Nat]]

Cis3Agree(s, k) ==
    /\ OwnedOnce(s.owned_tokens, s.all_tokens, Everybody, Numbers)
    /\ s.all_tokens = 1 .. s.token_id_counter
    /\ s.token_id_counter < MaxTokenId
    /\ KnownOwners(s.owned_tokens, k.balances, Everybody, Numbers)
    /\ KnownOperators(s.operators, k.operators, Everybody)
    /\ \A t \in Numbers : k.metadata[t] = IF t \in s.all_tokens THEN "url" ELSE None
    /\ k.nonces \in SUBSET (Accounts \X Nat)

Cis3Good ==
    {w \in [state : Cis3States, seen : Knowledge(Everybody, Numbers)] : Cis3Agree(w.state, w.seen)}

Cis3Calls == CallsOK(Everybody, TransfersOf(Numbers, Everybody), FinalEvents(Accounts), Cis3Good)

Cis3Inv ==
    /\ Tok!Saved \in Cis3Good
    /\ Cis3Calls
    /\ NonceInv(state.nonces_registry, seen, calls)

LEMMA Cis3GoodIs ==
    /\ Tok!Saved \in Cis3Good
         <=> state \in Cis3States /\ seen \in Knowledge(Everybody, Numbers) /\ Cis3Agree(state, seen)
    /\ \A w \in Cis3Good : w = [state |-> w.state, seen |-> w.seen]
  BY DEF Cis3Good, Tok!Saved

LEMMA Cis3Is ==
    ASSUME Cis3Inv
    PROVE  /\ state \in Cis3States /\ seen \in Knowledge(Everybody, Numbers) /\ Cis3Agree(state, seen)
           /\ Cis3Calls /\ NonceInv(state.nonces_registry, seen, calls)
           /\ NonceTypes(Accounts, state.nonces_registry, seen, calls)
<1>1. /\ state \in Cis3States /\ seen \in Knowledge(Everybody, Numbers) /\ Cis3Agree(state, seen)
      /\ Cis3Calls /\ NonceInv(state.nonces_registry, seen, calls)
  BY Cis3GoodIs DEF Cis3Inv
<1>2. \A i \in 1 .. Len(calls) : calls[i].last \in FinalEvents(Accounts)
  BY <1>1, FramesFinal DEF Cis3Calls
<1> QED
  BY <1>1, <1>2 DEF NonceTypes, Cis3States, Cis3Agree

LEMMA Cis3Kept ==
    ASSUME state' \in Cis3States, seen' \in Knowledge(Everybody, Numbers), Cis3Agree(state', seen'),
           Cis3Calls', NonceInv(state.nonces_registry, seen, calls)'
    PROVE  Cis3Inv'
  BY DEF Cis3Inv, Cis3Good, Tok!Saved

LEMMA Cis3Init == Cis3!Init => Cis3Inv
<1> SUFFICES ASSUME Cis3!Init PROVE Cis3Inv
  OBVIOUS
<1>1. seen \in Knowledge(Everybody, Numbers)
  BY NothingKnown DEF Cis3!Init, Cis3!NothingSeen, Cis3!Addresses, Everybody, Numbers
<1>2. state \in Cis3States
  BY ImplementationsAre DEF Cis3!Init, Cis3!NoImplementors, Cis3!Addresses, Everybody, Cis3States
<1>3. Cis3Agree(state, seen)
  <2>1. 1 .. 0 = {} /\ 0 < MaxTokenId
    BY AmountAssumption
  <2> QED
    BY <2>1 DEF Cis3!Init, Cis3!NothingSeen, Cis3!Addresses, Everybody, Cis3Agree, OwnedOnce, KnownOwners,
         KnownOperators, Numbers
<1>4. calls = <<>> /\ seen.nonces = {} /\ ~ seen.replayed
  BY DEF Cis3!Init, Cis3!NothingSeen
<1>5. Cis3Calls
  BY <1>4, EmptySeq DEF CallsOK, Cis3Calls
<1>6. NonceInv(state.nonces_registry, seen, calls)
  BY <1>4, NoNonces
<1> QED
  BY <1>1, <1>2, <1>3, <1>5, <1>6, Cis3GoodIs DEF Cis3Inv

LEMMA Cis3SetImplementor ==
    ASSUME Cis3Inv, NEW sender, NEW imp \in Implementors,
           Cis3!contract_set_implementor(sender, imp[1], imp[2])
    PROVE  Cis3Inv'
<1>1. /\ state \in Cis3States /\ seen \in Knowledge(Everybody, Numbers) /\ Cis3Agree(state, seen)
      /\ Cis3Calls /\ NonceInv(state.nonces_registry, seen, calls)
  BY Cis3Is
<1> DEFINE m == [state.implementors EXCEPT ![imp[1]] = imp[2]]
<1>2. m \in Implementations
  BY <1>1, ImplementationsAre DEF Cis3States
<1>3. state' = [state EXCEPT !.implementors = m] /\ seen' = seen /\ calls' = calls
  BY DEF Cis3!contract_set_implementor
<1> HIDE DEF m
<1>4. state' \in Cis3States /\ Cis3Agree(state', seen') /\ state'.nonces_registry = state.nonces_registry
  BY <1>1, <1>2, <1>3 DEF Cis3States, Cis3Agree
<1> QED
  BY <1>1, <1>3, <1>4, Cis3Kept DEF CallsOK, Cis3Calls

LEMMA Cis3Transfer ==
    ASSUME Cis3Inv, NEW sender \in Everybody, NEW batch \in Cis3Batches,
           Cis3!contract_transfer(sender, batch)
    PROVE  Cis3Inv'
<1>0. /\ Cis3Calls /\ NonceInv(state.nonces_registry, seen, calls)
      /\ NonceTypes(Accounts, state.nonces_registry, seen, calls)
  BY Cis3Is
<1>1. batch \in Seq(TransfersOf(Numbers, Everybody)) /\ batch # <<>>
  BY BatchAssumption DEF BatchesOf, TransfersOf, Everybody, Numbers
<1>2. Tok!StartsBatch(sender, batch, <<>>) /\ UNCHANGED <<state, seen>>
  BY Cis3Shared DEF Cis3!contract_transfer
<1>3. <<>> \in FinalEvents(Accounts) /\ Counts(Accounts, state.nonces_registry, state.nonces_registry, <<>>)
  BY DEF FinalEvents, Counts
<1>4. Cis3Calls'
  BY <1>0, <1>1, <1>2, <1>3, StartsOK DEF Cis3Inv, Cis3Calls
<1>5. NonceInv(state.nonces_registry, seen, calls)'
  BY <1>0, <1>2, <1>3, StartsNonces DEF Cis3Calls
<1> QED
  BY <1>2, <1>4, <1>5 DEF Cis3Inv, Tok!Saved

LEMMA Cis3Mint ==
    ASSUME Cis3Inv, NEW sender, NEW owner \in Everybody, Cis3!contract_mint(sender, owner)
    PROVE  Cis3Inv'
<1>1. /\ state \in Cis3States /\ seen \in Knowledge(Everybody, Numbers) /\ Cis3Agree(state, seen)
      /\ Cis3Calls /\ NonceInv(state.nonces_registry, seen, calls)
  BY Cis3Is
<1> DEFINE owned == state.owned_tokens
           t == state.token_id_counter + 1
           o == [owned EXCEPT ![owner] = @ \cup {t}]
           all == state.all_tokens \cup {t}
           g == Tok!Heard(seen, Tok!MintEvent(t, 1, owner))
           b == [seen.balances EXCEPT ![<<owner, t>>] = Tok!add(@, 1)]
           m == [seen.metadata EXCEPT ![t] = "url"]
<1>2. /\ state' = [state EXCEPT !.token_id_counter = t, !.all_tokens = all, !.owned_tokens = o]
      /\ calls' = calls /\ t # MaxTokenId /\ t \notin state.all_tokens
  BY DEF Cis3!contract_mint, Cis3!contains_token
<1>3. t \in Numbers /\ t \in Nat /\ t < MaxTokenId /\ all = 1 .. t
  BY <1>1, <1>2, AmountAssumption DEF Cis3States, Cis3Agree, Numbers
<1>4. seen' = Tok!Heard(g, Tok!TokenMetadataEvent(t, "url"))
  <2>1. seen' = Told(seen, <<Tok!MintEvent(t, 1, owner), Tok!TokenMetadataEvent(t, "url")>>)
    BY Cis3Shared DEF Cis3!contract_mint, Cis3!MintEvent, Tok!MintEvent, Cis3!TokenMetadataEvent, Tok!TokenMetadataEvent
  <2> QED
    BY <2>1, ToldTwo
<1> HIDE DEF t, o
<1>5. g \in Knowledge(Everybody, Numbers) /\ SaysBalances(seen, g, b)
  BY <1>1, <1>3, HeardMint
<1>6. seen' \in Knowledge(Everybody, Numbers) /\ SaysMetadata(g, seen', [g.metadata EXCEPT ![t] = "url"])
  <2> DEFINE url == "url"
             h == seen'
  <2>0. url \in Texts
    BY DEF Texts
  <2>1. url \in Numbers \cup Texts
    <3> HIDE DEF url
    <3> QED
      BY <2>0
  <2>2. h = Tok!Heard(g, Tok!TokenMetadataEvent(t, url))
    BY <1>4
  <2> HIDE DEF g, url, h
  <2>3. h \in Knowledge(Everybody, Numbers) /\ SaysMetadata(g, h, [g.metadata EXCEPT ![t] = url])
    BY <1>3, <1>5, <2>1, <2>2, HeardMetadata
  <2> QED
    BY <2>3 DEF url, h
<1>7. /\ seen'.operators = seen.operators /\ seen'.balances = b /\ seen'.metadata = m
      /\ seen'.nonces = seen.nonces /\ seen'.replayed = seen.replayed
  <2> HIDE DEF g, b
  <2> QED
    BY <1>5, <1>6 DEF SaysBalances, SaysMetadata
<1>8. /\ seen.balances \in [Everybody \X Numbers -> Sayable]
      /\ seen.metadata \in [Numbers -> Numbers \cup Texts \cup {None}]
  BY <1>1 DEF Knowledge
<1>9. owned \in [Everybody -> SUBSET Numbers] /\ OwnedOnce(owned, state.all_tokens, Everybody, Numbers)
      /\ KnownOwners(owned, seen.balances, Everybody, Numbers)
  BY <1>1 DEF Cis3States, Cis3Agree
<1>10. /\ o \in [Everybody -> SUBSET Numbers]
       /\ \A a \in Everybody, u \in Numbers : u \in o[a] <=> u \in owned[a] \/ (a = owner /\ u = t)
  BY <1>3, <1>9 DEF o
<1>11. \A a \in Everybody : t \notin owned[a]
  BY <1>2, <1>9 DEF OwnedOnce
<1>12. OwnedOnce(o, all, Everybody, Numbers)
  <2> HIDE DEF owned
  <2>1. \A u \in Numbers, a, c \in Everybody : u \in o[a] /\ u \in o[c] => a = c
    BY <1>9, <1>10, <1>11 DEF OwnedOnce
  <2>2. \A a \in Everybody : o[a] \subseteq all
    BY <1>9, <1>10 DEF OwnedOnce
  <2>3. \A u \in all : \E a \in Everybody : u \in o[a]
    <3>1. state.all_tokens \subseteq Numbers
      BY <1>1 DEF Cis3States
    <3> QED
      BY <1>3, <1>9, <1>10, <3>1 DEF OwnedOnce
  <2> QED
    BY <2>1, <2>2, <2>3 DEF OwnedOnce
<1>13. KnownOwners(o, b, Everybody, Numbers)
  <2>0. Tok!add(0, 1) = 1
    BY AmountAssumption DEF Tok!add
  <2> SUFFICES ASSUME NEW a \in Everybody, NEW u \in Numbers
               PROVE  b[<<a, u>>] = IF u \in o[a] THEN 1 ELSE 0
    BY DEF KnownOwners
  <2>1. seen.balances[<<a, u>>] = IF u \in owned[a] THEN 1 ELSE 0
    BY <1>9 DEF KnownOwners
  <2>2. b[<<a, u>>] = IF a = owner /\ u = t THEN Tok!add(seen.balances[<<a, u>>], 1)
                      ELSE seen.balances[<<a, u>>]
    BY <1>8
  <2> HIDE DEF b, owned
  <2> QED
    BY <1>10, <1>11, <2>0, <2>1, <2>2
<1>14. \A u \in Numbers : m[u] = IF u \in all THEN "url" ELSE None
  BY <1>1, <1>8 DEF Cis3Agree
<1> HIDE DEF b, m, all, owned
<1>15. state' \in Cis3States /\ Cis3Agree(state', seen') /\ state'.nonces_registry = state.nonces_registry
  <2>1. state' \in Cis3States /\ state'.nonces_registry = state.nonces_registry /\ state'.all_tokens = all
        /\ state'.owned_tokens = o /\ state'.token_id_counter = t /\ state'.operators = state.operators
    <3>1. all \in SUBSET Numbers
      BY <1>1, <1>3 DEF Cis3States, all
    <3> QED
      BY <1>1, <1>2, <1>3, <1>10, <3>1 DEF Cis3States
  <2> QED
    BY <1>1, <1>3, <1>7, <1>12, <1>13, <1>14, <2>1 DEF Cis3Agree
<1>16. NonceInv(state.nonces_registry, seen, calls)'
  BY <1>1, <1>2, <1>7, <1>15 DEF NonceInv, NoncesOK
<1> QED
  BY <1>1, <1>2, <1>6, <1>15, <1>16, Cis3Kept DEF CallsOK, Cis3Calls

LEMMA Cis3UpdateOperator ==
    ASSUME Cis3Inv, NEW sender \in Everybody, NEW operator \in Operators, NEW update,
           Cis3!contract_update_operator(sender, operator, update)
    PROVE  Cis3Inv'
<1>1. /\ state \in Cis3States /\ seen \in Knowledge(Everybody, Numbers) /\ Cis3Agree(state, seen)
      /\ Cis3Calls /\ NonceInv(state.nonces_registry, seen, calls)
  BY Cis3Is
<1>2. operator \in Everybody
  BY AddressAssumption DEF Everybody
<1>3. seen' = Tok!Heard(seen, Tok!UpdateOperatorEvent(sender, operator, update))
  <2>1. Cis3!UpdateOperatorEvent(sender, operator, update) = Tok!UpdateOperatorEvent(sender, operator, update)
    BY DEF Cis3!UpdateOperatorEvent, Tok!UpdateOperatorEvent
  <2> QED
    BY <2>1, Cis3Shared, ToldOne DEF Cis3!contract_update_operator
<1>4. /\ seen' \in Knowledge(Everybody, Numbers)
      /\ SaysOperators(seen, seen', Tok!Updated(seen.operators, <<sender, operator>>, update))
  BY <1>1, <1>2, <1>3, HeardOperator
<1> DEFINE o == [state.operators EXCEPT ![sender] = Tok!Updated(@, operator, update)]
<1>5. state' = [state EXCEPT !.operators = o] /\ calls' = calls
  BY DEF Cis3!contract_update_operator, Cis3!OperatorUpdated, Cis3!Updated, Tok!Updated
<1>6. o \in [Everybody -> SUBSET Everybody] /\ KnownOperators(o, seen'.operators, Everybody)
  <2>1. state.operators \in [Everybody -> SUBSET Everybody] /\ KnownOperators(state.operators, seen.operators, Everybody)
    BY <1>1 DEF Cis3States, Cis3Agree
  <2> QED
    BY <1>2, <1>4, <2>1, OperatorsKnown DEF SaysOperators
<1> HIDE DEF o
<1>7. state' \in Cis3States /\ Cis3Agree(state', seen') /\ state'.nonces_registry = state.nonces_registry
  BY <1>1, <1>4, <1>5, <1>6 DEF Cis3States, Cis3Agree, SaysOperators
<1>8. NonceInv(state.nonces_registry, seen, calls)'
  BY <1>1, <1>4, <1>5, <1>7 DEF NonceInv, NoncesOK, SaysOperators
<1> QED
  BY <1>1, <1>4, <1>5, <1>7, <1>8, Cis3Kept DEF CallsOK, Cis3Calls

LEMMA Cis3Permit ==
    ASSUME Cis3Inv, NEW sender, NEW p \in Cis3Permits, Cis3!contract_permit(sender, p)
    PROVE  Cis3Inv'
<1> DEFINE r == state.nonces_registry
           r2 == [r EXCEPT ![p.signer] = @ + 1]
           s == [state EXCEPT !.nonces_registry = r2]
           e == Tok!NonceEvent(p.signer, p.nonce)
<1>1. /\ state \in Cis3States /\ seen \in Knowledge(Everybody, Numbers) /\ Cis3Agree(state, seen)
      /\ Cis3Calls /\ NonceInv(state.nonces_registry, seen, calls)
      /\ NonceTypes(Accounts, state.nonces_registry, seen, calls)
  BY Cis3Is
<1>2. p.signer \in Accounts /\ p.signer \in Everybody /\ p.nonce = r[p.signer]
  BY PermitAssumption DEF Cis3!contract_permit, Everybody
<1>3. r \in [Accounts -> Nat] /\ r2 \in [Accounts -> Nat] /\ p.nonce \in Nat
  <2>1. r \in [Accounts -> Nat]
    BY <1>1 DEF Cis3States
  <2> HIDE DEF r
  <2> QED
    BY <1>2, <2>1
<1>e. e = Cis3!NonceEvent(p.signer, p.nonce)
  BY DEF Cis3!NonceEvent, Tok!NonceEvent
<1>4. CASE /\ p.entry_point = "transfer" /\ state' = s
           /\ Cis3!StartsBatch(p.signer, p.batch, <<e>>) /\ UNCHANGED seen
  <2>1. p.batch \in Seq(TransfersOf(Numbers, Everybody)) /\ p.batch # <<>>
    BY <1>4, PermitAssumption DEF BatchesOf, TransfersOf, Everybody, Numbers
  <2>2. Tok!StartsBatch(p.signer, p.batch, <<e>>)
    BY <1>4, Cis3Shared
  <2>3. <<e>> \in FinalEvents(Accounts)
    BY <1>2, <1>3 DEF FinalEvents
  <2>4. state' \in Cis3States /\ Cis3Agree(state', seen') /\ state'.nonces_registry = r2
    <3> HIDE DEF r2
    <3> QED
      BY <1>1, <1>3, <1>4 DEF Cis3States, Cis3Agree
  <2>5. Counts(Accounts, r, state'.nonces_registry, <<e>>)
    BY <1>2, <2>4 DEF Counts
  <2>6. Cis3Calls'
    <3> HIDE DEF e
    <3> QED
      BY <1>1, <1>2, <2>1, <2>2, <2>3, StartsOK DEF Cis3Inv, Cis3Calls
  <2>7. NonceInv(state.nonces_registry, seen, calls)'
    <3> HIDE DEF e
    <3> QED
      BY <1>1, <1>4, <2>2, <2>5, StartsNonces DEF Cis3Calls
  <2> QED
    BY <1>1, <1>4, <2>4, <2>6, <2>7, Cis3Kept
<1>5. CASE /\ p.entry_point = "updateOperator"
           /\ state' = Cis3!OperatorUpdated(s, p.signer, p.operator, p.update)
           /\ Cis3!log(<<Cis3!UpdateOperatorEvent(p.signer, p.operator, p.update)>> \o <<e>>)
           /\ UNCHANGED calls
  <2> DEFINE u == Tok!UpdateOperatorEvent(p.signer, p.operator, p.update)
             h == Tok!Heard(seen, u)
             o == [state.operators EXCEPT ![p.signer] = Tok!Updated(@, p.operator, p.update)]
  <2>1. p.operator \in Everybody
    BY <1>5, PermitAssumption DEF Everybody
  <2>2. seen' = Tok!Heard(h, e)
    <3>1. Cis3!UpdateOperatorEvent(p.signer, p.operator, p.update) = u
      BY DEF Cis3!UpdateOperatorEvent, Tok!UpdateOperatorEvent
    <3>2. seen' = Told(seen, <<u>> \o <<e>>)
      BY <1>5, <3>1, Cis3Shared
    <3>3. <<e>> \in FinalEvents(Accounts)
      BY <1>2, <1>3 DEF FinalEvents
    <3> HIDE DEF e, u
    <3>4. Told(seen, <<u>> \o <<e>>) = Told(h, <<e>>)
      BY <3>3, ToldAfter
    <3> QED
      BY <3>2, <3>4, ToldOne
  <2>3. /\ h \in Knowledge(Everybody, Numbers)
        /\ SaysOperators(seen, h, Tok!Updated(seen.operators, <<p.signer, p.operator>>, p.update))
    BY <1>1, <1>2, <2>1, HeardOperator
  <2>4. seen' \in Knowledge(Everybody, Numbers) /\ SaysNonce(h, seen', p.signer, p.nonce)
    <3> HIDE DEF h
    <3> QED
      BY <1>2, <1>3, <2>2, <2>3, HeardNonce
  <2>5. state' = [state EXCEPT !.nonces_registry = r2, !.operators = o]
    BY <1>1, <1>5 DEF Cis3!OperatorUpdated, Cis3!Updated, Tok!Updated, Cis3States
  <2>6. o \in [Everybody -> SUBSET Everybody] /\ KnownOperators(o, seen'.operators, Everybody)
    <3>1. state.operators \in [Everybody -> SUBSET Everybody] /\ KnownOperators(state.operators, seen.operators, Everybody)
      BY <1>1 DEF Cis3States, Cis3Agree
    <3>2. seen'.operators = Tok!Updated(seen.operators, <<p.signer, p.operator>>, p.update)
      BY <2>3, <2>4 DEF SaysOperators, SaysNonce
    <3> HIDE DEF r, r2, s, e, u, h
    <3>3. /\ o \in [Everybody -> SUBSET Everybody]
          /\ KnownOperators(o, Tok!Updated(seen.operators, <<p.signer, p.operator>>, p.update), Everybody)
      BY <1>2, <2>1, <3>1, OperatorsKnown
    <3> QED
      BY <3>2, <3>3
  <2> HIDE DEF o, h
  <2>7. state' \in Cis3States /\ state'.nonces_registry = r2 /\ state'.operators = o
        /\ state'.all_tokens = state.all_tokens /\ state'.owned_tokens = state.owned_tokens
        /\ state'.token_id_counter = state.token_id_counter
    <3> HIDE DEF r2
    <3> QED
      BY <1>1, <1>3, <2>5, <2>6 DEF Cis3States
  <2>8. Cis3Agree(state', seen')
    BY <1>1, <1>2, <1>3, <2>3, <2>4, <2>6, <2>7 DEF Cis3Agree, SaysOperators, SaysNonce
  <2>9. NonceInv(state.nonces_registry, seen, calls)'
    <3> DEFINE k2 == seen'
               a == p.signer
    <3>1. h.nonces = seen.nonces /\ h.replayed = seen.replayed /\ SaysNonce(h, k2, a, r[a]) /\ a \in Accounts
      BY <1>2, <2>3, <2>4 DEF SaysOperators
    <3>2. Counted(r, r2, a) /\ NonceInv(r, seen, calls) /\ NonceTypes(Accounts, r, seen, calls)
      BY <1>1 DEF Counted
    <3> HIDE DEF r, r2, k2, a
    <3>3. NonceInv(r2, k2, calls)
      BY <3>1, <3>2, NonceUsed
    <3> QED
      BY <1>5, <2>7, <3>3 DEF k2
  <2> QED
    BY <1>1, <1>5, <2>4, <2>7, <2>8, <2>9, Cis3Kept DEF CallsOK, Cis3Calls
<1> QED
  BY <1>4, <1>5, <1>e DEF Cis3!contract_permit

LEMMA Cis3Moves ==
    ASSUME Cis3Inv,
           Cis3!NextTransfer(Cis3!Accepts(Cis3!Top.sender, Cis3!Upcoming), Cis3!Moved(Cis3!Upcoming),
                             Cis3!OneEvent(Cis3!Upcoming))
    PROVE  Cis3Inv'
<1> DEFINE t == Tok!Upcoming
           T == TransfersOf(Numbers, Everybody)
<1>1. /\ state \in Cis3States /\ seen \in Knowledge(Everybody, Numbers) /\ Cis3Agree(state, seen)
      /\ CallsOK(Everybody, T, FinalEvents(Accounts), Cis3Good)
      /\ NonceInv(state.nonces_registry, seen, calls)
  BY Cis3Is DEF Cis3Calls
<1>2. /\ calls # <<>> /\ Tok!Top.hook = None
      /\ \/ Cis3!Accepts(Tok!Top.sender, t) /\ Moves(Cis3!Moved(t), Cis3!OneEvent(t))
         \/ Tok!Rejects
  BY Cis3Transfers
<1>3. CASE Tok!Rejects
  <2>1. NonceInv(state.nonces_registry, seen, calls)'
    BY <1>1, <1>2, <1>3, RejectsNonces DEF CallsOK
  <2>2. CallsOK(Everybody, T, FinalEvents(Accounts), Cis3Good)' /\ Tok!Saved' \in Cis3Good
    <3> HIDE DEF T
    <3> QED
      BY <1>1, <1>2, <1>3, RejectsOK, Cis3GoodIs
  <2> QED
    BY <2>1, <2>2 DEF Cis3Inv, Cis3Calls
<1>4. CASE Cis3!Accepts(Tok!Top.sender, t) /\ Moves(Cis3!Moved(t), Cis3!OneEvent(t))
  <2>1. t \in T
    BY <1>1, <1>2, UpcomingOK
  <2>2. t.token_id \in Numbers /\ t.amount \in Nat /\ t.from \in Everybody /\ t.to \in Everybody
    BY <2>1 DEF TransfersOf
  <2>3. CallsOK(Everybody, T, FinalEvents(Accounts), Cis3Good)'
    BY <1>1, <1>2, <1>4, MovesOK, AddressAssumption
  <2> DEFINE e == Tok!TransferEvent(t)
             h == Tok!Heard(seen, e)
  <2>4. Cis3!OneEvent(t) = <<e>>
    BY DEF Cis3!OneEvent, Cis3!TransferEvent, Tok!TransferEvent
  <2>5. /\ h \in Knowledge(Everybody, Numbers)
        /\ SaysBalances(seen, h, Tok!Transferred(seen.balances, t.token_id, t.amount, t.from, t.to))
    BY <1>1, <2>2, HeardTransfer
  <2> DEFINE owned == state.owned_tokens
             o == IF t.amount = 0 THEN owned ELSE Tok!HandedOver(owned, t.token_id, t.from, t.to)
             moved == [state EXCEPT !.owned_tokens = o]
  <2>6. t.amount \in {0, 1} /\ (t.amount = 1 => t.token_id \in owned[t.from])
    BY <1>4 DEF Cis3!Accepts, Cis3!balance
  <2>7. Owners(owned, state.all_tokens, seen.balances, Everybody, Numbers)
    BY <1>1 DEF Cis3States, Cis3Agree, Knowledge, Owners
  <2>8. Cis3!Moved(t) = moved
    <3>1. state = [state EXCEPT !.owned_tokens = state.owned_tokens]
      BY <1>1 DEF Cis3States
    <3> QED
      BY <2>6, <3>1 DEF Cis3!Moved, Cis3!HandedOver, Tok!HandedOver
  <2>9. o = IF t.amount = 0 THEN owned ELSE Tok!HandedOver(owned, t.token_id, t.from, t.to)
    OBVIOUS
  <2>10. Moves(moved, <<e>>)
    BY <1>4, <2>4, <2>8
  <2> HIDE DEF o, owned, t
  <2>11. /\ o \in [Everybody -> SUBSET Numbers] /\ OwnedOnce(o, state.all_tokens, Everybody, Numbers)
         /\ KnownOwners(o, Tok!Transferred(seen.balances, t.token_id, t.amount, t.from, t.to), Everybody, Numbers)
    BY <2>2, <2>6, <2>7, <2>9, MovedOnce
  <2>12. moved \in Cis3States /\ moved.nonces_registry = state.nonces_registry /\ Cis3Agree(moved, h)
    <3>1. moved \in Cis3States /\ moved.nonces_registry = state.nonces_registry /\ moved.owned_tokens = o
          /\ moved.all_tokens = state.all_tokens /\ moved.operators = state.operators
          /\ moved.token_id_counter = state.token_id_counter
      BY <1>1, <2>11 DEF Cis3States
    <3> HIDE DEF moved, h
    <3> QED
      BY <1>1, <2>5, <2>11, <3>1 DEF Cis3Agree, SaysBalances
  <2> HIDE DEF moved, h, e, T
  <2>13. /\ state' = moved
         /\ seen' \in Knowledge(Everybody, Numbers) /\ SaysNonces(h, seen')
         /\ seen'.nonces \in SUBSET (Accounts \X Nat)
         /\ NonceInv(state.nonces_registry, seen, calls)'
    <3>1. h = Tok!Heard(seen, e) /\ h.nonces = seen.nonces /\ h.replayed = seen.replayed
      BY <2>5 DEF h, SaysBalances
    <3>2. Accounts \subseteq Everybody /\ seen.nonces \in SUBSET (Accounts \X Nat)
      BY <1>1 DEF Everybody, Cis3Agree
    <3> QED
      BY <1>1, <1>2, <2>5, <2>10, <2>12, <3>1, <3>2, MovesNonces
  <2>14. Cis3Agree(state', seen')
    BY <2>12, <2>13 DEF Cis3Agree, SaysNonces
  <2> QED
    BY <2>3, <2>12, <2>13, <2>14, Cis3Kept DEF Cis3Calls, T
<1> QED
  BY <1>2, <1>3, <1>4

LEMMA Cis3Hooks ==
    ASSUME Cis3Inv, Cis3!HookReturns \/ Cis3!HookRejects
    PROVE  Cis3Inv'
<1> DEFINE T == TransfersOf(Numbers, Everybody)
<1>1. /\ state \in Cis3States /\ seen \in Knowledge(Everybody, Numbers) /\ Cis3Agree(state, seen)
      /\ CallsOK(Everybody, T, FinalEvents(Accounts), Cis3Good)
      /\ NonceInv(state.nonces_registry, seen, calls)
  BY Cis3Is DEF Cis3Calls
<1>2. CASE Cis3!HookRejects
  <2>0. calls # <<>> /\ Tok!Rejects
    BY <1>2, Cis3Shared
  <2>1. NonceInv(state.nonces_registry, seen, calls)'
    BY <1>1, <2>0, RejectsNonces DEF CallsOK
  <2>2. CallsOK(Everybody, T, FinalEvents(Accounts), Cis3Good)' /\ Tok!Saved' \in Cis3Good
    <3> HIDE DEF T
    <3> QED
      BY <1>1, <2>0, RejectsOK, Cis3GoodIs
  <2> QED
    BY <2>1, <2>2 DEF Cis3Inv, Cis3Calls
<1>3. CASE Cis3!HookReturns
  <2>1. Tok!HookReturns
    BY <1>3, Cis3Shared
  <2>2. Accounts \subseteq Everybody /\ seen.nonces \in SUBSET (Accounts \X Nat)
    BY <1>1 DEF Everybody, Cis3Agree
  <2>3. /\ state' = state /\ CallsOK(Everybody, T, FinalEvents(Accounts), Cis3Good)'
        /\ seen' \in Knowledge(Everybody, Numbers) /\ SaysNonces(seen, seen')
        /\ seen'.nonces \in SUBSET (Accounts \X Nat)
        /\ NonceInv(state.nonces_registry, seen, calls)'
    <3> HIDE DEF T
    <3> QED
      BY <1>1, <2>1, <2>2, HookReturnsNonces
  <2>4. Cis3Agree(state', seen')
    BY <1>1, <2>3 DEF Cis3Agree, SaysNonces
  <2> QED
    BY <1>1, <2>3, <2>4, Cis3Kept DEF Cis3Calls
<1> QED
  BY <1>2, <1>3

LEMMA Cis3Next == ASSUME Cis3Inv, Cis3!Next PROVE Cis3Inv'
<1>1. CASE \E sender \in Cis3!Addresses :
              \/ \E owner \in Cis3!Addresses : Cis3!contract_mint(sender, owner)
              \/ \E batch \in Cis3Batches : Cis3!contract_transfer(sender, batch)
              \/ \E operator \in Operators, update \in {"add", "remove"} :
                    Cis3!contract_update_operator(sender, operator, update)
              \/ \E p \in Cis3Permits : Cis3!contract_permit(sender, p)
              \/ \E imp \in Implementors : Cis3!contract_set_implementor(sender, imp[1], imp[2])
  BY <1>1, Cis3Mint, Cis3Transfer, Cis3UpdateOperator, Cis3Permit, Cis3SetImplementor DEF Cis3!Addresses, Everybody
<1> QED
  BY <1>1, Cis3Moves, Cis3Hooks DEF Cis3!Next

LEMMA Cis3OneOwner == Cis3Inv => Cis3!OneOwner
<1> SUFFICES ASSUME Cis3Inv PROVE Cis3!OneOwner
  OBVIOUS
<1> DEFINE owned == state.owned_tokens
<1>1. OwnedOnce(owned, state.all_tokens, Everybody, Numbers) /\ state.all_tokens = 1 .. state.token_id_counter
      /\ state.all_tokens \subseteq Numbers
  BY Cis3Is DEF Cis3Agree, Cis3States
<1>2. ASSUME NEW t \in state.all_tokens
      PROVE  Cardinality({a \in Everybody : t \in owned[a]}) = 1
  <2>1. PICK b \in Everybody : t \in owned[b]
    BY <1>1 DEF OwnedOnce
  <2>2. {a \in Everybody : t \in owned[a]} = {b}
    BY <1>1, <2>1 DEF OwnedOnce
  <2> QED
    BY <2>2, FS_Singleton
<1> QED
  BY <1>1, <1>2 DEF Cis3!OneOwner, Cis3!Addresses, Everybody, Cis3!Cardinality, Cardinality

LEMMA Cis3PermitsOnce == Cis3Inv => Cis3!PermitsOnce
<1> SUFFICES ASSUME Cis3Inv PROVE Cis3!PermitsOnce
  OBVIOUS
<1>1. NoncesOK(state.nonces_registry, seen, calls, Len(calls))
  BY Cis3Is DEF NonceInv
<1> QED
  BY <1>1 DEF NoncesOK, Cis3!PermitsOnce, Cis3!contract_nonce_of

LEMMA Cis3LogTells == Cis3Inv => Cis3!LogTellsState
<1> SUFFICES ASSUME Cis3Inv PROVE Cis3!LogTellsState
  OBVIOUS
<1>1. Cis3Agree(state, seen) /\ state \in Cis3States
  BY Cis3Is
<1>2. Cis3!TellsBalances(state.all_tokens, Cis3!contract_balance_of)
  <2> SUFFICES ASSUME NEW t \in state.all_tokens, NEW a \in Everybody
               PROVE  (IF t \in state.owned_tokens[a] THEN 1 ELSE 0) = seen.balances[<<a, t>>]
    BY DEF Cis3!TellsBalances, Cis3!contract_balance_of, Cis3!contains_token, Cis3!balance, Cis3!Addresses, Everybody
  <2>1. t \in Numbers
    BY <1>1 DEF Cis3States
  <2> QED
    BY <1>1, <2>1 DEF Cis3Agree, KnownOwners
<1>3. Cis3!TellsOperators(Cis3!contract_operator_of)
  <2>1. \A a, o \in Everybody : a \in state.operators[o] <=> <<o, a>> \in seen.operators
    BY <1>1 DEF Cis3Agree, KnownOperators
  <2> QED
    BY <2>1 DEF Cis3!TellsOperators, Cis3!contract_operator_of, Cis3!is_operator, Cis3!Addresses, Everybody
<1>4. \A t \in Numbers : Cis3!contract_token_metadata(t) = seen.metadata[t]
  BY <1>1 DEF Cis3Agree, Cis3!contract_token_metadata, Cis3!contains_token
<1> QED
  BY <1>2, <1>3, <1>4 DEF Cis3!LogTellsState, Numbers

-----------------------------------------------------------------------------
(* nametoken *)

NameRecords == [owner : Accounts, name_expires : Nat, data : {"empty", "data"}]

NameStates ==
    [admin        : Accounts,
     owned_names  : [Accounts -> SUBSET TokenIds],
     operators    : [Accounts -> SUBSET Everybody],
     all_names    : [TokenIds -> NameRecords \cup {None}],
     implementors : Implementations,
     now          : Nat,
     self_balance : Nat]

(* Who has which names by the records, *)
OwnersOf(names) ==
    [a \in Everybody |-> {t \in TokenIds : names[t] # None /\ names[t].owner = a}]

(* and who has which operators: a contract has none. *)
Extended(operators) == [a \in Everybody |-> IF a \in Accounts THEN operators[a] ELSE {}]

NameAgree(s, k) ==
    /\ \A a \in Accounts : s.owned_names[a] = OwnersOf(s.all_names)[a]
    /\ KnownOwners(OwnersOf(s.all_names), k.balances, Everybody, TokenIds)
    /\ KnownOperators(Extended(s.operators), k.operators, Everybody)
    /\ \A t \in TokenIds : k.metadata[t] = IF s.all_names[t] # None THEN t ELSE None

NameGood ==
    {w \in [state : NameStates, seen : Knowledge(Everybody, TokenIds)] : NameAgree(w.state, w.seen)}

NameCalls == CallsOK(Everybody, TransfersOf(TokenIds, Everybody), {<<>>}, NameGood)

NameInv == Tok!Saved \in NameGood /\ NameCalls

LEMMA NameGoodIs ==
    /\ Tok!Saved \in NameGood
         <=> state \in NameStates /\ seen \in Knowledge(Everybody, TokenIds) /\ NameAgree(state, seen)
    /\ \A w \in NameGood : w = [state |-> w.state, seen |-> w.seen]
  BY DEF NameGood, Tok!Saved

LEMMA NameKept ==
    ASSUME state' \in NameStates, seen' \in Knowledge(Everybody, TokenIds), NameAgree(state', seen'),
           NameCalls'
    PROVE  NameInv'
  BY DEF NameInv, NameGood, Tok!Saved

LEMMA NameInit == Names!Init => NameInv
<1> SUFFICES ASSUME Names!Init PROVE NameInv
  OBVIOUS
<1>1. seen \in Knowledge(Everybody, TokenIds)
  BY NothingKnown DEF Names!Init, Names!NothingSeen, Names!Addresses, Everybody
<1>2. state \in NameStates
  BY ImplementationsAre, AddressAssumption DEF Names!Init, Names!NoImplementors, NameStates
<1>3. NameAgree(state, seen)
  BY DEF Names!Init, Names!NothingSeen, Names!Addresses, Everybody, NameAgree, OwnersOf, KnownOwners,
         KnownOperators, Extended
<1>4. NameCalls
  BY EmptySeq DEF CallsOK, NameCalls, Names!Init
<1> QED
  BY <1>1, <1>2, <1>3, <1>4, NameGoodIs DEF NameInv

(* A step that leaves the owners, the operators and what is known of them *)
LEMMA NameSame ==
    ASSUME NameInv, state' \in NameStates, seen' = seen, calls' = calls,
           state'.owned_names = state.owned_names, state'.operators = state.operators,
           \A t \in TokenIds :
              /\ state'.all_names[t] = None <=> state.all_names[t] = None
              /\ state.all_names[t] # None => state'.all_names[t].owner = state.all_names[t].owner
    PROVE  NameInv'
<1>1. seen \in Knowledge(Everybody, TokenIds) /\ NameAgree(state, seen) /\ NameCalls
  BY NameGoodIs DEF NameInv
<1>2. OwnersOf(state'.all_names) = OwnersOf(state.all_names)
  BY DEF OwnersOf
<1>3. NameAgree(state', seen')
  BY <1>1, <1>2 DEF NameAgree
<1> QED
  BY <1>1, <1>3, NameKept DEF NameCalls, CallsOK

(* The record of a name is one, before and after its data or its time change. *)
LEMMA RecordIs ==
    ASSUME state \in NameStates, NEW t \in TokenIds
    PROVE  /\ state.all_names[t] # None => state.all_names[t] \in NameRecords
           /\ \A r \in NameRecords : r # None
  BY NamesAssumption DEF NameStates, NameRecords

LEMMA NameRenew ==
    ASSUME NameInv, NEW sender, NEW name \in TokenIds, Names!contract_renew(sender, name)
    PROVE  /\ NameInv'
           /\ \A t \in TokenIds : state.all_names[t] # None => state'.all_names[t].owner = state.all_names[t].owner
<1>1. state \in NameStates
  BY NameGoodIs DEF NameInv
<1> DEFINE e == state.all_names[name].name_expires + REGISTRATION_PERIOD_DAYS
           r == [state.all_names[name] EXCEPT !.name_expires = e]
           names == [state.all_names EXCEPT ![name] = r]
           b == state.self_balance + RENEWAL_FEE
<1>2. state' = [state EXCEPT !.all_names = names, !.self_balance = b] /\ seen' = seen /\ calls' = calls
      /\ state.all_names[name] # None
  BY <1>1 DEF Names!contract_renew, Names!Paid, Names!Controls, Names!contains_token, NameStates
<1>3. state.all_names[name] \in NameRecords
  BY <1>1, <1>2, RecordIs
<1>4. r \in NameRecords /\ r.owner = state.all_names[name].owner
  BY <1>3, NamesAssumption DEF NameRecords
<1>5. r # None /\ b \in Nat
  BY <1>1, <1>4, RecordIs, NamesAssumption DEF NameStates
<1> HIDE DEF r, b
<1>6. names \in [TokenIds -> NameRecords \cup {None}]
  BY <1>1, <1>4 DEF NameStates
<1>7. \A t \in TokenIds :
        /\ names[t] = None <=> state.all_names[t] = None
        /\ state.all_names[t] # None => names[t].owner = state.all_names[t].owner
  <2>1. state.all_names \in [TokenIds -> NameRecords \cup {None}]
    BY <1>1 DEF NameStates
  <2> QED
    BY <1>2, <1>4, <1>5, <2>1
<1> HIDE DEF names
<1>8. /\ state' \in NameStates /\ state'.owned_names = state.owned_names
      /\ state'.operators = state.operators /\ state'.all_names = names
  BY <1>1, <1>2, <1>5, <1>6 DEF NameStates
<1> QED
  BY <1>2, <1>7, <1>8, NameSame

LEMMA NameUpdateData ==
    ASSUME NameInv, NEW sender, NEW name \in TokenIds, Names!contract_update_data(sender, name, "data")
    PROVE  /\ NameInv'
           /\ \A t \in TokenIds : state.all_names[t] # None => state'.all_names[t].owner = state.all_names[t].owner
<1>1. state \in NameStates
  BY NameGoodIs DEF NameInv
<1> DEFINE r == [state.all_names[name] EXCEPT !.data = "data"]
           names == [state.all_names EXCEPT ![name] = r]
           b == state.self_balance + UPDATE_FEE
<1>2. state' = [state EXCEPT !.all_names = names, !.self_balance = b] /\ seen' = seen /\ calls' = calls
      /\ state.all_names[name] # None
  BY <1>1 DEF Names!contract_update_data, Names!Paid, Names!Controls, Names!contains_token, NameStates
<1>3. state.all_names[name] \in NameRecords
  BY <1>1, <1>2, RecordIs
<1>4. r \in NameRecords /\ r.owner = state.all_names[name].owner
  BY <1>3 DEF NameRecords
<1>5. r # None /\ b \in Nat
  BY <1>1, <1>4, RecordIs, NamesAssumption DEF NameStates
<1> HIDE DEF r, b
<1>6. names \in [TokenIds -> NameRecords \cup {None}]
  BY <1>1, <1>4 DEF NameStates
<1>7. \A t \in TokenIds :
        /\ names[t] = None <=> state.all_names[t] = None
        /\ state.all_names[t] # None => names[t].owner = state.all_names[t].owner
  <2>1. state.all_names \in [TokenIds -> NameRecords \cup {None}]
    BY <1>1 DEF NameStates
  <2> QED
    BY <1>2, <1>4, <1>5, <2>1
<1> HIDE DEF names
<1>8. /\ state' \in NameStates /\ state'.owned_names = state.owned_names
      /\ state'.operators = state.operators /\ state'.all_names = names
  BY <1>1, <1>2, <1>5, <1>6 DEF NameStates
<1> QED
  BY <1>2, <1>7, <1>8, NameSame

(* Money, the admin, implementors and time *)
LEMMA NameOthers ==
    ASSUME NameInv, NEW sender,
           \/ Names!contract_withdraw(sender, UPDATE_FEE)
           \/ \E new_admin \in Accounts : Names!contract_update_admin(sender, new_admin)
           \/ \E imp \in Implementors : Names!contract_set_implementor(sender, imp[1], imp[2])
           \/ Names!Tick
    PROVE  NameInv' /\ state'.all_names = state.all_names
<1>1. state \in NameStates
  BY NameGoodIs DEF NameInv
<1>2. CASE Names!contract_withdraw(sender, UPDATE_FEE)
  <2>1. /\ state' = [state EXCEPT !.self_balance = @ - UPDATE_FEE] /\ seen' = seen /\ calls' = calls
        /\ UPDATE_FEE <= state.self_balance
    BY <1>2 DEF Names!contract_withdraw
  <2>2. state' \in NameStates /\ state'.owned_names = state.owned_names
        /\ state'.operators = state.operators /\ state'.all_names = state.all_names
    BY <1>1, <2>1, NamesAssumption DEF NameStates
  <2> QED
    BY <2>1, <2>2, NameSame
<1>3. ASSUME NEW new_admin \in Accounts, Names!contract_update_admin(sender, new_admin)
      PROVE  NameInv' /\ state'.all_names = state.all_names
  <2>1. state' = [state EXCEPT !.admin = new_admin] /\ seen' = seen /\ calls' = calls
    BY <1>3 DEF Names!contract_update_admin
  <2>2. state' \in NameStates /\ state'.owned_names = state.owned_names
        /\ state'.operators = state.operators /\ state'.all_names = state.all_names
    BY <1>1, <2>1 DEF NameStates
  <2> QED
    BY <2>1, <2>2, NameSame
<1>4. ASSUME NEW imp \in Implementors, Names!contract_set_implementor(sender, imp[1], imp[2])
      PROVE  NameInv' /\ state'.all_names = state.all_names
  <2> DEFINE m == [state.implementors EXCEPT ![imp[1]] = imp[2]]
  <2>1. state' = [state EXCEPT !.implementors = m] /\ seen' = seen /\ calls' = calls
    BY <1>4 DEF Names!contract_set_implementor
  <2>2. m \in Implementations
    BY <1>1, ImplementationsAre DEF NameStates
  <2> HIDE DEF m
  <2>3. state' \in NameStates /\ state'.owned_names = state.owned_names
        /\ state'.operators = state.operators /\ state'.all_names = state.all_names
    BY <1>1, <2>1, <2>2 DEF NameStates
  <2> QED
    BY <2>1, <2>3, NameSame
<1>5. CASE Names!Tick
  <2>1. state' = [state EXCEPT !.now = @ + 1] /\ seen' = seen /\ calls' = calls
    BY <1>5 DEF Names!Tick
  <2>2. state' \in NameStates /\ state'.owned_names = state.owned_names
        /\ state'.operators = state.operators /\ state'.all_names = state.all_names
    BY <1>1, <2>1 DEF NameStates
  <2> QED
    BY <2>1, <2>2, NameSame
<1> QED
  BY <1>2, <1>3, <1>4, <1>5

LEMMA NameTransfer ==
    ASSUME NameInv, NEW sender \in Everybody, NEW batch \in NameBatches,
           Names!contract_transfer(sender, batch)
    PROVE  NameInv' /\ state' = state
<1>1. batch \in Seq(TransfersOf(TokenIds, Everybody)) /\ batch # <<>>
  BY BatchAssumption DEF BatchesOf, TransfersOf, Everybody
<1>2. Tok!StartsBatch(sender, batch, <<>>) /\ UNCHANGED <<state, seen>>
  BY NamesShared DEF Names!contract_transfer
<1> QED
  BY <1>1, <1>2, StartsOK DEF NameInv, Tok!Saved, NameCalls

LEMMA NameUpdateOperator ==
    ASSUME NameInv, NEW sender, NEW operator \in Operators, NEW update,
           Names!contract_update_operator(sender, operator, update)
    PROVE  NameInv' /\ state'.all_names = state.all_names
<1>1. /\ state \in NameStates /\ seen \in Knowledge(Everybody, TokenIds) /\ NameAgree(state, seen)
      /\ NameCalls
  BY NameGoodIs DEF NameInv
<1>2. operator \in Everybody /\ sender \in Accounts /\ sender \in Everybody
  BY AddressAssumption DEF Everybody, Names!contract_update_operator
<1>3. seen' = Tok!Heard(seen, Tok!UpdateOperatorEvent(sender, operator, update))
  <2>1. Names!UpdateOperatorEvent(sender, operator, update) = Tok!UpdateOperatorEvent(sender, operator, update)
    BY DEF Names!UpdateOperatorEvent, Tok!UpdateOperatorEvent
  <2> QED
    BY <2>1, NamesShared, ToldOne DEF Names!contract_update_operator
<1>4. /\ seen' \in Knowledge(Everybody, TokenIds)
      /\ SaysOperators(seen, seen', Tok!Updated(seen.operators, <<sender, operator>>, update))
  BY <1>1, <1>2, <1>3, HeardOperator
<1> DEFINE o == [state.operators EXCEPT ![sender] = Tok!Updated(@, operator, update)]
           x == Extended(state.operators)
<1>5. state' = [state EXCEPT !.operators = o] /\ calls' = calls
  BY DEF Names!contract_update_operator, Names!Updated, Tok!Updated
<1>6. state.operators \in [Accounts -> SUBSET Everybody] /\ KnownOperators(x, seen.operators, Everybody)
  BY <1>1 DEF NameStates, NameAgree
<1>7. x \in [Everybody -> SUBSET Everybody]
  BY <1>6 DEF Extended
<1>8. o \in [Accounts -> SUBSET Everybody] /\ Extended(o) = [x EXCEPT ![sender] = Tok!Updated(@, operator, update)]
  BY <1>2, <1>6 DEF Extended, Tok!Updated
<1> HIDE DEF o, x
<1>9. KnownOperators(Extended(o), seen'.operators, Everybody)
  <2>1. KnownOperators([x EXCEPT ![sender] = Tok!Updated(@, operator, update)],
                       Tok!Updated(seen.operators, <<sender, operator>>, update), Everybody)
    BY <1>2, <1>6, <1>7, OperatorsKnown
  <2>2. seen'.operators = Tok!Updated(seen.operators, <<sender, operator>>, update)
    BY <1>4 DEF SaysOperators
  <2> QED
    BY <1>8, <2>1, <2>2
<1>10. state' \in NameStates /\ NameAgree(state', seen') /\ state'.all_names = state.all_names
  BY <1>1, <1>4, <1>5, <1>8, <1>9 DEF NameStates, NameAgree, SaysOperators
<1> QED
  BY <1>1, <1>4, <1>5, <1>10, NameKept DEF CallsOK, NameCalls

(* The names and who has them: the records say so. *)
Recorded(owned, names, b) ==
    /\ owned \in [Accounts -> SUBSET TokenIds] /\ names \in [TokenIds -> NameRecords \cup {None}]
    /\ \A a \in Accounts : owned[a] = OwnersOf(names)[a]
    /\ b \in [Everybody \X TokenIds -> Sayable] /\ KnownOwners(OwnersOf(names), b, Everybody, TokenIds)

LEMMA NameRecorded ==
    ASSUME state \in NameStates, seen \in Knowledge(Everybody, TokenIds), NameAgree(state, seen)
    PROVE  Recorded(state.owned_names, state.all_names, seen.balances)
  BY DEF NameStates, Knowledge, NameAgree, Recorded

(* Somebody's name becomes another's, who may be the same, *)
LEMMA NamePassed ==
    ASSUME NEW owned, NEW names, NEW b, Recorded(owned, names, b), NEW t \in TokenIds,
           names[t] # None, NEW from, from = names[t].owner, NEW to \in Accounts,
           NEW r \in NameRecords, r.owner = to,
           NEW o, o = Tok!HandedOver(owned, t, from, to), NEW n, n = [names EXCEPT ![t] = r]
    PROVE  Recorded(o, n, Tok!Transferred(b, t, 1, from, to))
<1>0. /\ owned \in [Accounts -> SUBSET TokenIds] /\ names \in [TokenIds -> NameRecords \cup {None}]
      /\ \A a \in Accounts : owned[a] = OwnersOf(names)[a]
      /\ b \in [Everybody \X TokenIds -> Sayable] /\ KnownOwners(OwnersOf(names), b, Everybody, TokenIds)
  BY DEF Recorded
<1>1. r # None /\ from \in Accounts /\ Accounts \subseteq Everybody
  BY <1>0, NamesAssumption DEF NameRecords, Everybody
<1>2. n \in [TokenIds -> NameRecords \cup {None}] /\ n[t] = r /\ \A u \in TokenIds : u # t => n[u] = names[u]
  BY <1>0
<1> DEFINE p == OwnersOf(names)
           q == OwnersOf(n)
<1>3. \A a \in Everybody, u \in TokenIds : u \in p[a] <=> names[u] # None /\ names[u].owner = a
  BY DEF OwnersOf
<1>4. \A a \in Everybody, u \in TokenIds : u \in q[a] <=> n[u] # None /\ n[u].owner = a
  BY DEF OwnersOf
<1>5. \A a \in Everybody : p[a] \subseteq TokenIds /\ q[a] \subseteq TokenIds
  BY DEF OwnersOf
<1> HIDE DEF p, q
<1>6. \A a \in Everybody, u \in TokenIds : u \in q[a] <=> IF u = t THEN a = to ELSE u \in p[a]
  BY <1>1, <1>2, <1>3, <1>4
<1>7. t \in p[from] /\ \A a \in Everybody : t \in p[a] => a = from
  BY <1>1, <1>3
<1>8. KnownOwners(q, Tok!Transferred(b, t, 1, from, to), Everybody, TokenIds)
  <2>1. KnownOwners(p, b, Everybody, TokenIds) /\ b \in [Everybody \X TokenIds -> Sayable]
    BY <1>0 DEF p
  <2>2. from \in Everybody /\ to \in Everybody
    BY <1>1
  <2> QED
    BY <1>6, <1>7, <2>1, <2>2, HandedOverKnown
<1>9. Tok!Transferred(b, t, 1, from, to) \in [Everybody \X TokenIds -> Sayable]
  <2>1. from \in Everybody /\ to \in Everybody /\ 1 \in Int
    BY <1>1
  <2> QED
    BY <1>0, <2>1, TransferredSayable
<1>10. o \in [Accounts -> SUBSET TokenIds]
  BY <1>0, <1>1 DEF Tok!HandedOver
<1>11. ASSUME NEW a \in Accounts PROVE o[a] = q[a]
  <2>1. o[a] = IF a = to THEN (IF a = from THEN owned[a] \ {t} ELSE owned[a]) \cup {t}
               ELSE IF a = from THEN owned[a] \ {t} ELSE owned[a]
    BY <1>0, <1>1 DEF Tok!HandedOver
  <2>2. owned[a] = p[a] /\ a \in Everybody
    BY <1>0, <1>1 DEF p
  <2>3. \A u \in TokenIds : u \in o[a] <=> u \in q[a]
    BY <1>6, <1>7, <2>1, <2>2
  <2> QED
    BY <1>5, <1>10, <2>2, <2>3
<1> QED
  BY <1>2, <1>8, <1>9, <1>10, <1>11 DEF Recorded, q

(* a name becomes somebody's for the first time, *)
LEMMA NameMinted ==
    ASSUME NEW owned, NEW names, NEW b, Recorded(owned, names, b), NEW t \in TokenIds,
           names[t] = None, NEW to \in Accounts, NEW r \in NameRecords, r.owner = to,
           NEW o, o = [owned EXCEPT ![to] = @ \cup {t}], NEW n, n = [names EXCEPT ![t] = r],
           NEW c, c = [b EXCEPT ![<<to, t>>] = Tok!add(@, 1)]
    PROVE  Recorded(o, n, c)
<1>0. /\ owned \in [Accounts -> SUBSET TokenIds] /\ names \in [TokenIds -> NameRecords \cup {None}]
      /\ \A a \in Accounts : owned[a] = OwnersOf(names)[a]
      /\ b \in [Everybody \X TokenIds -> Sayable] /\ KnownOwners(OwnersOf(names), b, Everybody, TokenIds)
  BY DEF Recorded
<1>1. r # None /\ Accounts \subseteq Everybody
  BY NamesAssumption DEF NameRecords, Everybody
<1>2. n \in [TokenIds -> NameRecords \cup {None}] /\ n[t] = r /\ \A u \in TokenIds : u # t => n[u] = names[u]
  BY <1>0
<1> DEFINE p == OwnersOf(names)
           q == OwnersOf(n)
<1>3. \A a \in Everybody, u \in TokenIds : u \in p[a] <=> names[u] # None /\ names[u].owner = a
  BY DEF OwnersOf
<1>4. \A a \in Everybody, u \in TokenIds : u \in q[a] <=> n[u] # None /\ n[u].owner = a
  BY DEF OwnersOf
<1>5. \A a \in Everybody : p[a] \subseteq TokenIds /\ q[a] \subseteq TokenIds
  BY DEF OwnersOf
<1> HIDE DEF p, q
<1>6. \A a \in Everybody, u \in TokenIds : u \in q[a] <=> (u = t /\ a = to) \/ u \in p[a]
  BY <1>1, <1>2, <1>3, <1>4
<1>7. \A a \in Everybody : t \notin p[a]
  BY <1>3
<1>8. ASSUME NEW a \in Everybody, NEW u \in TokenIds PROVE c[<<a, u>>] = IF u \in q[a] THEN 1 ELSE 0
  <2>0. Tok!add(0, 1) = 1
    BY AmountAssumption DEF Tok!add
  <2>1. b[<<a, u>>] = IF u \in p[a] THEN 1 ELSE 0
    BY <1>0 DEF KnownOwners, p
  <2>2. c[<<a, u>>] = IF a = to /\ u = t THEN Tok!add(b[<<a, u>>], 1) ELSE b[<<a, u>>]
    BY <1>0
  <2> QED
    BY <1>6, <1>7, <2>0, <2>1, <2>2
<1>9. c \in [Everybody \X TokenIds -> Sayable]
  <2>1. b[<<to, t>>] \in Int /\ to \in Everybody
    BY <1>0, <1>1, AmountAssumption DEF Sayable
  <2>2. Tok!add(b[<<to, t>>], 1) \in Sayable
    BY <2>1, AddSayable
  <2> QED
    BY <1>0, <2>2
<1>10. o \in [Accounts -> SUBSET TokenIds]
  BY <1>0
<1>11. ASSUME NEW a \in Accounts PROVE o[a] = q[a]
  <2>1. o[a] = IF a = to THEN owned[a] \cup {t} ELSE owned[a]
    BY <1>0
  <2>2. owned[a] = p[a] /\ a \in Everybody
    BY <1>0, <1>1 DEF p
  <2>3. \A u \in TokenIds : u \in o[a] <=> u \in q[a]
    BY <1>6, <2>1, <2>2
  <2> QED
    BY <1>5, <1>10, <2>2, <2>3
<1> QED
  BY <1>2, <1>8, <1>9, <1>10, <1>11 DEF Recorded, KnownOwners, q

(* and everything else stays. *)
LEMMA NameRecordedKept ==
    ASSUME NameInv, state' \in NameStates, state'.operators = state.operators,
           seen' \in Knowledge(Everybody, TokenIds), seen'.operators = seen.operators,
           Recorded(state'.owned_names, state'.all_names, seen'.balances),
           \A t \in TokenIds : seen'.metadata[t] = IF state'.all_names[t] # None THEN t ELSE None,
           NameCalls'
    PROVE  NameInv'
<1>1. NameAgree(state, seen)
  BY NameGoodIs DEF NameInv
<1>2. NameAgree(state', seen')
  BY <1>1 DEF NameAgree, Recorded
<1> QED
  BY <1>2, NameKept

LEMMA NameRegisterExpired ==
    ASSUME NameInv, NEW name \in TokenIds, NEW owner \in Accounts, NEW expires \in Nat,
           Names!contains_token(name), calls' = calls,
           state' = Names!Paid(Names!register_expired(name, owner, expires), REGISTRATION_FEE),
           Names!log(<<Names!TransferEvent([token_id |-> name, amount |-> 1,
                                            from |-> state.all_names[name].owner, to |-> owner])>>)
    PROVE  /\ NameInv'
           /\ state'.all_names[name].name_expires = expires
           /\ \A t \in TokenIds : t # name => state'.all_names[t] = state.all_names[t]
<1>1. /\ state \in NameStates /\ seen \in Knowledge(Everybody, TokenIds) /\ NameAgree(state, seen)
      /\ NameCalls
  BY NameGoodIs DEF NameInv
<1> DEFINE old == state.all_names[name]
           from == old.owner
           r == [owner |-> owner, name_expires |-> expires, data |-> "empty"]
           n == [state.all_names EXCEPT ![name] = r]
           o == Tok!HandedOver(state.owned_names, name, from, owner)
           t == [token_id |-> name, amount |-> 1, from |-> from, to |-> owner]
           b == Tok!Transferred(seen.balances, name, 1, from, owner)
<1>2. old # None /\ old \in NameRecords /\ from \in Accounts /\ from \in Everybody /\ owner \in Everybody
  BY <1>1, RecordIs DEF Names!contains_token, NameRecords, Everybody
<1>3. r \in NameRecords /\ r.owner = owner
  BY DEF NameRecords
<1>4. state' = [state EXCEPT !.all_names = n, !.owned_names = o, !.self_balance = @ + REGISTRATION_FEE]
  <2> DEFINE s1 == [state EXCEPT !.all_names[name].name_expires = expires, !.all_names[name].data = "empty"]
             r1 == [old EXCEPT !.name_expires = expires, !.data = "empty"]
             n1 == [state.all_names EXCEPT ![name] = r1]
  <2>1. s1 = [state EXCEPT !.all_names = n1]
    BY <1>1, <1>2 DEF NameStates, NameRecords
  <2>2. [r1 EXCEPT !.owner = owner] = r
    <3> DEFINE x == [r1 EXCEPT !.owner = owner]
    <3> HIDE DEF old
    <3>1. r1 \in NameRecords /\ r1.name_expires = expires /\ r1.data = "empty"
      BY <1>2 DEF NameRecords
    <3> HIDE DEF r1
    <3>2. x \in NameRecords /\ x.owner = owner /\ x.name_expires = expires /\ x.data = "empty"
      BY <3>1 DEF NameRecords
    <3> HIDE DEF x
    <3>3. x = r
      BY <3>2 DEF NameRecords
    <3> QED
      BY <3>3 DEF x
  <2>3. Names!register_expired(name, owner, expires) = Names!Handed(s1, name, from, owner)
    BY DEF Names!register_expired
  <2> HIDE DEF s1, r1
  <2>4. Names!Handed(s1, name, from, owner)
          = [s1 EXCEPT !.owned_names = Tok!HandedOver(s1.owned_names, name, from, owner),
                       !.all_names = [s1.all_names EXCEPT ![name] = [s1.all_names[name] EXCEPT !.owner = owner]]]
    BY DEF Names!Handed, Names!HandedOver, Tok!HandedOver
  <2>5. s1.owned_names = state.owned_names /\ s1.all_names = n1 /\ n1[name] = r1
        /\ [n1 EXCEPT ![name] = r] = n
    BY <1>1, <2>1 DEF NameStates
  <2>6. [n1 EXCEPT ![name] = [n1[name] EXCEPT !.owner = owner]] = n
    BY <2>2, <2>5
  <2>7. Names!Handed(s1, name, from, owner) = [s1 EXCEPT !.owned_names = o, !.all_names = n]
    BY <2>4, <2>5, <2>6
  <2> HIDE DEF o, n, n1
  <2>8. Names!Handed(s1, name, from, owner) = [state EXCEPT !.owned_names = o, !.all_names = n]
    BY <1>1, <2>1, <2>7 DEF NameStates
  <2> QED
    BY <1>1, <2>3, <2>8 DEF Names!Paid, NameStates
<1>5. seen' = Tok!Heard(seen, Tok!TransferEvent(t))
  <2>1. Names!TransferEvent(t) = Tok!TransferEvent(t)
    BY DEF Names!TransferEvent, Tok!TransferEvent
  <2> QED
    BY <2>1, NamesShared, ToldOne
<1>6. t.token_id = name /\ t.amount = 1 /\ t.from = from /\ t.to = owner
  OBVIOUS
<1>7. seen' \in Knowledge(Everybody, TokenIds) /\ SaysBalances(seen, seen', b)
  <2> DEFINE h == seen'
  <2>1. t.token_id \in TokenIds /\ t.amount \in Int /\ t.from \in Everybody /\ t.to \in Everybody
    BY <1>2
  <2>2. h = Tok!Heard(seen, Tok!TransferEvent(t))
    BY <1>5
  <2> HIDE DEF t, h
  <2>3. h \in Knowledge(Everybody, TokenIds)
        /\ SaysBalances(seen, h, Tok!Transferred(seen.balances, t.token_id, t.amount, t.from, t.to))
    BY <1>1, <2>1, <2>2, HeardTransfer
  <2> QED
    BY <1>6, <2>3 DEF h
<1>8. Recorded(o, n, b)
  <2>1. Recorded(state.owned_names, state.all_names, seen.balances)
    BY <1>1, NameRecorded
  <2>2. from = state.all_names[name].owner /\ state.all_names[name] # None
    BY <1>2
  <2> HIDE DEF r, from
  <2> QED
    BY <1>3, <2>1, <2>2, NamePassed
<1> HIDE DEF r
<1>9. /\ n \in [TokenIds -> NameRecords \cup {None}] /\ n[name] = r
      /\ \A u \in TokenIds : u # name => n[u] = state.all_names[u]
  BY <1>1, <1>3 DEF NameStates
<1> HIDE DEF n, o, b
<1>10. state' \in NameStates /\ state'.operators = state.operators /\ state'.all_names = n /\ state'.owned_names = o
  <2>1. o \in [Accounts -> SUBSET TokenIds]
    BY <1>8 DEF Recorded
  <2>2. state.self_balance + REGISTRATION_FEE \in Nat
    BY <1>1, NamesAssumption DEF NameStates
  <2> QED
    BY <1>1, <1>4, <1>9, <2>1, <2>2 DEF NameStates
<1>11. \A u \in TokenIds : seen'.metadata[u] = IF n[u] # None THEN u ELSE None
  <2>1. r # None
    BY <1>3, NamesAssumption DEF NameRecords
  <2> QED
    BY <1>1, <1>2, <1>7, <1>9, <2>1 DEF NameAgree, SaysBalances
<1>12. NameInv'
  <2>1. NameCalls'
    BY <1>1 DEF NameCalls, CallsOK
  <2> QED
    BY <1>7, <1>8, <1>10, <1>11, <2>1, NameRecordedKept DEF SaysBalances
<1> QED
  BY <1>9, <1>10, <1>12 DEF r

LEMMA NameRegisterFresh ==
    ASSUME NameInv, NEW name \in TokenIds, NEW owner \in Accounts, NEW expires \in Nat,
           ~ Names!contains_token(name), calls' = calls,
           state' = Names!Paid(Names!register_fresh(name, owner, expires), REGISTRATION_FEE),
           Names!log(<<Names!MintEvent(name, 1, owner), Names!TokenMetadataEvent(name, name)>>)
    PROVE  /\ NameInv'
           /\ \A t \in TokenIds : t # name => state'.all_names[t] = state.all_names[t]
<1>1. /\ state \in NameStates /\ seen \in Knowledge(Everybody, TokenIds) /\ NameAgree(state, seen)
      /\ NameCalls
  BY NameGoodIs DEF NameInv
<1> DEFINE r == [owner |-> owner, name_expires |-> expires, data |-> "empty"]
           n == [state.all_names EXCEPT ![name] = r]
           o == [state.owned_names EXCEPT ![owner] = @ \cup {name}]
           b == [seen.balances EXCEPT ![<<owner, name>>] = Tok!add(@, 1)]
           g == Tok!Heard(seen, Tok!MintEvent(name, 1, owner))
<1>2. state.all_names[name] = None /\ owner \in Everybody
  BY DEF Names!contains_token, Everybody
<1>3. r \in NameRecords /\ r.owner = owner
  BY DEF NameRecords
<1>4. state' = [state EXCEPT !.all_names = n, !.owned_names = o, !.self_balance = @ + REGISTRATION_FEE]
  BY <1>1 DEF Names!register_fresh, Names!Paid, NameStates
<1>5. seen' = Tok!Heard(g, Tok!TokenMetadataEvent(name, name))
  <2>1. seen' = Told(seen, <<Tok!MintEvent(name, 1, owner), Tok!TokenMetadataEvent(name, name)>>)
    BY NamesShared DEF Names!MintEvent, Tok!MintEvent, Names!TokenMetadataEvent, Tok!TokenMetadataEvent
  <2> QED
    BY <2>1, ToldTwo
<1>6. g \in Knowledge(Everybody, TokenIds) /\ SaysBalances(seen, g, b)
  BY <1>1, <1>2, HeardMint
<1>7. seen' \in Knowledge(Everybody, TokenIds) /\ SaysMetadata(g, seen', [g.metadata EXCEPT ![name] = name])
  <2> HIDE DEF g
  <2> QED
    BY <1>5, <1>6, HeardMetadata
<1>8. seen'.operators = seen.operators /\ seen'.balances = b /\ seen'.metadata = [seen.metadata EXCEPT ![name] = name]
  <2> HIDE DEF g, b
  <2> QED
    BY <1>6, <1>7 DEF SaysBalances, SaysMetadata
<1>9. Recorded(o, n, b)
  <2>1. Recorded(state.owned_names, state.all_names, seen.balances)
    BY <1>1, NameRecorded
  <2> HIDE DEF r
  <2> QED
    BY <1>2, <1>3, <2>1, NameMinted
<1> HIDE DEF r
<1>10. /\ n \in [TokenIds -> NameRecords \cup {None}] /\ n[name] = r
       /\ \A u \in TokenIds : u # name => n[u] = state.all_names[u]
  BY <1>1, <1>3 DEF NameStates
<1> HIDE DEF n, o, b
<1>11. state' \in NameStates /\ state'.operators = state.operators /\ state'.all_names = n /\ state'.owned_names = o
  <2>1. o \in [Accounts -> SUBSET TokenIds]
    BY <1>9 DEF Recorded
  <2>2. state.self_balance + REGISTRATION_FEE \in Nat
    BY <1>1, NamesAssumption DEF NameStates
  <2> QED
    BY <1>1, <1>4, <1>10, <2>1, <2>2 DEF NameStates
<1>12. \A u \in TokenIds : seen'.metadata[u] = IF n[u] # None THEN u ELSE None
  <2>1. r # None
    BY <1>3, NamesAssumption DEF NameRecords
  <2>2. seen.metadata \in [TokenIds -> TokenIds \cup Texts \cup {None}]
    BY <1>1 DEF Knowledge
  <2>3. \A u \in TokenIds : seen'.metadata[u] = IF u = name THEN name ELSE seen.metadata[u]
    BY <1>8, <2>2
  <2> QED
    BY <1>1, <1>2, <1>10, <2>1, <2>3 DEF NameAgree
<1>13. NameInv'
  <2>1. NameCalls'
    BY <1>1 DEF NameCalls, CallsOK
  <2> QED
    BY <1>7, <1>8, <1>9, <1>11, <1>12, <2>1, NameRecordedKept
<1> QED
  BY <1>10, <1>11, <1>13

(* A step by which no name changes its owner takes none away. *)
LEMMA NameNotLost ==
    ASSUME \A t \in TokenIds : state.all_names[t] # None => state'.all_names[t].owner = state.all_names[t].owner
    PROVE  Names!LosesRightly
  BY DEF Names!LosesRightly, Names!contains_token

LEMMA NameRegister ==
    ASSUME NameInv, NEW sender, NEW name \in TokenIds, NEW owner \in Accounts,
           Names!contract_register(sender, name, owner)
    PROVE  NameInv' /\ Names!LosesRightly
<1> DEFINE expires == state.now + REGISTRATION_PERIOD_DAYS
<1>1. state.now \in Nat
  BY NameGoodIs DEF NameInv, NameStates
<1>2. expires \in Nat /\ expires > state.now
  BY <1>1, NamesAssumption
<1>3. CASE /\ Names!contains_token(name) /\ state.now > state.all_names[name].name_expires
           /\ state' = Names!Paid(Names!register_expired(name, owner, expires), REGISTRATION_FEE)
           /\ Names!log(<<Names!TransferEvent([token_id |-> name, amount |-> 1,
                                               from |-> state.all_names[name].owner, to |-> owner])>>)
           /\ calls' = calls
  <2> HIDE DEF expires
  <2>1. /\ NameInv' /\ state'.all_names[name].name_expires = expires
        /\ \A t \in TokenIds : t # name => state'.all_names[t] = state.all_names[t]
    BY <1>2, <1>3, NameRegisterExpired
  <2>2. state.all_names[name].name_expires \in Nat
    BY <1>3, RecordIs, NameGoodIs DEF Names!contains_token, NameInv, NameRecords
  <2>3. Names!LosesRightly
    BY <1>1, <1>2, <1>3, <2>1, <2>2 DEF Names!LosesRightly
  <2> QED
    BY <2>1, <2>3
<1>4. CASE /\ ~ Names!contains_token(name)
           /\ state' = Names!Paid(Names!register_fresh(name, owner, expires), REGISTRATION_FEE)
           /\ Names!log(<<Names!MintEvent(name, 1, owner), Names!TokenMetadataEvent(name, name)>>)
           /\ calls' = calls
  <2> HIDE DEF expires
  <2>1. /\ NameInv'
        /\ \A t \in TokenIds : t # name => state'.all_names[t] = state.all_names[t]
    BY <1>2, <1>4, NameRegisterFresh
  <2> QED
    BY <1>4, <2>1, NameNotLost DEF Names!contains_token
<1> QED
  BY <1>3, <1>4 DEF Names!contract_register

(* The next transfer of a batch: a rejection undoes the entrypoint, and who sends *)
(* a name that has not expired may do so. *)
LEMMA NameMoves ==
    ASSUME NameInv,
           Names!NextTransfer(Names!Accepts(Names!Top.sender, Names!Upcoming), Names!Moved(Names!Upcoming),
                              Names!OneEvent(Names!Upcoming))
    PROVE  NameInv' /\ Names!LosesRightly
<1> DEFINE t == Tok!Upcoming
           T == TransfersOf(TokenIds, Everybody)
<1>1. /\ state \in NameStates /\ seen \in Knowledge(Everybody, TokenIds) /\ NameAgree(state, seen)
      /\ CallsOK(Everybody, T, {<<>>}, NameGood)
  BY NameGoodIs DEF NameInv, NameCalls
<1>2. /\ calls # <<>> /\ Tok!Top.hook = None
      /\ \/ Names!Accepts(Tok!Top.sender, t) /\ Moves(Names!Moved(t), Names!OneEvent(t))
         \/ Tok!Rejects
  BY NamesTransfers
<1>3. CASE Tok!Rejects
  <2>1. NameInv'
    BY <1>2, <1>3, CallingOK, NameGoodIs DEF NameInv, NameCalls
  <2>2. Len(calls') = Len(calls) - 1 /\ Len(calls) \in Nat
    <3> HIDE DEF T
    <3>1. Len(calls') = Len(calls) - 1
      BY <1>1, <1>2, <1>3, RejectsOK, NameGoodIs
    <3> QED
      BY <1>1, <3>1, LenProperties DEF CallsOK
  <2>3. Names!Undoes
    BY <1>3, <2>2, NamesShared DEF Names!Undoes, Tok!Rejects
  <2> QED
    BY <2>1, <2>3 DEF Names!LosesRightly
<1>4. CASE Names!Accepts(Tok!Top.sender, t) /\ Moves(Names!Moved(t), Names!OneEvent(t))
  <2>1. t \in T /\ Tok!Top.last = <<>>
    BY <1>1, <1>2, UpcomingOK
  <2>2. t.token_id \in TokenIds /\ t.from \in Accounts /\ t.to \in Accounts
        /\ t.from \in Everybody /\ t.to \in Everybody /\ t.amount \in {0, 1} /\ t.amount \in Int
    BY <1>4, <2>1 DEF TransfersOf, Names!Accepts, Everybody
  <2>3. CallsOK(Everybody, T, {<<>>}, NameGood)'
    BY <1>1, <1>2, <1>4, MovesOK, AddressAssumption
  <2>4. seen' = Tok!Heard(seen, Tok!TransferEvent(t))
    <3>1. Names!OneEvent(t) = <<Tok!TransferEvent(t)>>
      BY DEF Names!OneEvent, Names!TransferEvent, Tok!TransferEvent
    <3>2. seen' = Told(seen, Names!OneEvent(t) \o <<>>)
      BY <1>4, <2>1 DEF Moves
    <3>3. Names!OneEvent(t) \o <<>> = <<Tok!TransferEvent(t)>>
      BY <3>1
    <3> QED
      BY <3>2, <3>3, ToldOne
  <2> DEFINE b == Tok!Transferred(seen.balances, t.token_id, t.amount, t.from, t.to)
  <2>5. seen' \in Knowledge(Everybody, TokenIds) /\ SaysBalances(seen, seen', b)
    BY <1>1, <2>2, <2>4, HeardTransfer
  <2>6. Recorded(state.owned_names, state.all_names, seen.balances)
    BY <1>1, NameRecorded
  <2>7. CASE t.amount = 0
    <3>1. state' = state
      BY <1>4, <2>7 DEF Moves, Names!Moved
    <3>2. b = seen.balances
      <4>1. Balances(seen.balances, Everybody, TokenIds)
        BY <1>1 DEF Knowledge, Balances
      <4>2. b = Tok!Transferred(seen.balances, t.token_id, 0, t.from, t.to)
        BY <2>7
      <4> QED
        BY <2>2, <4>1, <4>2, NothingTransferred
    <3> HIDE DEF b
    <3>3. NameInv'
      BY <1>1, <2>3, <2>5, <2>6, <3>1, <3>2, NameRecordedKept DEF SaysBalances, NameAgree, NameCalls
    <3> QED
      BY <3>1, <3>3, NameNotLost
  <2>8. CASE t.amount = 1
    <3> DEFINE id == t.token_id
               old == state.all_names[id]
               r == [old EXCEPT !.owner = t.to]
               n == [state.all_names EXCEPT ![id] = r]
               o == Tok!HandedOver(state.owned_names, id, t.from, t.to)
    <3>1. old # None /\ old \in NameRecords /\ id \in state.owned_names[t.from]
      BY <1>1, <1>4, <2>2, <2>8, RecordIs DEF Names!Accepts, Names!contains_token
    <3>2. t.from = old.owner
      <4>1. state.owned_names[t.from] = OwnersOf(state.all_names)[t.from]
        BY <2>2, <2>6 DEF Recorded
      <4>2. t.token_id \in OwnersOf(state.all_names)[t.from]
        BY <3>1, <4>1
      <4> HIDE DEF t
      <4> QED
        BY <2>2, <4>2 DEF OwnersOf
    <3>3. r \in NameRecords /\ r.owner = t.to /\ r # None
      BY <2>2, <3>1, NamesAssumption DEF NameRecords
    <3>4. Names!Handed(state, id, t.from, t.to) = [state EXCEPT !.owned_names = o, !.all_names = n]
      BY DEF Names!Handed, Names!HandedOver, Tok!HandedOver
    <3>5. state' = [state EXCEPT !.owned_names = o, !.all_names = n]
      BY <1>4, <2>8, <3>4 DEF Moves, Names!Moved
    <3> HIDE DEF r
    <3>6. Recorded(o, n, b)
      <4>1. b = Tok!Transferred(seen.balances, id, 1, t.from, t.to)
        BY <2>8
      <4>2. old = state.all_names[id]
        OBVIOUS
      <4> HIDE DEF t, old, id, b
      <4> QED
        BY <2>2, <2>6, <3>1, <3>2, <3>3, <4>1, <4>2, NamePassed DEF id
    <3>7. /\ n \in [TokenIds -> NameRecords \cup {None}] /\ n[id] = r
          /\ \A u \in TokenIds : u # id => n[u] = state.all_names[u]
      BY <1>1, <2>2, <3>3 DEF NameStates
    <3> HIDE DEF n, o, b
    <3>8. state' \in NameStates /\ state'.operators = state.operators /\ state'.all_names = n /\ state'.owned_names = o
      <4>1. o \in [Accounts -> SUBSET TokenIds]
        BY <3>6 DEF Recorded
      <4> QED
        BY <1>1, <3>5, <3>7, <4>1 DEF NameStates
    <3>9. \A u \in TokenIds : seen'.metadata[u] = IF n[u] # None THEN u ELSE None
      BY <1>1, <2>2, <2>5, <3>1, <3>3, <3>7 DEF NameAgree, SaysBalances
    <3>10. NameInv'
      BY <2>3, <2>5, <3>6, <3>8, <3>9, NameRecordedKept DEF SaysBalances, NameCalls
    <3>11. Names!LosesRightly
      <4> SUFFICES ASSUME NEW u \in TokenIds, state'.all_names[u].owner # state.all_names[u].owner
                   PROVE  /\ state.now <= state.all_names[u].name_expires
                          /\ calls # <<>>
                          /\ \/ Names!Top.sender = state.all_names[u].owner
                             \/ Names!is_operator(Names!Top.sender, state.all_names[u].owner)
        BY DEF Names!LosesRightly
      <4>1. u = id
        BY <3>7, <3>8
      <4> QED
        BY <1>2, <1>4, <3>2, <4>1, NamesShared DEF Names!Accepts
    <3> QED
      BY <3>10, <3>11
  <2> QED
    BY <2>2, <2>7, <2>8
<1> QED
  BY <1>2, <1>3, <1>4

LEMMA NameNext == ASSUME NameInv, Names!Next PROVE NameInv' /\ Names!LosesRightly
<1>1. ASSUME NEW sender \in Names!Addresses, NEW batch \in NameBatches, Names!contract_transfer(sender, batch)
      PROVE  NameInv' /\ Names!LosesRightly
  BY <1>1, NameTransfer, NameNotLost DEF Names!Addresses, Everybody
<1>2. ASSUME NEW sender, NEW name \in TokenIds,
             Names!contract_renew(sender, name) \/ Names!contract_update_data(sender, name, "data")
      PROVE  NameInv' /\ Names!LosesRightly
  BY <1>2, NameRenew, NameUpdateData, NameNotLost
<1>3. ASSUME NEW sender, NEW operator \in Operators, NEW update,
             Names!contract_update_operator(sender, operator, update)
      PROVE  NameInv' /\ Names!LosesRightly
  BY <1>3, NameUpdateOperator, NameNotLost
<1>4. ASSUME NEW sender,
             \/ Names!contract_withdraw(sender, UPDATE_FEE)
             \/ \E new_admin \in Accounts : Names!contract_update_admin(sender, new_admin)
             \/ \E imp \in Implementors : Names!contract_set_implementor(sender, imp[1], imp[2])
             \/ Names!Tick
      PROVE  NameInv' /\ Names!LosesRightly
  BY <1>4, NameOthers, NameNotLost
<1> QED
  BY <1>1, <1>2, <1>3, <1>4, NameRegister, NameMoves DEF Names!Next

LEMMA NameRecordsAgree == NameInv => Names!RecordsAgree
<1> SUFFICES ASSUME NameInv, NEW t \in TokenIds
             PROVE  {a \in Accounts : t \in state.owned_names[a]}
                      = IF Names!contains_token(t) THEN {state.all_names[t].owner} ELSE {}
  BY DEF Names!RecordsAgree
<1>1. state \in NameStates /\ NameAgree(state, seen)
  BY NameGoodIs DEF NameInv
<1>2. \A a \in Accounts : t \in state.owned_names[a] <=> state.all_names[t] # None /\ state.all_names[t].owner = a
  BY <1>1 DEF NameAgree, OwnersOf, Everybody
<1>3. state.all_names[t] # None => state.all_names[t].owner \in Accounts
  BY <1>1, RecordIs DEF NameRecords
<1> QED
  BY <1>2, <1>3 DEF Names!contains_token

LEMMA NameLogTells == NameInv => Names!LogTellsState
<1> SUFFICES ASSUME NameInv PROVE Names!LogTellsState
  OBVIOUS
<1>1. state \in NameStates /\ NameAgree(state, seen) /\ Accounts \subseteq Everybody
  BY NameGoodIs DEF NameInv, Everybody
<1>2. Names!TellsBalances({t \in TokenIds : Names!contains_token(t) /\ state.now <= state.all_names[t].name_expires},
                          Names!contract_balance_of)
  <2> SUFFICES ASSUME NEW t \in TokenIds, state.now <= state.all_names[t].name_expires, NEW a \in Everybody
               PROVE  (IF a \in Accounts /\ t \in state.owned_names[a] THEN 1 ELSE 0) = seen.balances[<<a, t>>]
    BY DEF Names!TellsBalances, Names!contract_balance_of, Names!balance, Names!Addresses, Everybody
  <2>1. seen.balances[<<a, t>>] = IF t \in OwnersOf(state.all_names)[a] THEN 1 ELSE 0
    BY <1>1 DEF NameAgree, KnownOwners
  <2>2. a \in Accounts => state.owned_names[a] = OwnersOf(state.all_names)[a]
    BY <1>1 DEF NameAgree
  <2>3. t \in OwnersOf(state.all_names)[a] => a \in Accounts
    BY <1>1, RecordIs DEF OwnersOf, NameRecords
  <2> QED
    BY <2>1, <2>2, <2>3
<1>3. \A a \in Names!Addresses, o \in Accounts :
        Names!contract_operator_of(a, o) <=> <<o, a>> \in seen.operators
  BY <1>1 DEF NameAgree, KnownOperators, Extended, Names!contract_operator_of, Names!is_operator, Names!Addresses, Everybody
<1>4. \A t \in TokenIds : Names!contract_token_metadata(t) = seen.metadata[t]
  BY <1>1 DEF NameAgree, Names!contract_token_metadata, Names!contains_token
<1> QED
  BY <1>2, <1>3, <1>4 DEF Names!LogTellsState

-----------------------------------------------------------------------------
(* cis2-multi: what those who follow the events know are parts of the state. *)

Anybody == AliasedAccounts \cup Contracts

MultiStates ==
    [balances        : [Anybody \X FungibleIds -> Sayable],
     operators       : [Anybody -> SUBSET Anybody],
     tokens          : [FungibleIds -> Texts \cup {None}],
     nonces_registry : [AliasedAccounts -> Nat],
     blacklist       : SUBSET Anybody,
     paused          : BOOLEAN,
     roles           : SUBSET (Anybody \X Texts),
     implementors    : Implementations,
     mints           : Nat]

MultiAgree(s, k) ==
    /\ k.balances = s.balances /\ k.metadata = s.tokens
    /\ k.roles = s.roles /\ k.blacklist = s.blacklist
    /\ KnownOperators(s.operators, k.operators, Anybody)
    /\ k.nonces \in SUBSET (AliasedAccounts \X Nat)

MultiGood ==
    {w \in [state : MultiStates, seen : Knowledge(Anybody, FungibleIds)] : MultiAgree(w.state, w.seen)}

MultiCalls ==
    CallsOK(Anybody, TransfersOf(FungibleIds, Anybody), FinalEvents(AliasedAccounts), MultiGood)

MultiInv ==
    /\ Tok!Saved \in MultiGood
    /\ MultiCalls
    /\ NonceInv(state.nonces_registry, seen, calls)

LEMMA MultiGoodIs ==
    /\ Tok!Saved \in MultiGood
         <=> state \in MultiStates /\ seen \in Knowledge(Anybody, FungibleIds) /\ MultiAgree(state, seen)
    /\ \A w \in MultiGood : w = [state |-> w.state, seen |-> w.seen]
  BY DEF MultiGood, Tok!Saved

LEMMA MultiIs ==
    ASSUME MultiInv
    PROVE  /\ state \in MultiStates /\ seen \in Knowledge(Anybody, FungibleIds) /\ MultiAgree(state, seen)
           /\ MultiCalls /\ NonceInv(state.nonces_registry, seen, calls)
           /\ NonceTypes(AliasedAccounts, state.nonces_registry, seen, calls)
<1>1. /\ state \in MultiStates /\ seen \in Knowledge(Anybody, FungibleIds) /\ MultiAgree(state, seen)
      /\ MultiCalls /\ NonceInv(state.nonces_registry, seen, calls)
  BY MultiGoodIs DEF MultiInv
<1>2. \A i \in 1 .. Len(calls) : calls[i].last \in FinalEvents(AliasedAccounts)
  BY <1>1, FramesFinal DEF MultiCalls
<1> QED
  BY <1>1, <1>2 DEF NonceTypes, MultiStates, MultiAgree

LEMMA MultiKept ==
    ASSUME state' \in MultiStates, seen' \in Knowledge(Anybody, FungibleIds), MultiAgree(state', seen'),
           MultiCalls', NonceInv(state.nonces_registry, seen, calls)'
    PROVE  MultiInv'
  BY DEF MultiInv, MultiGood, Tok!Saved

(* A step without signed messages and calls *)
LEMMA MultiSigned ==
    ASSUME MultiInv, state' \in MultiStates, seen' \in Knowledge(Anybody, FungibleIds),
           MultiAgree(state', seen'), calls' = calls, state'.nonces_registry = state.nonces_registry,
           seen'.nonces = seen.nonces, seen'.replayed = seen.replayed
    PROVE  MultiInv'
<1>1. MultiCalls /\ NonceInv(state.nonces_registry, seen, calls)
  BY MultiIs
<1>2. NonceInv(state.nonces_registry, seen, calls)'
  BY <1>1 DEF NonceInv, NoncesOK
<1> QED
  BY <1>1, <1>2, MultiKept DEF CallsOK, MultiCalls

(* What leaves the tokens and the operators, and what is neither paused nor about *)
(* somebody on the blacklist, is no reason for complaint. *)
LEMMA FrozenSame ==
    ASSUME state'.balances = state.balances, state'.operators = state.operators
    PROVE  Multi!FrozenStep
  BY DEF Multi!FrozenStep

LEMMA FrozenRest ==
    ASSUME ~ state.paused, NEW P, \A a \in P : ~ Multi!Blacklisted(a),
           \A a \in Anybody, t \in FungibleIds :
              a \notin P => state'.balances[<<a, t>>] = state.balances[<<a, t>>]
    PROVE  Multi!FrozenStep
  BY DEF Multi!FrozenStep, Multi!Addresses, Anybody

(* Roles and the blacklist are told as well. *)
SaysRoles(s, h, r) ==
    /\ h.roles = r /\ h.balances = s.balances /\ h.operators = s.operators /\ h.metadata = s.metadata
    /\ h.admin = s.admin /\ h.blacklist = s.blacklist /\ h.nonces = s.nonces /\ h.replayed = s.replayed

LEMMA HeardRole ==
    ASSUME NEW A, NEW I, NEW s \in Knowledge(A, I), NEW a \in A, NEW role \in Texts, NEW update,
           NEW h, h = Tok!Heard(s, Multi!RoleEvent(a, role, update))
    PROVE  /\ h \in Knowledge(A, I)
           /\ SaysRoles(s, h, Tok!Updated(s.roles, <<a, role>>, update))
<1> DEFINE e == Multi!RoleEvent(a, role, update)
           o == Tok!Updated(s.roles, <<a, role>>, update)
<1>1. h = [s EXCEPT !.roles = Tok!Updated(@, <<e.address, e.role>>, e.update)]
  BY DEF Tok!Heard, Multi!RoleEvent
<1>2. e.address = a /\ e.role = role /\ e.update = update
  BY DEF Multi!RoleEvent
<1> HIDE DEF e
<1>3. h = [s EXCEPT !.roles = o]
  BY <1>1, <1>2
<1>4. o \in SUBSET (A \X Texts)
  BY DEF Knowledge, Tok!Updated
<1> HIDE DEF o
<1>5. h \in Knowledge(A, I) /\ SaysRoles(s, h, o)
  BY <1>3, <1>4 DEF Knowledge, SaysRoles
<1> QED
  BY <1>5 DEF o

SaysBlacklist(s, h, l) ==
    /\ h.blacklist = l /\ h.balances = s.balances /\ h.operators = s.operators /\ h.metadata = s.metadata
    /\ h.admin = s.admin /\ h.roles = s.roles /\ h.nonces = s.nonces /\ h.replayed = s.replayed

LEMMA HeardBlacklist ==
    ASSUME NEW A, NEW I, NEW s \in Knowledge(A, I), NEW a \in A, NEW update,
           NEW h, h = Tok!Heard(s, Multi!UpdateBlacklistEvent(a, update))
    PROVE  /\ h \in Knowledge(A, I)
           /\ SaysBlacklist(s, h, Tok!Updated(s.blacklist, a, update))
<1> DEFINE e == Multi!UpdateBlacklistEvent(a, update)
           o == Tok!Updated(s.blacklist, a, update)
<1>1. h = [s EXCEPT !.blacklist = Tok!Updated(@, e.address, e.update)]
  BY DEF Tok!Heard, Multi!UpdateBlacklistEvent
<1>2. e.address = a /\ e.update = update
  BY DEF Multi!UpdateBlacklistEvent
<1> HIDE DEF e
<1>3. h = [s EXCEPT !.blacklist = o]
  BY <1>1, <1>2
<1>4. o \in SUBSET A
  BY DEF Knowledge, Tok!Updated
<1> HIDE DEF o
<1>5. h \in Knowledge(A, I) /\ SaysBlacklist(s, h, o)
  BY <1>3, <1>4 DEF Knowledge, SaysBlacklist
<1> QED
  BY <1>5 DEF o

LEMMA MultiInit == Multi!Init => MultiInv
<1> SUFFICES ASSUME Multi!Init PROVE MultiInv
  OBVIOUS
<1> DEFINE k == Multi!NothingSeen
           admin == "ADMIN"
<1>1. k \in Knowledge(Anybody, FungibleIds)
  BY NothingKnown DEF Multi!NothingSeen, Multi!Addresses, Anybody
<1>2. seen = Tok!Heard(k, Multi!RoleEvent(Owner, admin, "add"))
  BY DEF Multi!Init, Multi!Heard, Tok!Heard, Multi!RoleEvent, Multi!Updated, Tok!Updated
<1>3. admin \in Texts /\ Owner \in Anybody
  BY AddressAssumption DEF Texts, Anybody
<1>4. k.balances = [q \in Anybody \X FungibleIds |-> 0] /\ k.operators = {} /\ k.roles = {} /\ k.blacklist = {}
      /\ k.nonces = {} /\ k.replayed = FALSE /\ k.metadata = [t \in FungibleIds |-> None]
  BY DEF Multi!NothingSeen, Multi!Addresses, Anybody
<1>5. /\ state.balances = [q \in Anybody \X FungibleIds |-> 0]
      /\ state.operators = [a \in Anybody |-> {}] /\ state.tokens = [t \in FungibleIds |-> None]
      /\ state.nonces_registry = [a \in AliasedAccounts |-> 0] /\ state.blacklist = {} /\ state.paused = FALSE
      /\ state.roles = {<<Owner, admin>>} /\ state.mints = 0 /\ calls = <<>>
      /\ state.implementors = [i \in {imp[1] : imp \in Implementors} |-> {}]
  BY DEF Multi!Init, Multi!Addresses, Anybody, Multi!NoImplementors
<1>6. state \in MultiStates
  <2>1. state \in [balances        : {state.balances},
                   operators       : {state.operators},
                   tokens          : {state.tokens},
                   nonces_registry : {state.nonces_registry},
                   blacklist       : {state.blacklist},
                   paused          : {state.paused},
                   roles           : {state.roles},
                   implementors    : {state.implementors},
                   mints           : {state.mints}]
    BY DEF Multi!Init
  <2>2. 0 \in Sayable
    BY AmountAssumption DEF Sayable
  <2>3. state.roles \in SUBSET (Anybody \X Texts)
    <3> HIDE DEF admin
    <3> QED
      BY <1>3, <1>5
  <2> HIDE DEF admin
  <2>4. state.balances \in [Anybody \X FungibleIds -> Sayable]
    BY <1>5, <2>2
  <2>5. state.operators \in [Anybody -> SUBSET Anybody] /\ state.tokens \in [FungibleIds -> Texts \cup {None}]
        /\ state.nonces_registry \in [AliasedAccounts -> Nat] /\ state.blacklist \in SUBSET Anybody
    BY <1>5
  <2>6. state.mints \in Nat /\ state.implementors \in Implementations
    BY <1>5, ImplementationsAre
  <2>7. state.paused \in BOOLEAN
    BY <1>5
  <2> QED
    BY <2>1, <2>3, <2>4, <2>5, <2>6, <2>7 DEF MultiStates
<1> HIDE DEF k, admin
<1>7. seen \in Knowledge(Anybody, FungibleIds) /\ SaysRoles(k, seen, Tok!Updated(k.roles, <<Owner, admin>>, "add"))
  BY <1>1, <1>2, <1>3, HeardRole
<1>8. seen.roles = {<<Owner, admin>>}
  BY <1>4, <1>7 DEF SaysRoles, Tok!Updated
<1>9. MultiAgree(state, seen)
  BY <1>4, <1>5, <1>7, <1>8 DEF MultiAgree, SaysRoles, KnownOperators
<1>10. MultiCalls
  BY <1>5, EmptySeq DEF CallsOK, MultiCalls
<1>11. NonceInv(state.nonces_registry, seen, calls)
  BY <1>4, <1>5, <1>7, NoNonces DEF SaysRoles
<1> QED
  BY <1>6, <1>7, <1>9, <1>10, <1>11, MultiGoodIs DEF MultiInv

(* The state after each operation, and what is known once its events are heard: *)
(* they are also what a signed message does, with the nonce that was counted.  *)
MultiStep(s, k, m, h) ==
    /\ m \in MultiStates /\ h \in Knowledge(Anybody, FungibleIds) /\ MultiAgree(m, h)
    /\ m.nonces_registry = s.nonces_registry /\ h.nonces = k.nonces /\ h.replayed = k.replayed

LEMMA MultiMinted ==
    ASSUME NEW s \in MultiStates, NEW k \in Knowledge(Anybody, FungibleIds), MultiAgree(s, k),
           state \in MultiStates, NEW t \in FungibleIds, NEW url \in Texts, NEW to \in Anybody,
           NEW h, h = Told(k, Multi!MintEvents(t, url, to))
    PROVE  MultiStep(s, k, Multi!Minted(s, t, url, to), h)
<1> DEFINE u == Multi!UrlAfter(t, url)
           b == [s.balances EXCEPT ![<<to, t>>] = Tok!add(@, mint_airdrop)]
           m == [s.tokens EXCEPT ![t] = u]
           g == Tok!Heard(k, Tok!MintEvent(t, mint_airdrop, to))
<1>1. u \in Texts
  BY DEF Multi!UrlAfter, Multi!contains_token, MultiStates
<1>2. mint_airdrop \in Nat
  BY AmountAssumption
<1>3. h = Tok!Heard(g, Tok!TokenMetadataEvent(t, u))
  <2>1. Multi!MintEvents(t, url, to) = <<Tok!MintEvent(t, mint_airdrop, to), Tok!TokenMetadataEvent(t, u)>>
    BY DEF Multi!MintEvents, Multi!MintEvent, Tok!MintEvent, Multi!TokenMetadataEvent, Tok!TokenMetadataEvent
  <2> HIDE DEF u
  <2> QED
    BY <2>1, ToldTwo
<1> HIDE DEF u
<1>4. g \in Knowledge(Anybody, FungibleIds)
      /\ SaysBalances(k, g, [k.balances EXCEPT ![<<to, t>>] = Tok!add(@, mint_airdrop)])
  BY <1>2, HeardMint
<1>5. h \in Knowledge(Anybody, FungibleIds) /\ SaysMetadata(g, h, [g.metadata EXCEPT ![t] = u])
  <2> HIDE DEF g
  <2> QED
    BY <1>1, <1>3, <1>4, HeardMetadata
<1>6. /\ h.balances = b /\ h.metadata = m /\ h.operators = k.operators /\ h.roles = k.roles
      /\ h.blacklist = k.blacklist /\ h.nonces = k.nonces /\ h.replayed = k.replayed
  <2> HIDE DEF g
  <2> QED
    BY <1>4, <1>5 DEF SaysBalances, SaysMetadata, MultiAgree
<1>7. b \in [Anybody \X FungibleIds -> Sayable] /\ m \in [FungibleIds -> Texts \cup {None}]
  <2>1. b \in [Anybody \X FungibleIds -> Sayable]
    BY <1>5, <1>6 DEF Knowledge
  <2> QED
    BY <1>1, <2>1 DEF MultiStates
<1>8. Multi!Minted(s, t, url, to) = [s EXCEPT !.tokens = m, !.balances = b, !.mints = @ + 1]
  BY DEF Multi!Minted, Multi!add, Tok!add, u
<1> HIDE DEF b, m
<1>9. s.mints + 1 \in Nat
  BY DEF MultiStates
<1> QED
  BY <1>5, <1>6, <1>7, <1>8, <1>9 DEF MultiStates, MultiStep, MultiAgree

LEMMA MultiBurnt ==
    ASSUME NEW s \in MultiStates, NEW k \in Knowledge(Anybody, FungibleIds), MultiAgree(s, k),
           NEW t \in FungibleIds, NEW amount \in Nat, NEW owner \in Anybody,
           NEW h, h = Tok!Heard(k, Tok!BurnEvent(t, amount, owner))
    PROVE  MultiStep(s, k, Multi!Burnt(s, t, amount, owner), h)
<1> DEFINE b == [s.balances EXCEPT ![<<owner, t>>] = Tok!sub(@, amount)]
<1>1. h \in Knowledge(Anybody, FungibleIds) /\ SaysBalances(k, h, b)
  <2>1. k.balances = s.balances
    BY DEF MultiAgree
  <2> QED
    BY <2>1, HeardBurn
<1>2. b \in [Anybody \X FungibleIds -> Sayable]
  <2> HIDE DEF b
  <2> QED
    BY <1>1 DEF Knowledge, SaysBalances
<1>3. Multi!Burnt(s, t, amount, owner) = [s EXCEPT !.balances = b]
  BY DEF Multi!Burnt, Multi!sub, Tok!sub
<1> HIDE DEF b
<1> QED
  BY <1>1, <1>2, <1>3 DEF MultiStates, MultiStep, MultiAgree, SaysBalances

LEMMA MultiOperated ==
    ASSUME NEW s \in MultiStates, NEW k \in Knowledge(Anybody, FungibleIds), MultiAgree(s, k),
           NEW owner \in Anybody, NEW operator \in Anybody, NEW update,
           NEW h, h = Tok!Heard(k, Tok!UpdateOperatorEvent(owner, operator, update))
    PROVE  MultiStep(s, k, Multi!OperatorUpdated(s, owner, operator, update), h)
<1> DEFINE o == [s.operators EXCEPT ![owner] = Tok!Updated(@, operator, update)]
<1>1. h \in Knowledge(Anybody, FungibleIds)
      /\ SaysOperators(k, h, Tok!Updated(k.operators, <<owner, operator>>, update))
  BY HeardOperator
<1>2. o \in [Anybody -> SUBSET Anybody] /\ KnownOperators(o, h.operators, Anybody)
  <2>1. s.operators \in [Anybody -> SUBSET Anybody] /\ KnownOperators(s.operators, k.operators, Anybody)
    BY DEF MultiStates, MultiAgree
  <2> QED
    BY <1>1, <2>1, OperatorsKnown DEF SaysOperators
<1>3. Multi!OperatorUpdated(s, owner, operator, update) = [s EXCEPT !.operators = o]
  BY DEF Multi!OperatorUpdated, Multi!Updated, Tok!Updated
<1> HIDE DEF o
<1> QED
  BY <1>1, <1>2, <1>3 DEF MultiStates, MultiStep, MultiAgree, SaysOperators

(* A step that is one of them *)
LEMMA MultiDone ==
    ASSUME MultiInv, calls' = calls, MultiStep(state, seen, state', seen')
    PROVE  MultiInv'
  BY MultiSigned DEF MultiStep

(* What a rejection or a mint leaves alone *)
LEMMA MintFrozen ==
    ASSUME MultiInv, NEW s, s.balances = state.balances, NEW t \in FungibleIds, NEW url, NEW to \in Anybody,
           Multi!CanMint(to), state' = Multi!Minted(s, t, url, to), s \in MultiStates
    PROVE  Multi!FrozenStep
<1>1. state.balances \in [Anybody \X FungibleIds -> Sayable]
  BY MultiIs DEF MultiStates
<1>2. state'.balances = [state.balances EXCEPT ![<<to, t>>] = Multi!add(@, mint_airdrop)]
  BY DEF Multi!Minted, MultiStates
<1>3. \A a \in Anybody, u \in FungibleIds : a \notin {to} => state'.balances[<<a, u>>] = state.balances[<<a, u>>]
  BY <1>1, <1>2
<1>4. ~ state.paused /\ \A a \in {to} : ~ Multi!Blacklisted(a)
  BY DEF Multi!CanMint
<1> QED
  BY <1>3, <1>4, FrozenRest

LEMMA BurnFrozen ==
    ASSUME MultiInv, NEW s, s.balances = state.balances, NEW t \in FungibleIds, NEW amount, NEW owner \in Anybody,
           NEW by, Multi!CanBurn(by, t, amount, owner), state' = Multi!Burnt(s, t, amount, owner),
           s \in MultiStates
    PROVE  Multi!FrozenStep
<1>1. state.balances \in [Anybody \X FungibleIds -> Sayable]
  BY MultiIs DEF MultiStates
<1>2. state'.balances = [state.balances EXCEPT ![<<owner, t>>] = Multi!sub(@, amount)]
  BY DEF Multi!Burnt, MultiStates
<1>3. \A a \in Anybody, u \in FungibleIds : a \notin {owner} => state'.balances[<<a, u>>] = state.balances[<<a, u>>]
  BY <1>1, <1>2
<1>4. ~ state.paused /\ \A a \in {owner} : ~ Multi!Blacklisted(a)
  BY DEF Multi!CanBurn
<1> QED
  BY <1>3, <1>4, FrozenRest

LEMMA OperatorFrozen ==
    ASSUME ~ state.paused, NEW s \in MultiStates, s.balances = state.balances, NEW owner, NEW operator, NEW update,
           state' = Multi!OperatorUpdated(s, owner, operator, update)
    PROVE  Multi!FrozenStep
<1>1. state'.balances = state.balances
  BY DEF Multi!OperatorUpdated, MultiStates
<1> QED
  BY <1>1 DEF Multi!FrozenStep

LEMMA MultiMint ==
    ASSUME MultiInv, NEW sender \in Anybody, NEW t \in FungibleIds, NEW url \in {"url1", "url2"},
           NEW to \in Anybody, Multi!contract_mint(sender, t, url, to)
    PROVE  MultiInv' /\ Multi!FrozenStep
<1>1. /\ state \in MultiStates /\ seen \in Knowledge(Anybody, FungibleIds) /\ MultiAgree(state, seen)
      /\ MultiCalls /\ NonceInv(state.nonces_registry, seen, calls)
      /\ NonceTypes(AliasedAccounts, state.nonces_registry, seen, calls)
  BY MultiIs
<1>2. /\ Multi!CanMint(to) /\ state' = Multi!Minted(state, t, url, to)
      /\ seen' = Told(seen, Multi!MintEvents(t, url, to)) /\ Tok!EndsCalling(sender, to)
  BY MultiShared DEF Multi!contract_mint
<1>3. url \in Texts
  BY DEF Texts
<1>4. MultiStep(state, seen, state', seen')
  <2> DEFINE h == seen'
  <2>1. h = Told(seen, Multi!MintEvents(t, url, to))
    BY <1>2
  <2> HIDE DEF h
  <2>2. MultiStep(state, seen, Multi!Minted(state, t, url, to), h)
    BY <1>1, <1>3, <2>1, MultiMinted
  <2> QED
    BY <1>2, <2>2 DEF h
<1>5. MultiCalls'
  <2>1. <<>> \in FinalEvents(AliasedAccounts)
    BY DEF FinalEvents
  <2> QED
    BY <1>1, <1>2, <2>1, EndsCallingOK, AddressAssumption DEF MultiCalls, MultiInv
<1>6. NonceInv(state.nonces_registry, seen, calls)'
  BY <1>1, <1>2, <1>4, EndsCallingNonces DEF MultiCalls, MultiStep
<1>7. MultiInv'
  BY <1>4, <1>5, <1>6, MultiKept DEF MultiStep
<1>8. Multi!FrozenStep
  BY <1>1, <1>2, MintFrozen
<1> QED
  BY <1>7, <1>8

LEMMA MultiBurn ==
    ASSUME MultiInv, NEW sender, NEW t \in FungibleIds, NEW amount \in BurnAmounts, NEW owner \in Anybody,
           Multi!contract_burn(sender, t, amount, owner)
    PROVE  MultiInv' /\ Multi!FrozenStep
<1>1. state \in MultiStates /\ seen \in Knowledge(Anybody, FungibleIds) /\ MultiAgree(state, seen)
  BY MultiIs
<1>2. /\ Multi!CanBurn(sender, t, amount, owner) /\ state' = Multi!Burnt(state, t, amount, owner)
      /\ seen' = Tok!Heard(seen, Tok!BurnEvent(t, amount, owner)) /\ calls' = calls
  <2>1. seen' = Told(seen, <<Tok!BurnEvent(t, amount, owner)>>)
    BY MultiShared DEF Multi!contract_burn, Multi!BurnEvent, Tok!BurnEvent
  <2> QED
    BY <2>1, ToldOne DEF Multi!contract_burn
<1>3. MultiStep(state, seen, state', seen')
  <2> DEFINE h == seen'
  <2>1. h = Tok!Heard(seen, Tok!BurnEvent(t, amount, owner)) /\ amount \in Nat
    BY <1>2, AmountAssumption
  <2> HIDE DEF h
  <2>2. MultiStep(state, seen, Multi!Burnt(state, t, amount, owner), h)
    BY <1>1, <2>1, MultiBurnt
  <2> QED
    BY <1>2, <2>2 DEF h
<1> QED
  BY <1>1, <1>2, <1>3, MultiDone, BurnFrozen

LEMMA MultiUpdateOperator ==
    ASSUME MultiInv, NEW sender \in Anybody, NEW operator \in Operators, NEW update,
           Multi!contract_update_operator(sender, operator, update)
    PROVE  MultiInv' /\ Multi!FrozenStep
<1>1. state \in MultiStates /\ seen \in Knowledge(Anybody, FungibleIds) /\ MultiAgree(state, seen)
  BY MultiIs
<1>2. /\ ~ state.paused /\ state' = Multi!OperatorUpdated(state, sender, operator, update)
      /\ seen' = Tok!Heard(seen, Tok!UpdateOperatorEvent(sender, operator, update)) /\ calls' = calls
  <2>1. seen' = Told(seen, <<Tok!UpdateOperatorEvent(sender, operator, update)>>)
    BY MultiShared DEF Multi!contract_update_operator, Multi!UpdateOperatorEvent, Tok!UpdateOperatorEvent
  <2> QED
    BY <2>1, ToldOne DEF Multi!contract_update_operator
<1>3. MultiStep(state, seen, state', seen')
  <2> DEFINE h == seen'
  <2>1. h = Tok!Heard(seen, Tok!UpdateOperatorEvent(sender, operator, update)) /\ operator \in Anybody
    BY <1>2, AddressAssumption DEF Anybody
  <2> HIDE DEF h
  <2>2. MultiStep(state, seen, Multi!OperatorUpdated(state, sender, operator, update), h)
    BY <1>1, <2>1, MultiOperated
  <2> QED
    BY <1>2, <2>2 DEF h
<1> QED
  BY <1>1, <1>2, <1>3, MultiDone, OperatorFrozen

LEMMA MultiTransfer ==
    ASSUME MultiInv, NEW sender \in Anybody, NEW batch \in MultiBatches,
           Multi!contract_transfer(sender, batch)
    PROVE  MultiInv' /\ Multi!FrozenStep
<1>0. /\ MultiCalls /\ NonceInv(state.nonces_registry, seen, calls)
      /\ NonceTypes(AliasedAccounts, state.nonces_registry, seen, calls)
  BY MultiIs
<1>1. batch \in Seq(TransfersOf(FungibleIds, Anybody)) /\ batch # <<>>
  BY BatchAssumption DEF BatchesOf, TransfersOf, Anybody
<1>2. Tok!StartsBatch(sender, batch, <<>>) /\ UNCHANGED <<state, seen>>
  BY MultiShared DEF Multi!contract_transfer
<1>3. /\ <<>> \in FinalEvents(AliasedAccounts)
      /\ Counts(AliasedAccounts, state.nonces_registry, state.nonces_registry, <<>>)
  BY DEF FinalEvents, Counts
<1>4. MultiCalls'
  BY <1>0, <1>1, <1>2, <1>3, StartsOK DEF MultiInv, MultiCalls
<1>5. NonceInv(state.nonces_registry, seen, calls)'
  BY <1>0, <1>2, <1>3, StartsNonces DEF MultiCalls
<1> QED
  BY <1>2, <1>4, <1>5, FrozenSame DEF MultiInv, Tok!Saved

LEMMA MultiOthers ==
    ASSUME MultiInv, NEW sender,
           \/ \E imp \in Implementors : Multi!contract_set_implementor(sender, imp[1], imp[2])
           \/ \E paused \in BOOLEAN : Multi!contract_set_paused(sender, paused)
    PROVE  MultiInv' /\ Multi!FrozenStep
<1>1. state \in MultiStates /\ seen \in Knowledge(Anybody, FungibleIds) /\ MultiAgree(state, seen)
  BY MultiIs
<1>2. ASSUME NEW imp \in Implementors, Multi!contract_set_implementor(sender, imp[1], imp[2])
      PROVE  MultiInv' /\ Multi!FrozenStep
  <2> DEFINE m == [state.implementors EXCEPT ![imp[1]] = imp[2]]
  <2>1. m \in Implementations
    BY <1>1, ImplementationsAre DEF MultiStates
  <2>2. state' = [state EXCEPT !.implementors = m] /\ seen' = seen /\ calls' = calls
    BY <1>2 DEF Multi!contract_set_implementor
  <2> HIDE DEF m
  <2>3. MultiStep(state, seen, state', seen')
    BY <1>1, <2>1, <2>2 DEF MultiStep, MultiStates, MultiAgree
  <2> QED
    BY <1>1, <2>2, <2>3, MultiDone, FrozenSame DEF MultiStates
<1>3. ASSUME NEW paused \in BOOLEAN, Multi!contract_set_paused(sender, paused)
      PROVE  MultiInv' /\ Multi!FrozenStep
  <2>1. state' = [state EXCEPT !.paused = paused] /\ seen' = seen /\ calls' = calls
    BY <1>3 DEF Multi!contract_set_paused
  <2>2. MultiStep(state, seen, state', seen')
    BY <1>1, <2>1 DEF MultiStep, MultiStates, MultiAgree
  <2> QED
    BY <1>1, <2>1, <2>2, MultiDone, FrozenSame DEF MultiStates
<1> QED
  BY <1>2, <1>3

LEMMA MultiRoles ==
    ASSUME MultiInv, NEW sender, NEW g \in Grants,
           \/ Multi!contract_grant_role(sender, g[1], g[2])
           \/ Multi!contract_revoke_role(sender, g[1], g[2])
    PROVE  MultiInv' /\ Multi!FrozenStep
<1>1. state \in MultiStates /\ seen \in Knowledge(Anybody, FungibleIds) /\ MultiAgree(state, seen)
  BY MultiIs
<1>2. g[1] \in Anybody /\ g[2] \in Texts
  BY AddressAssumption DEF Anybody, Texts
<1>3. PICK update : /\ state' = [state EXCEPT !.roles = Tok!Updated(@, <<g[1], g[2]>>, update)]
                    /\ seen' = Told(seen, <<Multi!RoleEvent(g[1], g[2], update)>>)
                    /\ calls' = calls
  <2>1. CASE Multi!contract_grant_role(sender, g[1], g[2])
    <3>1. /\ state' = [state EXCEPT !.roles = Tok!Updated(@, <<g[1], g[2]>>, "add")]
          /\ seen' = Told(seen, <<Multi!RoleEvent(g[1], g[2], "add")>>) /\ calls' = calls
      BY <2>1, MultiShared DEF Multi!contract_grant_role, Tok!Updated
    <3> QED
      BY <3>1
  <2>2. CASE Multi!contract_revoke_role(sender, g[1], g[2])
    <3>1. /\ state' = [state EXCEPT !.roles = Tok!Updated(@, <<g[1], g[2]>>, "remove")]
          /\ seen' = Told(seen, <<Multi!RoleEvent(g[1], g[2], "remove")>>) /\ calls' = calls
      BY <2>2, MultiShared DEF Multi!contract_revoke_role, Tok!Updated
    <3> QED
      BY <3>1
  <2> QED
    BY <2>1, <2>2
<1> DEFINE r == Tok!Updated(state.roles, <<g[1], g[2]>>, update)
           h == seen'
<1>4. h = Tok!Heard(seen, Multi!RoleEvent(g[1], g[2], update))
  BY <1>3, ToldOne
<1> HIDE DEF h
<1>5. h \in Knowledge(Anybody, FungibleIds)
      /\ SaysRoles(seen, h, Tok!Updated(seen.roles, <<g[1], g[2]>>, update))
  BY <1>1, <1>2, <1>4, HeardRole
<1>6. state' = [state EXCEPT !.roles = r] /\ seen.roles = state.roles /\ r \in SUBSET (Anybody \X Texts)
  BY <1>1, <1>2, <1>3 DEF MultiAgree, MultiStates, Tok!Updated
<1>7. SaysRoles(seen, h, r)
  BY <1>5, <1>6
<1> HIDE DEF r
<1>8. MultiStep(state, seen, state', h)
  BY <1>1, <1>5, <1>6, <1>7 DEF MultiStep, MultiStates, MultiAgree, SaysRoles
<1> QED
  BY <1>1, <1>3, <1>6, <1>8, MultiDone, FrozenSame DEF MultiStates, h

LEMMA MultiBlacklist ==
    ASSUME MultiInv, NEW sender, NEW address \in Anybody, NEW update,
           Multi!contract_update_blacklist(sender, address, update)
    PROVE  MultiInv' /\ Multi!FrozenStep
<1>1. state \in MultiStates /\ seen \in Knowledge(Anybody, FungibleIds) /\ MultiAgree(state, seen)
  BY MultiIs
<1> DEFINE c == Multi!get_canonical_address(address)
           l == Tok!Updated(state.blacklist, c, update)
           h == seen'
<1>2. c \in Anybody
  BY AddressAssumption DEF Multi!get_canonical_address, Anybody
<1>3. state' = [state EXCEPT !.blacklist = l] /\ calls' = calls
      /\ seen' = Told(seen, <<Multi!UpdateBlacklistEvent(c, update)>>)
  BY MultiShared DEF Multi!contract_update_blacklist, Multi!Updated, Tok!Updated
<1>4. h = Tok!Heard(seen, Multi!UpdateBlacklistEvent(c, update))
  BY <1>3, ToldOne
<1> HIDE DEF h, c
<1>5. h \in Knowledge(Anybody, FungibleIds)
      /\ SaysBlacklist(seen, h, Tok!Updated(seen.blacklist, c, update))
  BY <1>1, <1>2, <1>4, HeardBlacklist
<1>6. seen.blacklist = state.blacklist /\ l \in SUBSET Anybody
  BY <1>1, <1>2 DEF MultiAgree, MultiStates, Tok!Updated
<1>7. SaysBlacklist(seen, h, l)
  BY <1>5, <1>6
<1> HIDE DEF l
<1>8. MultiStep(state, seen, state', h)
  BY <1>1, <1>3, <1>5, <1>6, <1>7 DEF MultiStep, MultiStates, MultiAgree, SaysBlacklist
<1> QED
  BY <1>1, <1>3, <1>8, MultiDone, FrozenSame DEF MultiStates, h

(* The nonce of a signed message is counted, *)
LEMMA MultiCounted ==
    ASSUME MultiInv, NEW p \in Permits, p.nonce = state.nonces_registry[p.signer],
           NEW s, s = Multi!NonceTaken(p.signer)
    PROVE  /\ s \in MultiStates /\ MultiAgree(s, seen) /\ Counted(state.nonces_registry, s.nonces_registry, p.signer)
           /\ p.signer \in AliasedAccounts /\ p.signer \in Anybody /\ p.nonce \in Nat
           /\ s.balances = state.balances /\ s.operators = state.operators
<1>1. state \in MultiStates /\ MultiAgree(state, seen)
  BY MultiIs
<1>2. p.signer \in AliasedAccounts /\ p.signer \in Anybody
  BY PermitAssumption DEF Anybody
<1> DEFINE r == state.nonces_registry
           r2 == [r EXCEPT ![p.signer] = @ + 1]
<1>3. r \in [AliasedAccounts -> Nat]
  BY <1>1 DEF MultiStates
<1>4. r2 \in [AliasedAccounts -> Nat] /\ p.nonce \in Nat /\ Counted(r, r2, p.signer)
  <2> HIDE DEF r
  <2>1. r2 \in [AliasedAccounts -> Nat]
    BY <1>2, <1>3
  <2>2. p.nonce \in Nat
    BY <1>2, <1>3 DEF r
  <2> QED
    BY <2>1, <2>2 DEF Counted
<1>5. s = [state EXCEPT !.nonces_registry = r2]
  BY DEF Multi!NonceTaken
<1> HIDE DEF r2
<1> QED
  BY <1>1, <1>2, <1>4, <1>5 DEF MultiStates, MultiAgree

(* what it asks for is done, and its event is the last. *)
LEMMA MultiExecuted ==
    ASSUME MultiInv, NEW p \in Permits, p.nonce = state.nonces_registry[p.signer],
           NEW s, s = Multi!NonceTaken(p.signer), NEW h, MultiStep(s, seen, state', h),
           NEW n, n = Tok!NonceEvent(p.signer, p.nonce), seen' = Tok!Heard(h, n), calls' = calls
    PROVE  MultiInv'
<1>1. /\ MultiCalls /\ NonceInv(state.nonces_registry, seen, calls)
      /\ NonceTypes(AliasedAccounts, state.nonces_registry, seen, calls)
  BY MultiIs
<1>2. /\ Counted(state.nonces_registry, s.nonces_registry, p.signer)
      /\ p.signer \in AliasedAccounts /\ p.signer \in Anybody /\ p.nonce \in Nat
  BY MultiCounted
<1>3. /\ state' \in MultiStates /\ h \in Knowledge(Anybody, FungibleIds) /\ MultiAgree(state', h)
      /\ state'.nonces_registry = s.nonces_registry /\ h.nonces = seen.nonces /\ h.replayed = seen.replayed
  BY DEF MultiStep
<1> DEFINE k2 == seen'
<1>4. k2 = Tok!Heard(h, Tok!NonceEvent(p.signer, p.nonce))
  OBVIOUS
<1> HIDE DEF k2
<1>5. k2 \in Knowledge(Anybody, FungibleIds) /\ SaysNonce(h, k2, p.signer, p.nonce)
  BY <1>2, <1>3, <1>4, HeardNonce
<1>6. MultiAgree(state', k2)
  BY <1>2, <1>3, <1>5 DEF MultiAgree, SaysNonce
<1>7. NonceInv(s.nonces_registry, k2, calls)
  <2> DEFINE a == p.signer
             r == state.nonces_registry
             r2 == s.nonces_registry
  <2>1. SaysNonce(h, k2, a, r[a]) /\ a \in AliasedAccounts /\ Counted(r, r2, a)
        /\ NonceInv(r, seen, calls) /\ NonceTypes(AliasedAccounts, r, seen, calls)
    BY <1>1, <1>2, <1>5
  <2> HIDE DEF a, r, r2
  <2>2. NonceInv(r2, k2, calls)
    BY <1>3, <2>1, NonceUsed
  <2> QED
    BY <2>2 DEF r2
<1>8. NonceInv(state.nonces_registry, seen, calls)'
  BY <1>3, <1>7 DEF k2
<1>9. MultiCalls'
  BY <1>1 DEF MultiCalls, CallsOK
<1> QED
  BY <1>3, <1>5, <1>6, <1>8, <1>9, MultiKept DEF k2

LEMMA MultiPermit ==
    ASSUME MultiInv, NEW sender, NEW p \in Permits, Multi!contract_permit(sender, p)
    PROVE  MultiInv' /\ Multi!FrozenStep
<1> DEFINE s == Multi!NonceTaken(p.signer)
           e == Tok!NonceEvent(p.signer, p.nonce)
<1>0. p.nonce = state.nonces_registry[p.signer] /\ s = Multi!NonceTaken(p.signer)
      /\ e = Tok!NonceEvent(p.signer, p.nonce)
  BY DEF Multi!contract_permit
<1>1. /\ state \in MultiStates /\ seen \in Knowledge(Anybody, FungibleIds) /\ MultiAgree(state, seen)
      /\ MultiCalls /\ NonceInv(state.nonces_registry, seen, calls)
      /\ NonceTypes(AliasedAccounts, state.nonces_registry, seen, calls)
  BY MultiIs
<1>2. \/ /\ p.entry_point = "transfer" /\ state' = s
         /\ Tok!StartsBatch(p.signer, p.batch, <<e>>) /\ UNCHANGED seen
      \/ /\ p.entry_point = "updateOperator" /\ ~ state.paused
         /\ state' = Multi!OperatorUpdated(s, p.signer, p.operator, p.update)
         /\ seen' = Told(seen, <<Tok!UpdateOperatorEvent(p.signer, p.operator, p.update)>> \o <<e>>)
         /\ calls' = calls
      \/ /\ p.entry_point = "mint" /\ Multi!CanMint(p.to)
         /\ state' = Multi!Minted(s, p.token_id, p.url, p.to)
         /\ seen' = Told(seen, Multi!MintEvents(p.token_id, p.url, p.to) \o <<e>>)
         /\ calls' = calls
      \/ /\ p.entry_point = "burn" /\ Multi!CanBurn(p.signer, p.token_id, p.amount, p.owner)
         /\ state' = Multi!Burnt(s, p.token_id, p.amount, p.owner)
         /\ seen' = Told(seen, <<Tok!BurnEvent(p.token_id, p.amount, p.owner)>> \o <<e>>)
         /\ calls' = calls
  BY MultiShared DEF Multi!contract_permit, Multi!NonceEvent, Tok!NonceEvent, Multi!UpdateOperatorEvent,
       Tok!UpdateOperatorEvent, Multi!BurnEvent, Tok!BurnEvent
<1> HIDE DEF s, e
<1>3. /\ s \in MultiStates /\ MultiAgree(s, seen) /\ Counted(state.nonces_registry, s.nonces_registry, p.signer)
      /\ p.signer \in AliasedAccounts /\ p.signer \in Anybody /\ p.nonce \in Nat
      /\ s.balances = state.balances /\ s.operators = state.operators
  BY <1>0, MultiCounted
<1>4. <<e>> \in FinalEvents(AliasedAccounts)
  BY <1>0, <1>3 DEF FinalEvents
<1> DEFINE T == TransfersOf(FungibleIds, Anybody)
<1>5. CASE /\ p.entry_point = "transfer" /\ state' = s
           /\ Tok!StartsBatch(p.signer, p.batch, <<e>>) /\ UNCHANGED seen
  <2>1. p.batch \in Seq(T) /\ p.batch # <<>>
    BY <1>5, PermitAssumption DEF BatchesOf, TransfersOf, Anybody
  <2>2. Counts(AliasedAccounts, state.nonces_registry, state'.nonces_registry, <<e>>)
    BY <1>0, <1>3, <1>5 DEF Counts, Counted
  <2>3. MultiCalls'
    BY <1>1, <1>3, <1>4, <1>5, <2>1, StartsOK DEF MultiInv, MultiCalls
  <2>4. NonceInv(state.nonces_registry, seen, calls)'
    BY <1>1, <1>5, <2>2, StartsNonces DEF MultiCalls
  <2> QED
    BY <1>1, <1>3, <1>5, <2>3, <2>4, MultiKept, FrozenSame
<1>6. CASE /\ p.entry_point = "updateOperator" /\ ~ state.paused
           /\ state' = Multi!OperatorUpdated(s, p.signer, p.operator, p.update)
           /\ seen' = Told(seen, <<Tok!UpdateOperatorEvent(p.signer, p.operator, p.update)>> \o <<e>>)
           /\ calls' = calls
  <2> DEFINE u == Tok!UpdateOperatorEvent(p.signer, p.operator, p.update)
             g == Tok!Heard(seen, u)
  <2>1. p.operator \in Anybody
    BY <1>6, PermitAssumption DEF Anybody
  <2>2. g = Tok!Heard(seen, Tok!UpdateOperatorEvent(p.signer, p.operator, p.update))
    OBVIOUS
  <2>3. seen' = Tok!Heard(g, e)
    <3> HIDE DEF u
    <3>1. Told(seen, <<u>> \o <<e>>) = Told(g, <<e>>)
      BY <1>4, ToldAfter
    <3> QED
      BY <1>6, <3>1, ToldOne DEF u
  <2> HIDE DEF g, u
  <2>4. MultiStep(s, seen, state', g)
    BY <1>1, <1>3, <1>6, <2>1, <2>2, MultiOperated
  <2>5. MultiInv'
    BY <1>0, <1>6, <2>3, <2>4, MultiExecuted
  <2> QED
    BY <1>3, <1>6, <2>5, OperatorFrozen
<1>7. CASE /\ p.entry_point = "mint" /\ Multi!CanMint(p.to)
           /\ state' = Multi!Minted(s, p.token_id, p.url, p.to)
           /\ seen' = Told(seen, Multi!MintEvents(p.token_id, p.url, p.to) \o <<e>>)
           /\ calls' = calls
  <2> DEFINE u == Multi!MintEvents(p.token_id, p.url, p.to)
             g == Told(seen, u)
  <2>1. p.token_id \in FungibleIds /\ p.url \in Texts /\ p.to \in Anybody
    BY <1>7, PermitAssumption DEF Anybody, Texts
  <2>2. g = Told(seen, Multi!MintEvents(p.token_id, p.url, p.to))
    OBVIOUS
  <2>3. seen' = Tok!Heard(g, e)
    <3>1. u = <<u[1], u[2]>>
      BY DEF Multi!MintEvents
    <3> HIDE DEF u
    <3>2. Told(seen, <<u[1], u[2]>> \o <<e>>) = Told(Tok!Heard(Tok!Heard(seen, u[1]), u[2]), <<e>>)
      BY <1>4, ToldAfter
    <3>3. g = Tok!Heard(Tok!Heard(seen, u[1]), u[2])
      BY <3>1, ToldTwo
    <3> HIDE DEF g
    <3>4. Told(g, <<e>>) = Tok!Heard(g, e)
      BY ToldOne
    <3> QED
      BY <1>7, <3>1, <3>2, <3>3, <3>4 DEF u
  <2> HIDE DEF g, u
  <2>4. MultiStep(s, seen, state', g)
    BY <1>1, <1>3, <1>7, <2>1, <2>2, MultiMinted
  <2>5. MultiInv'
    BY <1>0, <1>7, <2>3, <2>4, MultiExecuted
  <2> QED
    BY <1>3, <1>7, <2>1, <2>5, MintFrozen
<1>8. CASE /\ p.entry_point = "burn" /\ Multi!CanBurn(p.signer, p.token_id, p.amount, p.owner)
           /\ state' = Multi!Burnt(s, p.token_id, p.amount, p.owner)
           /\ seen' = Told(seen, <<Tok!BurnEvent(p.token_id, p.amount, p.owner)>> \o <<e>>)
           /\ calls' = calls
  <2> DEFINE u == Tok!BurnEvent(p.token_id, p.amount, p.owner)
             g == Tok!Heard(seen, u)
  <2>1. p.token_id \in FungibleIds /\ p.amount \in Nat /\ p.owner \in Anybody
    BY <1>8, PermitAssumption DEF Anybody
  <2>2. g = Tok!Heard(seen, Tok!BurnEvent(p.token_id, p.amount, p.owner))
    OBVIOUS
  <2>3. seen' = Tok!Heard(g, e)
    <3> HIDE DEF u
    <3>1. Told(seen, <<u>> \o <<e>>) = Told(g, <<e>>)
      BY <1>4, ToldAfter
    <3> QED
      BY <1>8, <3>1, ToldOne DEF u
  <2> HIDE DEF g, u
  <2>4. MultiStep(s, seen, state', g)
    BY <1>1, <1>3, <1>8, <2>1, <2>2, MultiBurnt
  <2>5. MultiInv'
    BY <1>0, <1>8, <2>3, <2>4, MultiExecuted
  <2> QED
    BY <1>3, <1>8, <2>1, <2>5, BurnFrozen
<1> QED
  BY <1>2, <1>5, <1>6, <1>7, <1>8

(* What a rejection restores may be anything that was there before. *)
LEMMA RejectionUndoes ==
    ASSUME NEW T, CallsOK(Anybody, T, FinalEvents(AliasedAccounts), MultiGood), calls # <<>>, Tok!Rejects
    PROVE  Multi!FrozenStep
<1>1. Len(calls') = Len(calls) - 1
  BY RejectsOK, MultiGoodIs
<1>2. Len(calls) \in Nat
  BY LenProperties DEF CallsOK
<1>3. Multi!Undoes
  BY <1>1, <1>2, MultiShared DEF Multi!Undoes, Tok!Rejects
<1> QED
  BY <1>3 DEF Multi!FrozenStep

LEMMA MultiMoves ==
    ASSUME MultiInv,
           Multi!NextTransfer(Multi!Accepts(Multi!Top.sender, Multi!Upcoming), Multi!Moved(Multi!Upcoming),
                             Multi!OneEvent(Multi!Upcoming))
    PROVE  MultiInv' /\ Multi!FrozenStep
<1> DEFINE t == Tok!Upcoming
           T == TransfersOf(FungibleIds, Anybody)
<1>1. /\ state \in MultiStates /\ seen \in Knowledge(Anybody, FungibleIds) /\ MultiAgree(state, seen)
      /\ CallsOK(Anybody, T, FinalEvents(AliasedAccounts), MultiGood)
      /\ NonceInv(state.nonces_registry, seen, calls)
  BY MultiIs DEF MultiCalls
<1>2. /\ calls # <<>> /\ Tok!Top.hook = None
      /\ \/ Multi!Accepts(Tok!Top.sender, t) /\ Moves(Multi!Moved(t), Multi!OneEvent(t))
         \/ Tok!Rejects
  BY MultiTransfers
<1>3. CASE Tok!Rejects
  <2>1. NonceInv(state.nonces_registry, seen, calls)'
    BY <1>1, <1>2, <1>3, RejectsNonces DEF CallsOK
  <2>2. CallsOK(Anybody, T, FinalEvents(AliasedAccounts), MultiGood)' /\ Tok!Saved' \in MultiGood
    <3> HIDE DEF T
    <3> QED
      BY <1>1, <1>2, <1>3, RejectsOK, MultiGoodIs
  <2> QED
    BY <1>1, <1>2, <1>3, <2>1, <2>2, RejectionUndoes DEF MultiInv, MultiCalls
<1>4. CASE Multi!Accepts(Tok!Top.sender, t) /\ Moves(Multi!Moved(t), Multi!OneEvent(t))
  <2>1. t \in T
    BY <1>1, <1>2, UpcomingOK
  <2>2. t.token_id \in FungibleIds /\ t.amount \in Nat /\ t.from \in Anybody /\ t.to \in Anybody
    BY <2>1 DEF TransfersOf
  <2>3. CallsOK(Anybody, T, FinalEvents(AliasedAccounts), MultiGood)'
    BY <1>1, <1>2, <1>4, MovesOK, AddressAssumption
  <2> DEFINE e == Tok!TransferEvent(t)
             h == Tok!Heard(seen, e)
  <2>4. Multi!OneEvent(t) = <<e>>
    BY DEF Multi!OneEvent, Multi!TransferEvent, Tok!TransferEvent
  <2>5. /\ h \in Knowledge(Anybody, FungibleIds)
        /\ SaysBalances(seen, h, Tok!Transferred(seen.balances, t.token_id, t.amount, t.from, t.to))
    BY <1>1, <2>2, HeardTransfer
  <2> DEFINE b == Tok!Transferred(state.balances, t.token_id, t.amount, t.from, t.to)
             moved == [state EXCEPT !.balances = b]
  <2>6. t.amount \in Int /\ seen.balances = state.balances
    BY <1>1, <2>2 DEF MultiAgree
  <2>7. Multi!Moved(t) = moved
    BY DEF Multi!Moved, Multi!Transferred, Tok!Transferred, Multi!add, Multi!sub, Tok!add, Tok!sub
  <2>8. Moves(moved, <<e>>)
    BY <1>4, <2>4, <2>7
  <2>9. b \in [Anybody \X FungibleIds -> Sayable] /\ SaysBalances(seen, h, b)
    <3>1. SaysBalances(seen, h, b)
      BY <2>5, <2>6
    <3>2. h.balances \in [Anybody \X FungibleIds -> Sayable]
      BY <2>5 DEF Knowledge
    <3> HIDE DEF b, h
    <3> QED
      BY <3>1, <3>2 DEF SaysBalances
  <2>10. Multi!FrozenStep
    <3>1. ~ state.paused /\ \A a \in {t.from, t.to} : ~ Multi!Blacklisted(a)
      BY <1>4 DEF Multi!Accepts
    <3>2. \A a \in Anybody, i \in FungibleIds : a \notin {t.from, t.to} => b[<<a, i>>] = state.balances[<<a, i>>]
      <4>1. state.balances \in [Anybody \X FungibleIds -> Sayable]
        BY <1>1 DEF MultiStates
      <4> QED
        BY <2>2, <4>1 DEF Tok!Transferred
    <3>3. state'.balances = b
      BY <1>1, <2>8 DEF Moves, MultiStates
    <3> HIDE DEF b, t
    <3> QED
      BY <3>1, <3>2, <3>3, FrozenRest
  <2> HIDE DEF b, t
  <2>11. moved \in MultiStates /\ moved.nonces_registry = state.nonces_registry /\ MultiAgree(moved, h)
    <3>1. moved \in MultiStates /\ moved.nonces_registry = state.nonces_registry /\ moved.balances = b
          /\ moved.tokens = state.tokens /\ moved.operators = state.operators
          /\ moved.roles = state.roles /\ moved.blacklist = state.blacklist
      BY <1>1, <2>9 DEF MultiStates
    <3> HIDE DEF moved, h
    <3> QED
      BY <1>1, <2>9, <3>1 DEF MultiAgree, SaysBalances
  <2> HIDE DEF moved, h, e, T
  <2>12. /\ state' = moved
         /\ seen' \in Knowledge(Anybody, FungibleIds) /\ SaysNonces(h, seen')
         /\ seen'.nonces \in SUBSET (AliasedAccounts \X Nat)
         /\ NonceInv(state.nonces_registry, seen, calls)'
    <3>1. h = Tok!Heard(seen, e) /\ h.nonces = seen.nonces /\ h.replayed = seen.replayed
      BY <2>5 DEF h, SaysBalances
    <3>2. AliasedAccounts \subseteq Anybody /\ seen.nonces \in SUBSET (AliasedAccounts \X Nat)
      BY <1>1 DEF Anybody, MultiAgree
    <3> QED
      BY <1>1, <1>2, <2>5, <2>8, <2>11, <3>1, <3>2, MovesNonces
  <2>13. MultiAgree(state', seen')
    BY <2>11, <2>12 DEF MultiAgree, SaysNonces
  <2> QED
    BY <2>3, <2>10, <2>11, <2>12, <2>13, MultiKept DEF MultiCalls, T
<1> QED
  BY <1>2, <1>3, <1>4

LEMMA MultiHooks ==
    ASSUME MultiInv, Multi!HookReturns \/ Multi!HookRejects
    PROVE  MultiInv' /\ Multi!FrozenStep
<1> DEFINE T == TransfersOf(FungibleIds, Anybody)
<1>1. /\ state \in MultiStates /\ seen \in Knowledge(Anybody, FungibleIds) /\ MultiAgree(state, seen)
      /\ CallsOK(Anybody, T, FinalEvents(AliasedAccounts), MultiGood)
      /\ NonceInv(state.nonces_registry, seen, calls)
  BY MultiIs DEF MultiCalls
<1>2. CASE Multi!HookRejects
  <2>0. calls # <<>> /\ Tok!Rejects
    BY <1>2, MultiShared
  <2>1. NonceInv(state.nonces_registry, seen, calls)'
    BY <1>1, <2>0, RejectsNonces DEF CallsOK
  <2>2. CallsOK(Anybody, T, FinalEvents(AliasedAccounts), MultiGood)' /\ Tok!Saved' \in MultiGood
    <3> HIDE DEF T
    <3> QED
      BY <1>1, <2>0, RejectsOK, MultiGoodIs
  <2> QED
    BY <1>1, <2>0, <2>1, <2>2, RejectionUndoes DEF MultiInv, MultiCalls
<1>3. CASE Multi!HookReturns
  <2>1. Tok!HookReturns
    BY <1>3, MultiShared
  <2>2. AliasedAccounts \subseteq Anybody /\ seen.nonces \in SUBSET (AliasedAccounts \X Nat)
    BY <1>1 DEF Anybody, MultiAgree
  <2>3. /\ state' = state /\ CallsOK(Anybody, T, FinalEvents(AliasedAccounts), MultiGood)'
        /\ seen' \in Knowledge(Anybody, FungibleIds) /\ SaysNonces(seen, seen')
        /\ seen'.nonces \in SUBSET (AliasedAccounts \X Nat)
        /\ NonceInv(state.nonces_registry, seen, calls)'
    <3> HIDE DEF T
    <3> QED
      BY <1>1, <2>1, <2>2, HookReturnsNonces
  <2>4. MultiAgree(state', seen')
    BY <1>1, <2>3 DEF MultiAgree, SaysNonces
  <2> QED
    BY <1>1, <2>3, <2>4, MultiKept, FrozenSame DEF MultiCalls
<1> QED
  BY <1>2, <1>3

LEMMA MultiNext == ASSUME MultiInv, Multi!Next PROVE MultiInv' /\ Multi!FrozenStep
<1>1. ASSUME NEW sender \in Multi!Addresses,
             \/ \E t \in FungibleIds, url \in {"url1", "url2"}, to \in Multi!Addresses :
                   Multi!contract_mint(sender, t, url, to)
             \/ \E t \in FungibleIds, amount \in BurnAmounts, owner \in Multi!Addresses :
                   Multi!contract_burn(sender, t, amount, owner)
             \/ \E batch \in MultiBatches : Multi!contract_transfer(sender, batch)
      PROVE  MultiInv' /\ Multi!FrozenStep
  BY <1>1, MultiMint, MultiBurn, MultiTransfer DEF Multi!Addresses, Anybody
<1>2. ASSUME NEW sender \in Multi!Addresses,
             \/ \E operator \in Operators, update \in {"add", "remove"} :
                   Multi!contract_update_operator(sender, operator, update)
             \/ \E p \in Permits : Multi!contract_permit(sender, p)
      PROVE  MultiInv' /\ Multi!FrozenStep
  BY <1>2, MultiUpdateOperator, MultiPermit DEF Multi!Addresses, Anybody
<1>3. ASSUME NEW sender \in Multi!Addresses,
             \/ \E imp \in Implementors : Multi!contract_set_implementor(sender, imp[1], imp[2])
             \/ \E address \in Multi!Addresses, update \in {"add", "remove"} :
                   Multi!contract_update_blacklist(sender, address, update)
             \/ \E paused \in BOOLEAN : Multi!contract_set_paused(sender, paused)
      PROVE  MultiInv' /\ Multi!FrozenStep
  BY <1>3, MultiOthers, MultiBlacklist DEF Multi!Addresses, Anybody
<1>4. ASSUME NEW sender \in Multi!Addresses,
             \/ \E g \in Grants : Multi!contract_grant_role(sender, g[1], g[2])
             \/ \E g \in Grants : Multi!contract_revoke_role(sender, g[1], g[2])
      PROVE  MultiInv' /\ Multi!FrozenStep
  BY <1>4, MultiRoles
<1> QED
  BY <1>1, <1>2, <1>3, <1>4, MultiMoves, MultiHooks DEF Multi!Next

LEMMA MultiPermitsOnce == MultiInv => Multi!PermitsOnce
<1> SUFFICES ASSUME MultiInv PROVE Multi!PermitsOnce
  OBVIOUS
<1>1. NoncesOK(state.nonces_registry, seen, calls, Len(calls))
  BY MultiIs DEF NonceInv
<1> QED
  BY <1>1 DEF NoncesOK, Multi!PermitsOnce, Multi!contract_nonce_of

LEMMA MultiLogTells == MultiInv => Multi!LogTellsState
<1> SUFFICES ASSUME MultiInv PROVE Multi!LogTellsState
  OBVIOUS
<1>1. MultiAgree(state, seen)
  BY MultiIs
<1>2. Multi!TellsBalances({t \in FungibleIds : Multi!contains_token(t)}, Multi!contract_balance_of)
  BY <1>1 DEF MultiAgree, Multi!TellsBalances, Multi!contract_balance_of, Multi!balance
<1>3. Multi!TellsOperators(Multi!contract_operator_of)
  BY <1>1 DEF MultiAgree, KnownOperators, Multi!TellsOperators, Multi!contract_operator_of, Multi!is_operator,
       Multi!Addresses, Anybody
<1>4. /\ \A t \in FungibleIds : Multi!contract_token_metadata(t) = seen.metadata[t]
      /\ seen.roles = state.roles /\ seen.blacklist = state.blacklist
  BY <1>1 DEF MultiAgree, Multi!contract_token_metadata
<1> QED
  BY <1>2, <1>3, <1>4 DEF Multi!LogTellsState

-----------------------------------------------------------------------------
(* cis2-dynamic-nft *)

(* The counter of a token points into its list. *)
Metadata == {r \in [counter : Nat, list : Seq(Texts)] : r.counter < Len(r.list)}

DynamicStates ==
    [balances     : [Everybody \X FungibleIds -> Sayable],
     operators    : [Everybody -> SUBSET Everybody],
     tokens       : [FungibleIds -> Metadata \cup {None}],
     implementors : Implementations]

\* What was logged last of each token is ahead of it.
MetadataAhead(tokens, metadata) ==
    \A t \in FungibleIds : tokens[t] # None => metadata[t] \in Dynamic!Ahead(tokens[t])

DynamicAgree(s, k) ==
    /\ k.balances = s.balances /\ KnownOperators(s.operators, k.operators, Everybody)
    /\ MetadataAhead(s.tokens, k.metadata)

DynamicGood ==
    {w \in [state : DynamicStates, seen : Knowledge(Everybody, FungibleIds)] : DynamicAgree(w.state, w.seen)}

DynamicCalls == CallsOK(Everybody, TransfersOf(FungibleIds, Everybody), {<<>>}, DynamicGood)

DynamicInv == Tok!Saved \in DynamicGood /\ DynamicCalls

LEMMA DynamicGoodIs ==
    /\ Tok!Saved \in DynamicGood
         <=> /\ state \in DynamicStates /\ seen \in Knowledge(Everybody, FungibleIds)
             /\ DynamicAgree(state, seen)
    /\ \A w \in DynamicGood : w = [state |-> w.state, seen |-> w.seen]
  BY DEF DynamicGood, Tok!Saved

LEMMA DynamicKept ==
    ASSUME state' \in DynamicStates, seen' \in Knowledge(Everybody, FungibleIds),
           DynamicAgree(state', seen'), DynamicCalls'
    PROVE  DynamicInv'
  BY DEF DynamicInv, DynamicGood, Tok!Saved

LEMMA DynamicDone ==
    ASSUME DynamicInv, state' \in DynamicStates, seen' \in Knowledge(Everybody, FungibleIds),
           DynamicAgree(state', seen'), calls' = calls
    PROVE  DynamicInv'
  BY DynamicKept DEF DynamicInv, DynamicCalls, CallsOK

LEMMA DynamicInit == Dynamic!Init => DynamicInv
<1> SUFFICES ASSUME Dynamic!Init PROVE DynamicInv
  OBVIOUS
<1>1. seen \in Knowledge(Everybody, FungibleIds)
  BY NothingKnown DEF Dynamic!Init, Dynamic!NothingSeen, Dynamic!Addresses, Everybody
<1>2. state \in DynamicStates
  <2>1. 0 \in Sayable
    BY AmountAssumption DEF Sayable
  <2> QED
    BY <2>1, ImplementationsAre
       DEF Dynamic!Init, Dynamic!NoImplementors, Dynamic!Addresses, Everybody, DynamicStates
<1>3. DynamicAgree(state, seen)
  BY DEF Dynamic!Init, Dynamic!NothingSeen, Dynamic!Addresses, Everybody, DynamicAgree, KnownOperators,
         MetadataAhead
<1>4. DynamicCalls
  BY EmptySeq DEF CallsOK, DynamicCalls, Dynamic!Init
<1> QED
  BY <1>1, <1>2, <1>3, <1>4, DynamicGoodIs DEF DynamicInv

(* Lists of metadata *)
LEMMA Longer ==
    ASSUME NEW l \in Seq(Texts), NEW x \in Texts
    PROVE  Append(l, x) \in Seq(Texts) /\ Len(Append(l, x)) = Len(l) + 1 /\ Len(l) \in Nat
  BY AppendProperties, LenProperties

LEMMA ListIs ==
    ASSUME NEW l \in Lists
    PROVE  l \in Seq(Texts) /\ Len(l) \in Nat \ {0} /\ Head(l) \in Texts
<1>1. l \in Seq(STRING) /\ l # <<>>
  BY MetadataAssumption
<1>2. l \in Seq(Texts)
  <2>1. \A s \in STRING : s \in Texts
    BY DEF Texts
  <2>2. l \in [1 .. Len(l) -> STRING] /\ Len(l) \in Nat
    BY <1>1, LenProperties
  <2>3. l \in [1 .. Len(l) -> Texts]
    BY <2>1, <2>2
  <2> QED
    BY <2>2, <2>3, SeqDef
<1>3. Len(l) \in Nat \ {0} /\ Head(l) = l[1] /\ l[1] \in Texts
  BY <1>1, <1>2, EmptySeq, LenProperties
<1> QED
  BY <1>2, <1>3

(* One token has another record, and what was logged is ahead of it. *)
LEMMA StaysAhead ==
    ASSUME NEW tokens \in [FungibleIds -> Metadata \cup {None}], NEW r \in Metadata,
           NEW metadata \in [FungibleIds -> FungibleIds \cup Texts \cup {None}],
           NEW t \in FungibleIds, NEW u, MetadataAhead(tokens, metadata), u \in Dynamic!Ahead(r)
    PROVE  MetadataAhead([tokens EXCEPT ![t] = r], [metadata EXCEPT ![t] = u])
  BY DEF MetadataAhead

LEMMA DynamicMint ==
    ASSUME DynamicInv, NEW sender, NEW owner \in Everybody, NEW t \in FungibleIds, NEW urls \in Lists,
           Dynamic!contract_mint(sender, owner, t, urls)
    PROVE  DynamicInv'
<1>1. state \in DynamicStates /\ seen \in Knowledge(Everybody, FungibleIds) /\ DynamicAgree(state, seen)
  BY DynamicGoodIs DEF DynamicInv
<1> DEFINE r == [counter |-> 0, list |-> urls]
           m == [state.tokens EXCEPT ![t] = r]
           b == [state.balances EXCEPT ![<<owner, t>>] = Tok!add(@, token_amount)]
           g == Tok!Heard(seen, Tok!MintEvent(t, token_amount, owner))
           h == seen'
           u == Head(urls)
<1>2. r \in Metadata
  BY ListIs DEF Metadata
<1>3. /\ state' = [state EXCEPT !.tokens = m, !.balances = b] /\ calls' = calls
      /\ seen' = Told(seen, <<Tok!MintEvent(t, token_amount, owner), Tok!TokenMetadataEvent(t, u)>>)
  BY DynamicShared DEF Dynamic!contract_mint, Dynamic!MintEvent, Tok!MintEvent, Dynamic!TokenMetadataEvent,
       Tok!TokenMetadataEvent, Dynamic!add, Tok!add
<1> HIDE DEF r
<1>4. m \in [FungibleIds -> Metadata \cup {None}]
  BY <1>1, <1>2 DEF DynamicStates
<1>5. h = Tok!Heard(g, Tok!TokenMetadataEvent(t, u))
  BY <1>3, ToldTwo
<1>6. g \in Knowledge(Everybody, FungibleIds) /\ SaysBalances(seen, g, b)
  <2>1. token_amount \in Nat /\ seen.balances = state.balances
    BY <1>1, AmountAssumption DEF DynamicAgree
  <2>2. SaysBalances(seen, g, [seen.balances EXCEPT ![<<owner, t>>] = Tok!add(@, token_amount)])
        /\ g \in Knowledge(Everybody, FungibleIds)
    BY <1>1, <2>1, HeardMint
  <2> QED
    BY <2>1, <2>2
<1>7. u \in FungibleIds \cup Texts
  BY ListIs
<1>a. u \in Dynamic!Ahead(r)
  <2>1. 1 \in 1 .. Len(urls) /\ u = urls[1]
    BY ListIs
  <2>2. r.counter + 1 = 1 /\ r.list = urls
    BY DEF r
  <2> HIDE DEF u, r
  <2> QED
    BY <2>1, <2>2 DEF Dynamic!Ahead
<1> HIDE DEF g, h, u, b
<1>8. h \in Knowledge(Everybody, FungibleIds) /\ SaysMetadata(g, h, [g.metadata EXCEPT ![t] = u])
  BY <1>5, <1>6, <1>7, HeardMetadata
<1>9. b \in [Everybody \X FungibleIds -> Sayable]
  BY <1>6 DEF Knowledge, SaysBalances
<1>b. MetadataAhead(m, h.metadata)
  <2>1. g.metadata = seen.metadata /\ h.metadata = [g.metadata EXCEPT ![t] = u]
    BY <1>6, <1>8 DEF SaysBalances, SaysMetadata
  <2>2. /\ seen.metadata \in [FungibleIds -> FungibleIds \cup Texts \cup {None}]
        /\ state.tokens \in [FungibleIds -> Metadata \cup {None}]
        /\ MetadataAhead(state.tokens, seen.metadata)
    BY <1>1 DEF Knowledge, DynamicStates, DynamicAgree
  <2> QED
    BY <1>2, <1>a, <2>1, <2>2, StaysAhead
<1> HIDE DEF m
<1>10. state' \in DynamicStates /\ state'.balances = b /\ state'.operators = state.operators
       /\ state'.tokens = m
  BY <1>1, <1>3, <1>4, <1>9 DEF DynamicStates
<1>11. DynamicAgree(state', h)
  BY <1>1, <1>6, <1>8, <1>10, <1>b DEF DynamicAgree, SaysBalances, SaysMetadata
<1> QED
  BY <1>3, <1>8, <1>10, <1>11, DynamicDone DEF h

(* An event about metadata, and the token's new record *)
LEMMA DynamicTells ==
    ASSUME DynamicInv, NEW t \in FungibleIds, NEW u \in Texts, NEW r \in Metadata,
           u \in Dynamic!Ahead(r),
           state' = [state EXCEPT !.tokens = [@ EXCEPT ![t] = r]], calls' = calls,
           seen' = Told(seen, <<Tok!TokenMetadataEvent(t, u)>>)
    PROVE  DynamicInv'
<1>1. state \in DynamicStates /\ seen \in Knowledge(Everybody, FungibleIds) /\ DynamicAgree(state, seen)
  BY DynamicGoodIs DEF DynamicInv
<1> DEFINE m == [state.tokens EXCEPT ![t] = r]
           h == seen'
<1>2. m \in [FungibleIds -> Metadata \cup {None}]
  BY <1>1 DEF DynamicStates
<1>3. h = Tok!Heard(seen, Tok!TokenMetadataEvent(t, u)) /\ state' = [state EXCEPT !.tokens = m]
  BY ToldOne
<1> HIDE DEF h
<1>4. h \in Knowledge(Everybody, FungibleIds) /\ SaysMetadata(seen, h, [seen.metadata EXCEPT ![t] = u])
  BY <1>1, <1>3, HeardMetadata
<1>a. MetadataAhead(m, h.metadata)
  <2>1. h.metadata = [seen.metadata EXCEPT ![t] = u]
    BY <1>4 DEF SaysMetadata
  <2>2. /\ seen.metadata \in [FungibleIds -> FungibleIds \cup Texts \cup {None}]
        /\ state.tokens \in [FungibleIds -> Metadata \cup {None}]
        /\ MetadataAhead(state.tokens, seen.metadata)
    BY <1>1 DEF Knowledge, DynamicStates, DynamicAgree
  <2> QED
    BY <2>1, <2>2, StaysAhead
<1> HIDE DEF m
<1>5. state' \in DynamicStates /\ DynamicAgree(state', h)
  BY <1>1, <1>2, <1>3, <1>4, <1>a DEF DynamicStates, DynamicAgree, SaysMetadata
<1> QED
  BY <1>4, <1>5, DynamicDone DEF h

LEMMA DynamicUpgrade ==
    ASSUME DynamicInv, NEW sender, NEW t \in FungibleIds, Dynamic!contract_upgrade(sender, t)
    PROVE  DynamicInv'
<1>1. state \in DynamicStates
  BY DynamicGoodIs DEF DynamicInv
<1> DEFINE old == state.tokens[t]
           n == old.counter + 1
           r == [old EXCEPT !.counter = n]
           u == old.list[n + 1]
<1>2. old # None /\ n < Len(old.list)
  BY DEF Dynamic!contract_upgrade, Dynamic!contains_token
<1>3. old \in Metadata
  BY <1>1, <1>2 DEF DynamicStates
<1>4. /\ state' = [state EXCEPT !.tokens = [@ EXCEPT ![t] = r]] /\ calls' = calls
      /\ seen' = Told(seen, <<Tok!TokenMetadataEvent(t, old.list[old.counter + 2])>>)
  BY DynamicShared DEF Dynamic!contract_upgrade, Dynamic!TokenMetadataEvent, Tok!TokenMetadataEvent
<1> HIDE DEF old
<1>5. r \in Metadata /\ n + 1 = old.counter + 2 /\ n + 1 \in 1 .. Len(old.list)
  BY <1>2, <1>3, LenProperties DEF Metadata
<1>6. u \in Texts
  BY <1>3, <1>5, ElementOfSeq DEF Metadata
<1>7. u \in Dynamic!Ahead(r)
  <2>1. r.counter = n /\ r.list = old.list /\ n + 1 \in (n + 1) .. Len(old.list)
    BY <1>3, <1>5 DEF Metadata
  <2> HIDE DEF r, n
  <2> QED
    BY <2>1 DEF Dynamic!Ahead
<1> HIDE DEF r
<1> QED
  BY <1>4, <1>5, <1>6, <1>7, DynamicTells

LEMMA DynamicAddMetadata ==
    ASSUME DynamicInv, NEW sender, NEW t \in FungibleIds, Dynamic!contract_add_metadata(sender, t, "url3")
    PROVE  DynamicInv'
<1>1. state \in DynamicStates
  BY DynamicGoodIs DEF DynamicInv
<1> DEFINE old == state.tokens[t]
           u == "url3"
           l == Append(old.list, u)
           r == [old EXCEPT !.list = l]
<1>2. old # None
  BY DEF Dynamic!contract_add_metadata, Dynamic!contains_token
<1>3. old \in Metadata
  BY <1>1, <1>2 DEF DynamicStates
<1>4. /\ state' = [state EXCEPT !.tokens = [@ EXCEPT ![t] = r]] /\ calls' = calls
      /\ seen' = Told(seen, <<Tok!TokenMetadataEvent(t, u)>>)
  BY DynamicShared DEF Dynamic!contract_add_metadata, Dynamic!TokenMetadataEvent, Tok!TokenMetadataEvent
<1>5. u \in Texts
  BY DEF Texts
<1> HIDE DEF old, u
<1>6. l \in Seq(Texts) /\ Len(l) = Len(old.list) + 1 /\ Len(old.list) \in Nat
  BY <1>3, <1>5, Longer DEF Metadata
<1>a. l[Len(l)] = u
  BY <1>3, <1>6 DEF Metadata
<1> HIDE DEF l
<1>7. r \in Metadata
  BY <1>3, <1>6 DEF Metadata
<1>8. u \in Dynamic!Ahead(r)
  <2>1. r.counter = old.counter /\ r.list = l /\ Len(l) \in (old.counter + 1) .. Len(l)
    BY <1>3, <1>6 DEF Metadata
  <2> HIDE DEF r
  <2> QED
    BY <1>a, <2>1 DEF Dynamic!Ahead
<1> HIDE DEF r
<1> QED
  BY <1>4, <1>5, <1>7, <1>8, DynamicTells

LEMMA DynamicUpdateOperator ==
    ASSUME DynamicInv, NEW sender \in Everybody, NEW operator \in Operators, NEW update,
           Dynamic!contract_update_operator(sender, operator, update)
    PROVE  DynamicInv'
<1>1. state \in DynamicStates /\ seen \in Knowledge(Everybody, FungibleIds) /\ DynamicAgree(state, seen)
  BY DynamicGoodIs DEF DynamicInv
<1> DEFINE o == [state.operators EXCEPT ![sender] = Tok!Updated(@, operator, update)]
           h == seen'
<1>2. operator \in Everybody
  BY AddressAssumption DEF Everybody
<1>3. state' = [state EXCEPT !.operators = o] /\ calls' = calls
      /\ seen' = Told(seen, <<Tok!UpdateOperatorEvent(sender, operator, update)>>)
  BY DynamicShared DEF Dynamic!contract_update_operator, Dynamic!Updated, Tok!Updated,
       Dynamic!UpdateOperatorEvent, Tok!UpdateOperatorEvent
<1>4. h = Tok!Heard(seen, Tok!UpdateOperatorEvent(sender, operator, update))
  BY <1>3, ToldOne
<1> HIDE DEF h
<1>5. h \in Knowledge(Everybody, FungibleIds)
      /\ SaysOperators(seen, h, Tok!Updated(seen.operators, <<sender, operator>>, update))
  BY <1>1, <1>2, <1>4, HeardOperator
<1>6. o \in [Everybody -> SUBSET Everybody] /\ KnownOperators(o, h.operators, Everybody)
  <2>1. state.operators \in [Everybody -> SUBSET Everybody] /\ KnownOperators(state.operators, seen.operators, Everybody)
    BY <1>1 DEF DynamicStates, DynamicAgree
  <2>2. o \in [Everybody -> SUBSET Everybody]
        /\ KnownOperators(o, Tok!Updated(seen.operators, <<sender, operator>>, update), Everybody)
    BY <1>2, <2>1, OperatorsKnown
  <2>3. h.operators = Tok!Updated(seen.operators, <<sender, operator>>, update)
    BY <1>5 DEF SaysOperators
  <2> HIDE DEF o
  <2> QED
    BY <2>2, <2>3
<1> HIDE DEF o
<1>7. state' \in DynamicStates /\ DynamicAgree(state', h)
  BY <1>1, <1>3, <1>5, <1>6 DEF DynamicStates, DynamicAgree, SaysOperators
<1> QED
  BY <1>3, <1>5, <1>7, DynamicDone DEF h

LEMMA DynamicOthers ==
    ASSUME DynamicInv, NEW sender \in Everybody,
           \/ \E imp \in Implementors : Dynamic!contract_set_implementor(sender, imp[1], imp[2])
           \/ \E batch \in DynamicBatches : Dynamic!contract_transfer(sender, batch)
    PROVE  DynamicInv'
<1>1. state \in DynamicStates /\ seen \in Knowledge(Everybody, FungibleIds) /\ DynamicAgree(state, seen)
  BY DynamicGoodIs DEF DynamicInv
<1>2. ASSUME NEW imp \in Implementors, Dynamic!contract_set_implementor(sender, imp[1], imp[2])
      PROVE  DynamicInv'
  <2> DEFINE m == [state.implementors EXCEPT ![imp[1]] = imp[2]]
  <2>1. m \in Implementations
    BY <1>1, ImplementationsAre DEF DynamicStates
  <2>2. state' = [state EXCEPT !.implementors = m] /\ seen' = seen /\ calls' = calls
    BY <1>2 DEF Dynamic!contract_set_implementor
  <2> HIDE DEF m
  <2> QED
    BY <1>1, <2>1, <2>2, DynamicDone DEF DynamicStates, DynamicAgree
<1>3. ASSUME NEW batch \in DynamicBatches, Dynamic!contract_transfer(sender, batch)
      PROVE  DynamicInv'
  <2>1. batch \in Seq(TransfersOf(FungibleIds, Everybody)) /\ batch # <<>>
    BY BatchAssumption DEF BatchesOf, TransfersOf, Everybody
  <2>2. Tok!StartsBatch(sender, batch, <<>>) /\ UNCHANGED <<state, seen>>
    BY <1>3, DynamicShared DEF Dynamic!contract_transfer
  <2> QED
    BY <2>1, <2>2, StartsOK DEF DynamicInv, DynamicCalls, Tok!Saved
<1> QED
  BY <1>2, <1>3

LEMMA DynamicMoves ==
    ASSUME DynamicInv,
           Dynamic!NextTransfer(Dynamic!Accepts(Dynamic!Top.sender, Dynamic!Upcoming),
                                Dynamic!Moved(Dynamic!Upcoming), Dynamic!OneEvent(Dynamic!Upcoming))
    PROVE  DynamicInv'
<1> DEFINE t == Tok!Upcoming
           T == TransfersOf(FungibleIds, Everybody)
           b == Tok!Transferred(state.balances, t.token_id, t.amount, t.from, t.to)
           h == seen'
<1>1. /\ state \in DynamicStates /\ seen \in Knowledge(Everybody, FungibleIds) /\ DynamicAgree(state, seen)
      /\ CallsOK(Everybody, T, {<<>>}, DynamicGood)
  BY DynamicGoodIs DEF DynamicInv, DynamicCalls
<1>2. /\ calls # <<>> /\ Tok!Top.hook = None
      /\ Moves(Dynamic!Moved(t), Dynamic!OneEvent(t)) \/ Tok!Rejects
  BY DynamicTransfers
<1>3. CASE Tok!Rejects
  BY <1>2, <1>3, CallingOK, DynamicGoodIs DEF DynamicInv, DynamicCalls
<1>4. CASE Moves(Dynamic!Moved(t), Dynamic!OneEvent(t))
  <2>1. t \in T /\ Tok!Top.last = <<>>
    BY <1>1, <1>2, UpcomingOK
  <2>2. t.token_id \in FungibleIds /\ t.amount \in Int /\ t.from \in Everybody /\ t.to \in Everybody
    BY <2>1 DEF TransfersOf
  <2>3. CallsOK(Everybody, T, {<<>>}, DynamicGood)'
    BY <1>1, <1>2, <1>4, MovesOK, AddressAssumption
  <2>4. h = Tok!Heard(seen, Tok!TransferEvent(t))
    <3>1. Dynamic!OneEvent(t) = <<Tok!TransferEvent(t)>>
      BY DEF Dynamic!OneEvent, Dynamic!TransferEvent, Tok!TransferEvent
    <3>2. seen' = Told(seen, Dynamic!OneEvent(t) \o <<>>)
      BY <1>4, <2>1 DEF Moves
    <3>3. Dynamic!OneEvent(t) \o <<>> = <<Tok!TransferEvent(t)>>
      BY <3>1
    <3> QED
      BY <3>2, <3>3, ToldOne
  <2>5. state' = [state EXCEPT !.balances = b]
    BY <1>4 DEF Moves, Dynamic!Moved, Dynamic!Transferred, Tok!Transferred, Dynamic!add, Tok!add, Dynamic!sub, Tok!sub
  <2> HIDE DEF h, b
  <2>6. h \in Knowledge(Everybody, FungibleIds) /\ SaysBalances(seen, h, b)
    <3>1. seen.balances = state.balances
      BY <1>1 DEF DynamicAgree
    <3>2. h \in Knowledge(Everybody, FungibleIds)
          /\ SaysBalances(seen, h, Tok!Transferred(seen.balances, t.token_id, t.amount, t.from, t.to))
      BY <1>1, <2>2, <2>4, HeardTransfer
    <3> QED
      BY <3>1, <3>2 DEF b
  <2>7. b \in [Everybody \X FungibleIds -> Sayable]
    BY <2>6 DEF Knowledge, SaysBalances
  <2>8. state' \in DynamicStates /\ DynamicAgree(state', h)
    BY <1>1, <2>5, <2>6, <2>7 DEF DynamicStates, DynamicAgree, SaysBalances
  <2> QED
    BY <2>3, <2>6, <2>8, DynamicKept DEF DynamicCalls, h
<1> QED
  BY <1>2, <1>3, <1>4

LEMMA DynamicNext == ASSUME DynamicInv, Dynamic!Next PROVE DynamicInv'
<1>1. ASSUME NEW sender \in Everybody,
             \/ \E owner \in Everybody, t \in FungibleIds, urls \in Lists :
                   Dynamic!contract_mint(sender, owner, t, urls)
             \/ \E t \in FungibleIds : Dynamic!contract_upgrade(sender, t)
             \/ \E t \in FungibleIds : Dynamic!contract_add_metadata(sender, t, "url3")
             \/ \E operator \in Operators, update \in {"add", "remove"} :
                   Dynamic!contract_update_operator(sender, operator, update)
      PROVE  DynamicInv'
  BY <1>1, DynamicMint, DynamicUpgrade, DynamicAddMetadata, DynamicUpdateOperator
<1>2. ASSUME Dynamic!HookReturns \/ Dynamic!HookRejects PROVE DynamicInv'
  BY <1>2, DynamicShared, CallingOK, DynamicGoodIs DEF DynamicInv, DynamicCalls
<1> QED
  BY <1>1, <1>2, DynamicOthers, DynamicMoves DEF Dynamic!Next, Dynamic!Addresses, Everybody

LEMMA DynamicLogTells == DynamicInv => Dynamic!LogTellsState
<1> SUFFICES ASSUME DynamicInv PROVE Dynamic!LogTellsState
  OBVIOUS
<1>1. DynamicAgree(state, seen) /\ state \in DynamicStates
  BY DynamicGoodIs DEF DynamicInv
<1>2. Dynamic!TellsBalances({t \in FungibleIds : Dynamic!contains_token(t)}, Dynamic!contract_balance_of)
  BY <1>1 DEF DynamicAgree, Dynamic!TellsBalances, Dynamic!contract_balance_of, Dynamic!balance
<1>3. Dynamic!TellsOperators(Dynamic!contract_operator_of)
  BY <1>1 DEF DynamicAgree, KnownOperators, Dynamic!TellsOperators, Dynamic!contract_operator_of,
       Dynamic!is_operator, Dynamic!Addresses, Everybody
<1>4. \A t \in FungibleIds :
        Dynamic!contains_token(t) =>
          /\ state.tokens[t].counter < Len(state.tokens[t].list)
          /\ seen.metadata[t] \in Dynamic!Ahead(state.tokens[t])
  BY <1>1 DEF Dynamic!contains_token, DynamicStates, Metadata, DynamicAgree, MetadataAhead
<1> QED
  BY <1>2, <1>3, <1>4 DEF Dynamic!LogTellsState

-----------------------------------------------------------------------------
(* Numbers that wrap *)

LEMMA Quotient ==
    ASSUME NEW a \in Int
    PROVE  \E q \in Int : a = Modulus * q + (a % Modulus)
<1>1. Modulus \in Nat /\ Modulus > 1
  BY AmountAssumption
<1>2. a = Modulus * (a \div Modulus) + (a % Modulus) /\ a \div Modulus \in Int
  BY <1>1
<1> QED
  BY <1>2

LEMMA Remainder ==
    ASSUME NEW a \in Int, NEW q \in Int, NEW r \in Sayable, a = Modulus * q + r
    PROVE  a % Modulus = r
<1>1. Modulus \in Nat /\ Modulus > 1 /\ r \in 0 .. (Modulus - 1) /\ r \in Int
  BY AmountAssumption DEF Sayable
<1>2. PICK p \in Int : a = Modulus * p + (a % Modulus)
  BY Quotient
<1>3. a % Modulus \in 0 .. (Modulus - 1)
  BY <1>1
<1> DEFINE b == a % Modulus
<1>4. b \in Int /\ 0 <= b /\ b < Modulus /\ 0 <= r /\ r < Modulus
  BY <1>1, <1>3
<1>5. Modulus * p + b = Modulus * q + r
  BY <1>2
<1> HIDE DEF b
<1>6. p = q
  <2>1. CASE p > q
    <3>1. Modulus * p >= Modulus * q + Modulus
      BY <1>1, <2>1
    <3> DEFINE x == Modulus * p
               y == Modulus * q
    <3>2. x \in Int /\ y \in Int /\ x + b = y + r /\ x >= y + Modulus
      BY <1>1, <1>5, <3>1
    <3> HIDE DEF x, y
    <3> QED
      BY <1>1, <1>4, <3>2
  <2>2. CASE q > p
    <3>1. Modulus * q >= Modulus * p + Modulus
      BY <1>1, <2>2
    <3> DEFINE x == Modulus * p
               y == Modulus * q
    <3>2. x \in Int /\ y \in Int /\ x + b = y + r /\ y >= x + Modulus
      BY <1>1, <1>5, <3>1
    <3> HIDE DEF x, y
    <3> QED
      BY <1>1, <1>4, <3>2
  <2> QED
    BY <2>1, <2>2
<1>7. Modulus * p \in Int /\ Modulus * p + b = Modulus * p + r
  BY <1>1, <1>5, <1>6
<1>8. b = r
  BY <1>1, <1>4, <1>7
<1> QED
  BY <1>8 DEF b

(* Two that differ by a multiple of the modulus have the same remainder. *)
LEMMA Congruent ==
    ASSUME NEW a \in Int, NEW b \in Int, NEW k \in Int, a = Modulus * k + b
    PROVE  a % Modulus = b % Modulus
<1>1. Modulus \in Nat /\ Modulus > 1
  BY AmountAssumption
<1>2. PICK p \in Int : b = Modulus * p + (b % Modulus)
  BY Quotient
<1> DEFINE r == b % Modulus
<1>3. r \in Sayable /\ r \in Int
  BY <1>1 DEF Sayable
<1>4. b = Modulus * p + r
  BY <1>2
<1> HIDE DEF r
<1>5. a = Modulus * (k + p) + r /\ k + p \in Int
  BY <1>1, <1>3, <1>4
<1>6. a % Modulus = r
  BY <1>3, <1>5, Remainder
<1> QED
  BY <1>6 DEF r

(* What is added to a sum or a difference *)
LEMMA Twice ==
    ASSUME NEW x \in Int, NEW a \in Int, NEW b \in Int
    PROVE  /\ Tok!add(Tok!add(x, a), b) = (x + a + b) % Modulus
           /\ Tok!add(Tok!sub(x, a), b) = (x - a + b) % Modulus
           /\ Tok!sub(Tok!add(x, a), b) = (x + a - b) % Modulus
           /\ Tok!sub(Tok!sub(x, a), b) = (x - a - b) % Modulus
           /\ Tok!add(x, Tok!sub(a, b)) = (x + a - b) % Modulus
<1>0. Modulus \in Nat /\ Modulus > 1
  BY AmountAssumption
<1>1. \A y, z \in Int : ((y % Modulus) + z) % Modulus = (y + z) % Modulus
  <2> TAKE y, z \in Int
  <2>1. PICK q \in Int : y = Modulus * q + (y % Modulus)
    BY Quotient
  <2> DEFINE r == y % Modulus
  <2>2. r \in Int /\ y = Modulus * q + r
    BY <1>0, <2>1
  <2> HIDE DEF r
  <2>3. y + z = Modulus * q + (r + z) /\ y + z \in Int /\ r + z \in Int
    BY <1>0, <2>2
  <2>4. (y + z) % Modulus = (r + z) % Modulus
    BY <2>3, Congruent
  <2> QED
    BY <2>4 DEF r
<1> DEFINE p == (x + a) % Modulus
           m == (x - a) % Modulus
           d == (a - b) % Modulus
<1>2. p \in Int /\ m \in Int /\ d \in Int
  BY <1>0
<1>3. /\ (p + b) % Modulus = (x + a + b) % Modulus
      /\ (m + b) % Modulus = (x - a + b) % Modulus
  BY <1>1
<1>4. /\ (p + (-b)) % Modulus = ((x + a) + (-b)) % Modulus
      /\ (m + (-b)) % Modulus = ((x - a) + (-b)) % Modulus
  BY <1>1
<1>5. (d + x) % Modulus = ((a - b) + x) % Modulus
  BY <1>1
<1> HIDE DEF p, m, d
<1>6. /\ p + (-b) = p - b /\ m + (-b) = m - b /\ d + x = x + d
      /\ (x + a) + (-b) = x + a - b /\ (x - a) + (-b) = x - a - b
      /\ (a - b) + x = x + a - b
  BY <1>2
<1>7. /\ (p - b) % Modulus = (x + a - b) % Modulus
      /\ (m - b) % Modulus = (x - a - b) % Modulus
      /\ (x + d) % Modulus = (x + a - b) % Modulus
  BY <1>4, <1>5, <1>6
<1>8. Tok!add(x, a) = p /\ Tok!sub(x, a) = m /\ Tok!sub(a, b) = d
  BY DEF Tok!add, Tok!sub, p, m, d
<1>9. /\ Tok!add(p, b) = (p + b) % Modulus /\ Tok!add(m, b) = (m + b) % Modulus
      /\ Tok!sub(p, b) = (p - b) % Modulus /\ Tok!sub(m, b) = (m - b) % Modulus
      /\ Tok!add(x, d) = (x + d) % Modulus
  BY DEF Tok!add, Tok!sub
<1> QED
  BY <1>3, <1>7, <1>8, <1>9

(* A sayable number says itself, *)
LEMMA Sayables == ASSUME NEW x \in Sayable PROVE x % Modulus = x /\ x \in Int
  BY AmountAssumption DEF Sayable

(* and what was added can be taken away. *)
LEMMA AddedAndTaken ==
    ASSUME NEW x \in Sayable, NEW a \in Int
    PROVE  Tok!sub(Tok!add(x, a), a) = x /\ Tok!add(Tok!sub(x, a), a) = x
<1>1. x \in Int /\ x % Modulus = x
  BY Sayables
<1>2. x + a - a = x /\ x - a + a = x
  BY <1>1
<1>3. /\ Tok!sub(Tok!add(x, a), a) = (x + a - a) % Modulus
      /\ Tok!add(Tok!sub(x, a), a) = (x - a + a) % Modulus
  BY <1>1, Twice
<1> QED
  BY <1>1, <1>2, <1>3

-----------------------------------------------------------------------------
(* cis2-multi-royalties: a transfer with a share for the minter *)

(* What is added to a wrapped number *)
LEMMA Wraps ==
    ASSUME NEW y \in Int, NEW z \in Int
    PROVE  /\ Tok!add(y % Modulus, z) = (y + z) % Modulus
           /\ Tok!sub(y % Modulus, z) = (y - z) % Modulus
           /\ y % Modulus \in Int
<1>0. Modulus \in Nat /\ Modulus > 1
  BY AmountAssumption
<1>1. Tok!add(y, 0) = y % Modulus
  <2>1. y + 0 = y
    OBVIOUS
  <2> QED
    BY <2>1 DEF Tok!add
<1>2. Tok!add(Tok!add(y, 0), z) = (y + 0 + z) % Modulus /\ Tok!sub(Tok!add(y, 0), z) = (y + 0 - z) % Modulus
  BY Twice
<1>3. y + 0 + z = y + z /\ y + 0 - z = y - z
  OBVIOUS
<1>4. y % Modulus \in Int
  BY <1>0
<1> QED
  BY <1>1, <1>2, <1>3, <1>4

(* A change of the balance of o *)
At(q, o, t, n) == IF q = <<o, t>> THEN n ELSE 0

Credit(b, o, t, n) == [b EXCEPT ![<<o, t>>] = Tok!add(@, n)]
Debit(b, o, t, n) == [b EXCEPT ![<<o, t>>] = Tok!sub(@, n)]

CreditIs(c, b, o, t, n, A, I) ==
    Balances(c, A, I) /\ \A q \in A \X I : c[q] = Tok!add(b[q], At(q, o, t, n))
DebitIs(c, b, o, t, n, A, I) ==
    Balances(c, A, I) /\ \A q \in A \X I : c[q] = Tok!sub(b[q], At(q, o, t, n))

(* Balances after one of them has changed *)
LEMMA Credited ==
    ASSUME NEW A, NEW I, NEW b, Balances(b, A, I), NEW o \in A, NEW t \in I, NEW n \in Int,
           NEW c, c = Credit(b, o, t, n)
    PROVE  CreditIs(c, b, o, t, n, A, I)
<1>c. c = [b EXCEPT ![<<o, t>>] = Tok!add(@, n)]
  BY DEF Credit
<1>0. b \in [A \X I -> Sayable]
  BY DEF Balances
<1>1. \A x \in Sayable : Tok!add(x, 0) = x /\ x \in Int
  BY AmountAssumption DEF Sayable, Tok!add
<1>2. b[<<o, t>>] \in Sayable
  BY <1>0
<1>3. Tok!add(b[<<o, t>>], n) \in Sayable
  BY <1>1, <1>2, AddSayable
<1>4. c \in [A \X I -> Sayable]
  BY <1>0, <1>3, <1>c
<1>5. ASSUME NEW q \in A \X I PROVE c[q] = Tok!add(b[q], At(q, o, t, n))
  <2>1. b[q] \in Sayable
    BY <1>0
  <2>2. CASE q = <<o, t>>
    BY <1>0, <1>c, <2>2 DEF At
  <2>3. CASE q # <<o, t>>
    BY <1>0, <1>1, <1>c, <2>1, <2>3 DEF At
  <2> QED
    BY <2>2, <2>3
<1> QED
  BY <1>4, <1>5 DEF Balances, CreditIs

LEMMA Debited ==
    ASSUME NEW A, NEW I, NEW b, Balances(b, A, I), NEW o \in A, NEW t \in I, NEW n \in Int,
           NEW c, c = Debit(b, o, t, n)
    PROVE  DebitIs(c, b, o, t, n, A, I)
<1>c. c = [b EXCEPT ![<<o, t>>] = Tok!sub(@, n)]
  BY DEF Debit
<1>0. b \in [A \X I -> Sayable]
  BY DEF Balances
<1>1. \A x \in Sayable : Tok!sub(x, 0) = x /\ x \in Int
  BY AmountAssumption DEF Sayable, Tok!sub
<1>2. b[<<o, t>>] \in Sayable
  BY <1>0
<1>3. Tok!sub(b[<<o, t>>], n) \in Sayable
  BY <1>1, <1>2, AddSayable
<1>4. c \in [A \X I -> Sayable]
  BY <1>0, <1>3, <1>c
<1>5. ASSUME NEW q \in A \X I PROVE c[q] = Tok!sub(b[q], At(q, o, t, n))
  <2>1. b[q] \in Sayable
    BY <1>0
  <2>2. CASE q = <<o, t>>
    BY <1>0, <1>c, <2>2 DEF At
  <2>3. CASE q # <<o, t>>
    BY <1>0, <1>1, <1>c, <2>1, <2>3 DEF At
  <2> QED
    BY <2>2, <2>3
<1> QED
  BY <1>4, <1>5 DEF Balances, DebitIs

(* The balances after a transfer *)
TransferredIs(c, b, t, n, from, to, A, I) ==
    /\ Balances(c, A, I)
    /\ \A q \in A \X I : c[q] = Tok!add(Tok!sub(b[q], At(q, from, t, n)), At(q, to, t, n))

LEMMA TransferredAt ==
    ASSUME NEW A, NEW I, NEW b, Balances(b, A, I), NEW t \in I, NEW n \in Int,
           NEW from \in A, NEW to \in A, NEW c, c = Tok!Transferred(b, t, n, from, to)
    PROVE  TransferredIs(c, b, t, n, from, to, A, I)
<1> DEFINE d == Debit(b, from, t, n)
<1>1. c = Credit(d, to, t, n)
  BY DEF Tok!Transferred, Credit, Debit
<1>2. d = Debit(b, from, t, n)
  OBVIOUS
<1> HIDE DEF d
<1>3. DebitIs(d, b, from, t, n, A, I)
  BY <1>2, Debited
<1>4. CreditIs(c, d, to, t, n, A, I)
  BY <1>1, <1>3, Credited DEF DebitIs
<1> QED
  BY <1>3, <1>4 DEF DebitIs, CreditIs, TransferredIs

(* The sender loses the amount, the minter gets a share and the receiver the  *)
(* rest.                                                                      *)
Split(b, t, amount, share, from, minter, to) ==
    LET debited == [b EXCEPT ![<<from, t>>] = Tok!sub(@, amount)]
        shared  == [debited EXCEPT ![<<minter, t>>] = Tok!add(@, share)]
    IN  [shared EXCEPT ![<<to, t>>] = Tok!add(@, Tok!sub(amount, share))]

SplitIs(c, b, t, n, p, from, minter, to, A, I) ==
    /\ Balances(c, A, I)
    /\ \A q \in A \X I :
         c[q] = Tok!add(Tok!add(Tok!sub(b[q], At(q, from, t, n)), At(q, minter, t, p)),
                        At(q, to, t, Tok!sub(n, p)))

LEMMA SplitAt ==
    ASSUME NEW A, NEW I, NEW b, Balances(b, A, I), NEW t \in I, NEW n \in Int, NEW p \in Int,
           NEW from \in A, NEW minter \in A, NEW to \in A, NEW c, c = Split(b, t, n, p, from, minter, to)
    PROVE  SplitIs(c, b, t, n, p, from, minter, to, A, I)
<1> DEFINE d == Debit(b, from, t, n)
           e == Credit(d, minter, t, p)
           r == Tok!sub(n, p)
<1>0. r \in Int
  BY Wraps, AmountAssumption DEF Tok!sub
<1>1. c = Credit(e, to, t, r)
  BY DEF Split, Credit, Debit
<1>2. d = Debit(b, from, t, n) /\ e = Credit(d, minter, t, p)
  OBVIOUS
<1> HIDE DEF d, e, r
<1>3. DebitIs(d, b, from, t, n, A, I)
  BY <1>2, Debited
<1>4. CreditIs(e, d, minter, t, p, A, I)
  BY <1>2, <1>3, Credited DEF DebitIs
<1>5. CreditIs(c, e, to, t, r, A, I)
  <2>1. Balances(e, A, I)
    BY <1>4 DEF CreditIs
  <2> QED
    BY <1>0, <1>1, <2>1, Credited
<1> QED
  BY <1>3, <1>4, <1>5 DEF DebitIs, CreditIs, SplitIs, r

(* The events of two transfers tell the same, *)
LEMMA SplitTold ==
    ASSUME NEW A, NEW I, NEW b, Balances(b, A, I), NEW t \in I, NEW n \in Int, NEW p \in Int,
           NEW from \in A, NEW minter \in A, NEW to \in A,
           NEW c, c = Split(b, t, n, p, from, minter, to),
           NEW d, d = Tok!Transferred(b, t, p, from, minter),
           NEW e, e = Tok!Transferred(d, t, Tok!sub(n, p), from, to)
    PROVE  e = c
<1> DEFINE r == Tok!sub(n, p)
<1>1. r = (n - p) % Modulus /\ r \in Int /\ n - p \in Int
  BY AmountAssumption DEF Tok!sub
<1>2. e = Tok!Transferred(d, t, r, from, to)
  OBVIOUS
<1>c. SplitIs(c, b, t, n, p, from, minter, to, A, I)
  BY SplitAt
<1>3. Balances(c, A, I)
      /\ \A q \in A \X I :
           c[q] = Tok!add(Tok!add(Tok!sub(b[q], At(q, from, t, n)), At(q, minter, t, p)), At(q, to, t, r))
  BY <1>c DEF SplitIs
<1> HIDE DEF r
<1>d. TransferredIs(d, b, t, p, from, minter, A, I)
  BY TransferredAt
<1>4. /\ Balances(d, A, I)
      /\ \A q \in A \X I : d[q] = Tok!add(Tok!sub(b[q], At(q, from, t, p)), At(q, minter, t, p))
  BY <1>d DEF TransferredIs
<1>e. TransferredIs(e, d, t, r, from, to, A, I)
  BY <1>1, <1>2, <1>4, TransferredAt
<1>5. /\ Balances(e, A, I)
      /\ \A q \in A \X I : e[q] = Tok!add(Tok!sub(d[q], At(q, from, t, r)), At(q, to, t, r))
  BY <1>e DEF TransferredIs
<1>6. ASSUME NEW q \in A \X I PROVE e[q] = c[q]
  <2> DEFINE x == b[q]
             N == At(q, from, t, n)
             P == At(q, minter, t, p)
             R == At(q, to, t, r)
             M == At(q, from, t, p)
             S == At(q, from, t, r)
  <2>1. x \in Int /\ N \in Int /\ P \in Int /\ R \in Int /\ M \in Int /\ S \in Int
    BY <1>1, AmountAssumption DEF At, Balances, Sayable
  <2>2. c[q] = Tok!add(Tok!add(Tok!sub(x, N), P), R)
    BY <1>3
  <2>3. e[q] = Tok!add(Tok!sub(Tok!add(Tok!sub(x, M), P), S), R)
    BY <1>4, <1>5
  <2>4. PICK k \in Int : n - p = Modulus * k + r
    BY <1>1, Quotient
  <2>5. \E j \in Int : N - M - S = Modulus * j
    <3>1. CASE q = <<from, t>>
      <4> DEFINE y == Modulus * k
      <4>1. y \in Int /\ n - p = y + r
        BY <2>4, AmountAssumption
      <4> HIDE DEF y
      <4>2. n - p - r = y
        BY <1>1, <4>1
      <4> QED
        BY <2>4, <3>1, <4>2 DEF y, At
    <3>2. CASE q # <<from, t>>
      <4>1. Modulus * 0 = 0 /\ 0 - 0 - 0 = 0
        BY AmountAssumption
      <4> QED
        BY <3>2, <4>1 DEF At
    <3> QED
      BY <3>1, <3>2
  <2> HIDE DEF x, N, P, R, M, S
  <2>6. PICK j \in Int : N - M - S = Modulus * j
    BY <2>5
  <2>7. Tok!add(Tok!add(Tok!sub(x, N), P), R) = (x - N + P + R) % Modulus
    <3>1. Tok!add(Tok!sub(x, N), P) = (x - N + P) % Modulus /\ x - N + P \in Int
      BY <2>1, Twice
    <3> QED
      BY <2>1, <3>1, Wraps
  <2>8. Tok!add(Tok!sub(Tok!add(Tok!sub(x, M), P), S), R) = (x - M + P - S + R) % Modulus
    <3>1. Tok!add(Tok!sub(x, M), P) = (x - M + P) % Modulus /\ x - M + P \in Int
      BY <2>1, Twice
    <3>2. Tok!sub(Tok!add(Tok!sub(x, M), P), S) = (x - M + P - S) % Modulus /\ x - M + P - S \in Int
      BY <2>1, <3>1, Wraps
    <3> QED
      BY <2>1, <3>2, Wraps
  <2>9. (x - M + P - S + R) % Modulus = (x - N + P + R) % Modulus
    <3> DEFINE y == Modulus * j
               u == x - M + P - S + R
               v == x - N + P + R
    <3>1. y \in Int /\ N - M - S = y
      BY <2>6, AmountAssumption
    <3>2. u \in Int /\ v \in Int
      BY <2>1
    <3>3. u = y + v
      <4> HIDE DEF y
      <4> QED
        BY <2>1, <3>1
    <3> HIDE DEF u, v
    <3>4. u % Modulus = v % Modulus
      BY <3>2, <3>3, Congruent
    <3> QED
      BY <3>4 DEF u, v
  <2> QED
    BY <2>2, <2>3, <2>7, <2>8, <2>9
<1> QED
  BY <1>3, <1>5, <1>6 DEF Balances

(* and so does the one of a transfer without a share. *)
LEMMA WholeTold ==
    ASSUME NEW A, NEW I, NEW b, Balances(b, A, I), NEW t \in I, NEW n \in Int,
           NEW from \in A, NEW minter \in A, NEW to \in A,
           NEW c, c = Split(b, t, n, 0, from, minter, to),
           NEW e, e = Tok!Transferred(b, t, Tok!sub(n, 0), from, to)
    PROVE  e = c
<1>1. Tok!Transferred(b, t, 0, from, minter) = b
  BY NothingTransferred
<1>2. 0 \in Int
  OBVIOUS
<1> QED
  BY <1>1, <1>2, SplitTold

-----------------------------------------------------------------------------
(* cis2-multi-royalties *)

Details == [minter : Everybody, royalty : Nat]

RoyaltiesStates ==
    [balances      : [Everybody \X FungibleIds -> Sayable],
     operators     : [Everybody -> SUBSET Everybody],
     tokens        : SUBSET FungibleIds,
     token_details : [FungibleIds -> Details \cup {None}],
     implementors  : Implementations,
     pay_royalty   : BOOLEAN]

(* A token that exists has its details. *)
RoyaltiesAgree(s, k) ==
    /\ \A t \in s.tokens : s.token_details[t] \in Details
    /\ k.balances = s.balances /\ KnownOperators(s.operators, k.operators, Everybody)
    /\ \A t \in FungibleIds : k.metadata[t] = IF t \in s.tokens THEN t ELSE None

RoyaltiesGood ==
    {w \in [state : RoyaltiesStates, seen : Knowledge(Everybody, FungibleIds)] :
       RoyaltiesAgree(w.state, w.seen)}

RoyaltiesCalls == CallsOK(Everybody, TransfersOf(FungibleIds, Everybody), {<<>>}, RoyaltiesGood)

RoyaltiesInv == Tok!Saved \in RoyaltiesGood /\ RoyaltiesCalls

LEMMA RoyaltiesGoodIs ==
    /\ Tok!Saved \in RoyaltiesGood
         <=> /\ state \in RoyaltiesStates /\ seen \in Knowledge(Everybody, FungibleIds)
             /\ RoyaltiesAgree(state, seen)
    /\ \A w \in RoyaltiesGood : w = [state |-> w.state, seen |-> w.seen]
  BY DEF RoyaltiesGood, Tok!Saved

LEMMA RoyaltiesKept ==
    ASSUME state' \in RoyaltiesStates, seen' \in Knowledge(Everybody, FungibleIds),
           RoyaltiesAgree(state', seen'), RoyaltiesCalls'
    PROVE  RoyaltiesInv'
  BY DEF RoyaltiesInv, RoyaltiesGood, Tok!Saved

LEMMA RoyaltiesDone ==
    ASSUME RoyaltiesInv, state' \in RoyaltiesStates, seen' \in Knowledge(Everybody, FungibleIds),
           RoyaltiesAgree(state', seen'), calls' = calls
    PROVE  RoyaltiesInv'
  BY RoyaltiesKept DEF RoyaltiesInv, RoyaltiesCalls, CallsOK

LEMMA RoyaltiesInit == Royalties!Init => RoyaltiesInv
<1> SUFFICES ASSUME Royalties!Init PROVE RoyaltiesInv
  OBVIOUS
<1>1. seen \in Knowledge(Everybody, FungibleIds)
  BY NothingKnown DEF Royalties!Init, Royalties!NothingSeen, Royalties!Addresses, Everybody
<1>2. state \in RoyaltiesStates
  <2>1. 0 \in Sayable
    BY AmountAssumption DEF Sayable
  <2> QED
    BY <2>1, ImplementationsAre
       DEF Royalties!Init, Royalties!NoImplementors, Royalties!Addresses, Everybody, RoyaltiesStates
<1>3. RoyaltiesAgree(state, seen)
  BY DEF Royalties!Init, Royalties!NothingSeen, Royalties!Addresses, Everybody, RoyaltiesAgree, KnownOperators
<1>4. RoyaltiesCalls
  BY EmptySeq DEF CallsOK, RoyaltiesCalls, Royalties!Init
<1> QED
  BY <1>1, <1>2, <1>3, <1>4, RoyaltiesGoodIs DEF RoyaltiesInv

LEMMA RoyaltiesMint ==
    ASSUME RoyaltiesInv, NEW sender, NEW owner \in Everybody, NEW t \in FungibleIds,
           NEW amount \in MintAmounts, NEW royalty \in Percentages,
           Royalties!contract_mint(sender, owner, t, amount, royalty)
    PROVE  RoyaltiesInv'
<1>1. state \in RoyaltiesStates /\ seen \in Knowledge(Everybody, FungibleIds) /\ RoyaltiesAgree(state, seen)
  BY RoyaltiesGoodIs DEF RoyaltiesInv
<1>a. amount \in Nat /\ royalty \in Nat
  BY AmountAssumption
<1> DEFINE r == [minter |-> owner, royalty |-> royalty]
           m == [state.token_details EXCEPT ![t] = r]
           b == [state.balances EXCEPT ![<<owner, t>>] = Tok!add(@, amount)]
           i == state.tokens \cup {t}
           g == Tok!Heard(seen, Tok!MintEvent(t, amount, owner))
           h == seen'
<1>2. r \in Details
  BY <1>a DEF Details
<1>3. /\ state' = [state EXCEPT !.tokens = i, !.token_details = m, !.balances = b] /\ calls' = calls
      /\ seen' = Told(seen, <<Tok!MintEvent(t, amount, owner), Tok!TokenMetadataEvent(t, t)>>)
  BY RoyaltiesShared DEF Royalties!contract_mint, Royalties!MintEvent, Tok!MintEvent,
       Royalties!TokenMetadataEvent, Tok!TokenMetadataEvent, Royalties!add, Tok!add
<1> HIDE DEF r
<1>4. /\ m \in [FungibleIds -> Details \cup {None}] /\ i \in SUBSET FungibleIds
      /\ \A u \in i : m[u] \in Details
  BY <1>1, <1>2 DEF RoyaltiesStates, RoyaltiesAgree
<1>5. h = Tok!Heard(g, Tok!TokenMetadataEvent(t, t))
  BY <1>3, ToldTwo
<1>6. g \in Knowledge(Everybody, FungibleIds) /\ SaysBalances(seen, g, b)
  <2>1. seen.balances = state.balances
    BY <1>1 DEF RoyaltiesAgree
  <2>2. SaysBalances(seen, g, [seen.balances EXCEPT ![<<owner, t>>] = Tok!add(@, amount)])
        /\ g \in Knowledge(Everybody, FungibleIds)
    BY <1>1, <1>a, HeardMint
  <2> QED
    BY <2>1, <2>2
<1>7. t \in FungibleIds \cup Texts
  OBVIOUS
<1> HIDE DEF g, h, b
<1>8. h \in Knowledge(Everybody, FungibleIds) /\ SaysMetadata(g, h, [g.metadata EXCEPT ![t] = t])
  BY <1>5, <1>6, <1>7, HeardMetadata
<1>9. b \in [Everybody \X FungibleIds -> Sayable]
  BY <1>6 DEF Knowledge, SaysBalances
<1>b. \A u \in FungibleIds : h.metadata[u] = IF u \in i THEN u ELSE None
  <2>1. seen.metadata \in [FungibleIds -> FungibleIds \cup Texts \cup {None}] /\ g.metadata = seen.metadata
    BY <1>1, <1>6 DEF Knowledge, SaysBalances
  <2>2. h.metadata = [seen.metadata EXCEPT ![t] = t]
    BY <1>8, <2>1 DEF SaysMetadata
  <2> QED
    BY <1>1, <2>1, <2>2 DEF RoyaltiesAgree
<1> HIDE DEF m, i
<1>10. /\ state' \in RoyaltiesStates /\ state'.balances = b /\ state'.operators = state.operators
       /\ state'.tokens = i /\ state'.token_details = m
  BY <1>1, <1>3, <1>4, <1>9 DEF RoyaltiesStates
<1>11. RoyaltiesAgree(state', h)
  BY <1>1, <1>4, <1>6, <1>8, <1>10, <1>b DEF RoyaltiesAgree, SaysBalances, SaysMetadata
<1> QED
  BY <1>3, <1>8, <1>10, <1>11, RoyaltiesDone DEF h

LEMMA RoyaltiesUpdateOperator ==
    ASSUME RoyaltiesInv, NEW sender \in Everybody, NEW operator \in Operators, NEW update,
           Royalties!contract_update_operator(sender, operator, update)
    PROVE  RoyaltiesInv'
<1>1. state \in RoyaltiesStates /\ seen \in Knowledge(Everybody, FungibleIds) /\ RoyaltiesAgree(state, seen)
  BY RoyaltiesGoodIs DEF RoyaltiesInv
<1> DEFINE o == [state.operators EXCEPT ![sender] = Tok!Updated(@, operator, update)]
           h == seen'
<1>2. operator \in Everybody
  BY AddressAssumption DEF Everybody
<1>3. state' = [state EXCEPT !.operators = o] /\ calls' = calls
      /\ seen' = Told(seen, <<Tok!UpdateOperatorEvent(sender, operator, update)>>)
  BY RoyaltiesShared DEF Royalties!contract_update_operator, Royalties!Updated, Tok!Updated,
       Royalties!UpdateOperatorEvent, Tok!UpdateOperatorEvent
<1>4. h = Tok!Heard(seen, Tok!UpdateOperatorEvent(sender, operator, update))
  BY <1>3, ToldOne
<1> HIDE DEF h
<1>5. h \in Knowledge(Everybody, FungibleIds)
      /\ SaysOperators(seen, h, Tok!Updated(seen.operators, <<sender, operator>>, update))
  BY <1>1, <1>2, <1>4, HeardOperator
<1>6. o \in [Everybody -> SUBSET Everybody] /\ KnownOperators(o, h.operators, Everybody)
  <2>1. state.operators \in [Everybody -> SUBSET Everybody] /\ KnownOperators(state.operators, seen.operators, Everybody)
    BY <1>1 DEF RoyaltiesStates, RoyaltiesAgree
  <2>2. o \in [Everybody -> SUBSET Everybody]
        /\ KnownOperators(o, Tok!Updated(seen.operators, <<sender, operator>>, update), Everybody)
    BY <1>2, <2>1, OperatorsKnown
  <2>3. h.operators = Tok!Updated(seen.operators, <<sender, operator>>, update)
    BY <1>5 DEF SaysOperators
  <2> HIDE DEF o
  <2> QED
    BY <2>2, <2>3
<1> HIDE DEF o
<1>7. state' \in RoyaltiesStates /\ RoyaltiesAgree(state', h)
  BY <1>1, <1>3, <1>5, <1>6 DEF RoyaltiesStates, RoyaltiesAgree, SaysOperators
<1> QED
  BY <1>3, <1>5, <1>7, RoyaltiesDone DEF h

LEMMA RoyaltiesOthers ==
    ASSUME RoyaltiesInv, NEW sender \in Everybody,
           \/ \E imp \in Implementors : Royalties!contract_set_implementor(sender, imp[1], imp[2])
           \/ \E batch \in RoyaltyBatches : Royalties!contract_transfer(sender, batch)
    PROVE  RoyaltiesInv'
<1>1. state \in RoyaltiesStates /\ seen \in Knowledge(Everybody, FungibleIds) /\ RoyaltiesAgree(state, seen)
  BY RoyaltiesGoodIs DEF RoyaltiesInv
<1>2. ASSUME NEW imp \in Implementors, Royalties!contract_set_implementor(sender, imp[1], imp[2])
      PROVE  RoyaltiesInv'
  <2> DEFINE m == [state.implementors EXCEPT ![imp[1]] = imp[2]]
  <2>1. m \in Implementations
    BY <1>1, ImplementationsAre DEF RoyaltiesStates
  <2>2. state' = [state EXCEPT !.implementors = m] /\ seen' = seen /\ calls' = calls
    BY <1>2 DEF Royalties!contract_set_implementor
  <2> HIDE DEF m
  <2> QED
    BY <1>1, <2>1, <2>2, RoyaltiesDone DEF RoyaltiesStates, RoyaltiesAgree
<1>3. ASSUME NEW batch \in RoyaltyBatches, Royalties!contract_transfer(sender, batch)
      PROVE  RoyaltiesInv'
  <2>1. batch \in Seq(TransfersOf(FungibleIds, Everybody)) /\ batch # <<>>
    BY BatchAssumption DEF BatchesOf, TransfersOf, Everybody
  <2>2. Tok!StartsBatch(sender, batch, <<>>) /\ UNCHANGED <<state, seen>>
    BY <1>3, RoyaltiesShared DEF Royalties!contract_transfer
  <2> QED
    BY <2>1, <2>2, StartsOK DEF RoyaltiesInv, RoyaltiesCalls, Tok!Saved
<1> QED
  BY <1>2, <1>3

(* A share is a number. *)
LEMMA PaymentIs ==
    ASSUME RoyaltiesInv, NEW t, t.amount \in Nat, t.token_id \in state.tokens
    PROVE  /\ Royalties!payment(t) \in Nat /\ Royalties!royalty_receiver(t) \in Everybody
           /\ ~ state.pay_royalty => Royalties!payment(t) = 0
<1>1. state.token_details[t.token_id] \in Details
  BY RoyaltiesGoodIs DEF RoyaltiesInv, RoyaltiesAgree
<1> DEFINE p == t.amount * state.token_details[t.token_id].royalty
<1>2. p \in Nat
  BY <1>1 DEF Details
<1>3. Royalties!Product(t) = p
  BY DEF Royalties!Product
<1> HIDE DEF p
<1>4. p \div 100 \in Nat
  BY <1>2
<1> QED
  BY <1>1, <1>3, <1>4 DEF Royalties!payment, Royalties!royalty_receiver, Details

(* What the events of a transfer tell *)
LEMMA RoyaltiesTold ==
    ASSUME RoyaltiesInv, NEW t, t \in TransfersOf(FungibleIds, Everybody), t.token_id \in state.tokens,
           NEW h, h = Told(seen, Royalties!Events(t))
    PROVE  /\ h \in Knowledge(Everybody, FungibleIds)
           /\ SaysBalances(seen, h, Split(state.balances, t.token_id, t.amount, Royalties!payment(t),
                                          t.from, Royalties!royalty_receiver(t), t.to))
<1> DEFINE p == Royalties!payment(t)
           m == Royalties!royalty_receiver(t)
           r == Tok!sub(t.amount, p)
           e == [t EXCEPT !.amount = p, !.to = m]
           f == [t EXCEPT !.amount = r]
           c == Split(state.balances, t.token_id, t.amount, p, t.from, m, t.to)
<1>1. state \in RoyaltiesStates /\ seen \in Knowledge(Everybody, FungibleIds) /\ RoyaltiesAgree(state, seen)
  BY RoyaltiesGoodIs DEF RoyaltiesInv
<1>2. t.token_id \in FungibleIds /\ t.amount \in Nat /\ t.from \in Everybody /\ t.to \in Everybody
  BY DEF TransfersOf
<1>3. p \in Nat /\ m \in Everybody /\ (~ state.pay_royalty => p = 0)
  BY <1>2, PaymentIs
<1>4. r \in Int
  <2>1. t.amount \in Int /\ p \in Int
    BY <1>2, <1>3
  <2> HIDE DEF p
  <2>2. r \in Sayable
    BY <2>1, AddSayable
  <2> HIDE DEF r
  <2> QED
    BY <2>2, Sayables
<1>5. seen.balances = state.balances /\ Balances(state.balances, Everybody, FungibleIds)
  BY <1>1 DEF RoyaltiesStates, RoyaltiesAgree, Balances
<1>6. Royalties!Events(t) = IF state.pay_royalty THEN <<Tok!TransferEvent(e), Tok!TransferEvent(f)>>
                            ELSE <<Tok!TransferEvent(f)>>
  <2> DEFINE x == Tok!TransferEvent(e)
             y == Tok!TransferEvent(f)
  <2>1. Royalties!Events(t) = (IF state.pay_royalty THEN <<x>> ELSE <<>>) \o <<y>>
    BY DEF Royalties!Events, Royalties!TransferEvent, Tok!TransferEvent, Royalties!sub, Tok!sub
  <2> HIDE DEF x, y
  <2>2. <<x>> \o <<y>> = <<x, y>> /\ <<>> \o <<y>> = <<y>>
    BY Joined
  <2>3. Royalties!Events(t) = IF state.pay_royalty THEN <<x, y>> ELSE <<y>>
    BY <2>1, <2>2
  <2> QED
    BY <2>3 DEF x, y
<1>7. /\ e.token_id = t.token_id /\ e.amount = p /\ e.from = t.from /\ e.to = m
      /\ f.token_id = t.token_id /\ f.amount = r /\ f.from = t.from /\ f.to = t.to
  BY DEF TransfersOf
<1>8. c = Split(state.balances, t.token_id, t.amount, p, t.from, m, t.to) /\ r = Tok!sub(t.amount, p)
  OBVIOUS
<1> HIDE DEF p, m, r, e, f, c
<1>9. ASSUME state.pay_royalty PROVE h \in Knowledge(Everybody, FungibleIds) /\ SaysBalances(seen, h, c)
  <2> DEFINE g == Tok!Heard(seen, Tok!TransferEvent(e))
             d == Tok!Transferred(state.balances, t.token_id, p, t.from, m)
  <2>1. h = Tok!Heard(g, Tok!TransferEvent(f))
    BY <1>6, <1>9, ToldTwo
  <2>2. g \in Knowledge(Everybody, FungibleIds) /\ SaysBalances(seen, g, d)
    BY <1>1, <1>2, <1>3, <1>5, <1>7, HeardTransfer
  <2>3. d = Tok!Transferred(state.balances, t.token_id, p, t.from, m)
    OBVIOUS
  <2> HIDE DEF g, d
  <2>4. /\ h \in Knowledge(Everybody, FungibleIds)
        /\ SaysBalances(g, h, Tok!Transferred(g.balances, t.token_id, r, t.from, t.to))
    BY <1>2, <1>4, <1>7, <2>1, <2>2, HeardTransfer
  <2> DEFINE v == Tok!Transferred(d, t.token_id, r, t.from, t.to)
  <2>5. v = c
    BY <1>2, <1>3, <1>5, <1>8, <2>3, SplitTold
  <2> QED
    BY <2>2, <2>4, <2>5 DEF SaysBalances
<1>10. ASSUME ~ state.pay_royalty PROVE h \in Knowledge(Everybody, FungibleIds) /\ SaysBalances(seen, h, c)
  <2>1. h = Tok!Heard(seen, Tok!TransferEvent(f))
    BY <1>6, <1>10, ToldOne
  <2>2. /\ h \in Knowledge(Everybody, FungibleIds)
        /\ SaysBalances(seen, h, Tok!Transferred(state.balances, t.token_id, r, t.from, t.to))
    BY <1>1, <1>2, <1>4, <1>5, <1>7, <2>1, HeardTransfer
  <2>3. c = Split(state.balances, t.token_id, t.amount, 0, t.from, m, t.to) /\ r = Tok!sub(t.amount, 0)
    BY <1>3, <1>8, <1>10
  <2> DEFINE v == Tok!Transferred(state.balances, t.token_id, r, t.from, t.to)
  <2>4. v = c
    BY <1>2, <1>3, <1>5, <2>3, WholeTold
  <2> QED
    BY <2>2, <2>4
<1> QED
  BY <1>9, <1>10 DEF c, p, m

LEMMA RoyaltiesMoves ==
    ASSUME RoyaltiesInv,
           Royalties!NextTransfer(Royalties!Accepts(Royalties!Top.sender, Royalties!Upcoming),
                                  Royalties!Moved(Royalties!Upcoming), Royalties!Events(Royalties!Upcoming))
    PROVE  RoyaltiesInv'
<1> DEFINE t == Tok!Upcoming
           T == TransfersOf(FungibleIds, Everybody)
           c == Split(state.balances, t.token_id, t.amount, Royalties!payment(t), t.from,
                      Royalties!royalty_receiver(t), t.to)
           h == seen'
<1>1. /\ state \in RoyaltiesStates /\ seen \in Knowledge(Everybody, FungibleIds) /\ RoyaltiesAgree(state, seen)
      /\ CallsOK(Everybody, T, {<<>>}, RoyaltiesGood)
  BY RoyaltiesGoodIs DEF RoyaltiesInv, RoyaltiesCalls
<1>2. /\ calls # <<>> /\ Tok!Top.hook = None
      /\ \/ Royalties!Accepts(Tok!Top.sender, t) /\ Moves(Royalties!Moved(t), Royalties!Events(t))
         \/ Tok!Rejects
  BY RoyaltiesTransfers
<1>3. CASE Tok!Rejects
  BY <1>2, <1>3, CallingOK, RoyaltiesGoodIs DEF RoyaltiesInv, RoyaltiesCalls
<1>4. CASE Royalties!Accepts(Tok!Top.sender, t) /\ Moves(Royalties!Moved(t), Royalties!Events(t))
  <2>1. t \in T /\ Tok!Top.last = <<>>
    BY <1>1, <1>2, UpcomingOK
  <2>2. t.token_id \in state.tokens
    BY <1>4 DEF Royalties!Accepts, Royalties!contains_token
  <2>3. CallsOK(Everybody, T, {<<>>}, RoyaltiesGood)'
    BY <1>1, <1>2, <1>4, MovesOK, AddressAssumption
  <2>4. h = Told(seen, Royalties!Events(t))
    <3> DEFINE es == Royalties!Events(t)
    <3>1. h = Told(seen, es \o <<>>)
      BY <1>4, <2>1 DEF Moves
    <3>2. \E x, y : es = <<x, y>> \/ es = <<y>>
      <4> DEFINE x == Royalties!TransferEvent([t EXCEPT !.amount = Royalties!payment(t),
                                                        !.to = Royalties!royalty_receiver(t)])
                 y == Royalties!TransferEvent([t EXCEPT !.amount = Royalties!sub(t.amount, Royalties!payment(t))])
      <4>1. es = (IF state.pay_royalty THEN <<x>> ELSE <<>>) \o <<y>>
        BY DEF Royalties!Events
      <4> HIDE DEF x, y, es
      <4>2. <<x>> \o <<y>> = <<x, y>> /\ <<>> \o <<y>> = <<y>>
        BY Joined
      <4> QED
        BY <4>1, <4>2
    <3> HIDE DEF es
    <3>3. es \o <<>> = es
      <4> PICK x, y : es = <<x, y>> \/ es = <<y>>
        BY <3>2
      <4>1. <<x, y>> \o <<>> = <<x, y>> /\ <<y>> \o <<>> = <<y>>
        BY Joined
      <4> QED
        BY <4>1
    <3> QED
      BY <3>1, <3>3 DEF es
  <2>5. state' = [state EXCEPT !.balances = c]
    BY <1>4 DEF Moves, Royalties!Moved, Split, Royalties!add, Tok!add, Royalties!sub, Tok!sub
  <2>6. h \in Knowledge(Everybody, FungibleIds) /\ SaysBalances(seen, h, c)
    <3> HIDE DEF t
    <3> QED
      BY <2>1, <2>2, <2>4, RoyaltiesTold
  <2> HIDE DEF h, c
  <2>7. c \in [Everybody \X FungibleIds -> Sayable]
    BY <2>6 DEF Knowledge, SaysBalances
  <2>8. state' \in RoyaltiesStates /\ RoyaltiesAgree(state', h)
    BY <1>1, <2>5, <2>6, <2>7 DEF RoyaltiesStates, RoyaltiesAgree, SaysBalances
  <2> QED
    BY <2>3, <2>6, <2>8, RoyaltiesKept DEF RoyaltiesCalls, h
<1> QED
  BY <1>2, <1>3, <1>4

LEMMA RoyaltiesNext == ASSUME RoyaltiesInv, Royalties!Next PROVE RoyaltiesInv'
<1>1. ASSUME NEW sender \in Everybody,
             \/ \E owner \in Everybody, t \in FungibleIds, amount \in MintAmounts, r \in Percentages :
                   Royalties!contract_mint(sender, owner, t, amount, r)
             \/ \E operator \in Operators, update \in {"add", "remove"} :
                   Royalties!contract_update_operator(sender, operator, update)
      PROVE  RoyaltiesInv'
  BY <1>1, RoyaltiesMint, RoyaltiesUpdateOperator
<1>2. ASSUME Royalties!HookReturns \/ Royalties!HookRejects PROVE RoyaltiesInv'
  BY <1>2, RoyaltiesShared, CallingOK, RoyaltiesGoodIs DEF RoyaltiesInv, RoyaltiesCalls
<1> QED
  BY <1>1, <1>2, RoyaltiesOthers, RoyaltiesMoves DEF Royalties!Next, Royalties!Addresses, Everybody

LEMMA RoyaltiesLogTells == RoyaltiesInv => Royalties!LogTellsState
<1> SUFFICES ASSUME RoyaltiesInv PROVE Royalties!LogTellsState
  OBVIOUS
<1>1. RoyaltiesAgree(state, seen) /\ state \in RoyaltiesStates
  BY RoyaltiesGoodIs DEF RoyaltiesInv
<1>2. Royalties!TellsBalances(state.tokens, Royalties!contract_balance_of)
  BY <1>1 DEF RoyaltiesAgree, Royalties!TellsBalances, Royalties!contract_balance_of, Royalties!balance
<1>3. Royalties!TellsOperators(Royalties!contract_operator_of)
  BY <1>1 DEF RoyaltiesAgree, KnownOperators, Royalties!TellsOperators, Royalties!contract_operator_of,
       Royalties!is_operator, Royalties!Addresses, Everybody
<1>4. \A t \in FungibleIds : Royalties!contract_token_metadata(t) = seen.metadata[t]
  BY <1>1 DEF RoyaltiesAgree, Royalties!contract_token_metadata, Royalties!contains_token
<1> QED
  BY <1>2, <1>3, <1>4 DEF Royalties!LogTellsState

-----------------------------------------------------------------------------
(* cis2-wccd *)

(* Funds of those in S that add up to n, of the CCD that there is *)
Funds(f, S, n) ==
    f \in [S -> Sayable] /\ SumOf(f, S) = n /\ n \in Nat /\ n <= MaxCcd

FundsCredit(f, o, a) == [f EXCEPT ![o] = Tok!add(@, a)]
FundsDebit(f, o, a) == [f EXCEPT ![o] = Tok!sub(@, a)]

(* Nobody has more than there is, *)
LEMMA FundsPart ==
    ASSUME NEW S, IsFiniteSet(S), NEW f, NEW n, Funds(f, S, n), NEW o \in S
    PROVE  f[o] \in Nat /\ f[o] <= n
<1>1. f \in [S -> Nat] /\ f \in [S -> Int] /\ SumOf(f, S) = n /\ n \in Nat
  BY AmountAssumption DEF Funds, Sayable
<1> DEFINE g == [f EXCEPT ![o] = 0]
<1>2. g \in [S -> Nat] /\ g \in [S -> Int] /\ g[o] = 0 /\ \A y \in S : y # o => g[y] = f[y]
  BY <1>1
<1> HIDE DEF g
<1>3. SumOf(g, S) \in Nat
  BY <1>2, SumOfNat
<1>4. SumOf(g, S) = SumOf(f, S) + (g[o] - f[o])
  BY <1>1, <1>2, SumOfChange
<1>5. f[o] \in Nat
  BY <1>1
<1> QED
  BY <1>1, <1>2, <1>3, <1>4, <1>5

(* so that nothing wraps when it becomes more *)
LEMMA FundsMore ==
    ASSUME NEW S, IsFiniteSet(S), NEW f, NEW n, Funds(f, S, n), NEW o \in S, NEW a \in Nat, n + a <= MaxCcd
    PROVE  Funds(FundsCredit(f, o, a), S, n + a)
<1> DEFINE g == FundsCredit(f, o, a)
<1>0. Modulus \in Nat /\ MaxCcd \in Nat /\ MaxCcd < Modulus
  BY AmountAssumption
<1>1. f \in [S -> Sayable] /\ f \in [S -> Int] /\ SumOf(f, S) = n /\ n \in Nat
  BY <1>0 DEF Funds, Sayable
<1>2. f[o] \in Nat /\ f[o] + a < Modulus
  <2>1. f[o] \in Nat /\ f[o] <= n
    BY FundsPart
  <2> QED
    BY <1>0, <1>1, <2>1
<1>3. Tok!add(f[o], a) = f[o] + a /\ f[o] + a \in Sayable
  <2> DEFINE x == f[o] + a
  <2>1. x \in Sayable
    BY <1>0, <1>2 DEF Sayable
  <2>2. x % Modulus = x
    <3> HIDE DEF x
    <3> QED
      BY <2>1, Sayables
  <2> QED
    BY <2>1, <2>2 DEF Tok!add
<1>4. g \in [S -> Sayable] /\ g[o] = f[o] + a /\ \A y \in S : y # o => g[y] = f[y]
  BY <1>1, <1>3 DEF FundsCredit
<1> HIDE DEF g
<1>5. g \in [S -> Int]
  BY <1>0, <1>4 DEF Sayable
<1>6. SumOf(g, S) = SumOf(f, S) + (g[o] - f[o])
  BY <1>1, <1>4, <1>5, SumOfChange
<1>7. SumOf(g, S) = n + a /\ n + a \in Nat
  BY <1>1, <1>2, <1>4, <1>6
<1>8. Funds(g, S, n + a)
  BY <1>4, <1>7 DEF Funds
<1> QED
  BY <1>8 DEF g

(* or less. *)
LEMMA FundsLess ==
    ASSUME NEW S, IsFiniteSet(S), NEW f, NEW n, Funds(f, S, n), NEW o \in S, NEW a \in Nat, f[o] >= a
    PROVE  Funds(FundsDebit(f, o, a), S, n - a)
<1> DEFINE g == FundsDebit(f, o, a)
<1>0. Modulus \in Nat /\ MaxCcd \in Nat /\ MaxCcd < Modulus
  BY AmountAssumption
<1>1. f \in [S -> Sayable] /\ f \in [S -> Int] /\ SumOf(f, S) = n /\ n \in Nat /\ n <= MaxCcd
  BY <1>0 DEF Funds, Sayable
<1>2. f[o] \in Nat /\ f[o] <= n
  BY FundsPart
<1>3. Tok!sub(f[o], a) = f[o] - a /\ f[o] - a \in Sayable
  <2> DEFINE x == f[o] - a
  <2>1. x \in Sayable
    BY <1>0, <1>1, <1>2 DEF Sayable
  <2>2. x % Modulus = x
    <3> HIDE DEF x
    <3> QED
      BY <2>1, Sayables
  <2> QED
    BY <2>1, <2>2 DEF Tok!sub
<1>4. g \in [S -> Sayable] /\ g[o] = f[o] - a /\ \A y \in S : y # o => g[y] = f[y]
  BY <1>1, <1>3 DEF FundsDebit
<1> HIDE DEF g
<1>5. g \in [S -> Int]
  BY <1>0, <1>4 DEF Sayable
<1>6. SumOf(g, S) = SumOf(f, S) + (g[o] - f[o])
  BY <1>1, <1>4, <1>5, SumOfChange
<1>7. SumOf(g, S) = n - a /\ n - a \in Nat /\ n - a <= MaxCcd
  BY <1>0, <1>1, <1>2, <1>4, <1>6
<1>8. Funds(g, S, n - a)
  BY <1>4, <1>7 DEF Funds
<1> QED
  BY <1>8 DEF g

(* The balances of a token w that are known are those of f. *)
KnownFunds(f, b, A, w) ==
    f \in [A -> Sayable] /\ Balances(b, A, {w}) /\ \A a \in A : f[a] = b[<<a, w>>]

LEMMA KnownMore ==
    ASSUME NEW A, NEW w, NEW f, NEW b, KnownFunds(f, b, A, w), NEW o \in A, NEW a \in Int
    PROVE  KnownFunds(FundsCredit(f, o, a), Credit(b, o, w, a), A, w)
<1> DEFINE g == FundsCredit(f, o, a)
           c == Credit(b, o, w, a)
<1>1. f \in [A -> Sayable] /\ Balances(b, A, {w}) /\ \A x \in A : f[x] = b[<<x, w>>]
  BY DEF KnownFunds
<1>2. b \in [A \X {w} -> Sayable]
  BY <1>1 DEF Balances
<1>3. Tok!add(f[o], a) \in Sayable
  <2>1. f[o] \in Sayable
    BY <1>1
  <2>2. f[o] \in Int
    BY <2>1, Sayables
  <2> QED
    BY <2>2, AddSayable
<1>4. g \in [A -> Sayable]
  BY <1>1, <1>3 DEF FundsCredit
<1>5. c = [b EXCEPT ![<<o, w>>] = Tok!add(f[o], a)]
  BY <1>1, <1>2 DEF Credit
<1>6. c \in [A \X {w} -> Sayable] /\ \A x \in A : g[x] = c[<<x, w>>]
  BY <1>1, <1>2, <1>3, <1>5 DEF FundsCredit
<1> QED
  BY <1>4, <1>6 DEF KnownFunds, Balances

LEMMA KnownLess ==
    ASSUME NEW A, NEW w, NEW f, NEW b, KnownFunds(f, b, A, w), NEW o \in A, NEW a \in Int
    PROVE  KnownFunds(FundsDebit(f, o, a), Debit(b, o, w, a), A, w)
<1> DEFINE g == FundsDebit(f, o, a)
           c == Debit(b, o, w, a)
<1>1. f \in [A -> Sayable] /\ Balances(b, A, {w}) /\ \A x \in A : f[x] = b[<<x, w>>]
  BY DEF KnownFunds
<1>2. b \in [A \X {w} -> Sayable]
  BY <1>1 DEF Balances
<1>3. Tok!sub(f[o], a) \in Sayable
  <2>1. f[o] \in Sayable
    BY <1>1
  <2>2. f[o] \in Int
    BY <2>1, Sayables
  <2> QED
    BY <2>2, AddSayable
<1>4. g \in [A -> Sayable]
  BY <1>1, <1>3 DEF FundsDebit
<1>5. c = [b EXCEPT ![<<o, w>>] = Tok!sub(f[o], a)]
  BY <1>1, <1>2 DEF Debit
<1>6. c \in [A \X {w} -> Sayable] /\ \A x \in A : g[x] = c[<<x, w>>]
  BY <1>1, <1>2, <1>3, <1>5 DEF FundsDebit
<1> QED
  BY <1>4, <1>6 DEF KnownFunds, Balances

(* What was minted for one and transferred was minted for the other. *)
LEMMA MintedAndMoved ==
    ASSUME NEW A, NEW w, NEW b, Balances(b, A, {w}), NEW o \in A, NEW p \in A, NEW a \in Int
    PROVE  Tok!Transferred(Credit(b, o, w, a), w, a, o, p) = Credit(b, p, w, a)
<1> DEFINE c == Credit(b, o, w, a)
           d == [c EXCEPT ![<<o, w>>] = Tok!sub(@, a)]
<1>1. b \in [A \X {w} -> Sayable] /\ <<o, w>> \in A \X {w}
  BY DEF Balances
<1>2. b[<<o, w>>] \in Sayable
  BY <1>1
<1>3. Tok!sub(Tok!add(b[<<o, w>>], a), a) = b[<<o, w>>]
  BY <1>2, AddedAndTaken
<1>4. d = b
  <2> DEFINE q == <<o, w>>
             x == Tok!add(b[q], a)
  <2>1. c = [b EXCEPT ![q] = x]
    BY DEF Credit
  <2>2. Tok!sub(x, a) = b[q] /\ q \in A \X {w}
    BY <1>1, <1>3
  <2> HIDE DEF x, c
  <2>3. d = [c EXCEPT ![q] = Tok!sub(@, a)]
    OBVIOUS
  <2> HIDE DEF q
  <2> QED
    BY <1>1, <2>1, <2>2, <2>3
<1>5. Tok!Transferred(c, w, a, o, p) = [d EXCEPT ![<<p, w>>] = Tok!add(@, a)]
  BY DEF Tok!Transferred
<1> HIDE DEF c, d
<1>6. Tok!Transferred(c, w, a, o, p) = Credit(b, p, w, a)
  BY <1>4, <1>5 DEF Credit
<1> QED
  BY <1>6 DEF c

(* A new admin is told. *)
SaysAdmin(s, h, a) ==
    /\ h.admin = a /\ h.balances = s.balances /\ h.operators = s.operators /\ h.metadata = s.metadata
    /\ h.roles = s.roles /\ h.blacklist = s.blacklist /\ h.nonces = s.nonces /\ h.replayed = s.replayed

LEMMA HeardAdmin ==
    ASSUME NEW A, NEW I, NEW s \in Knowledge(A, I), NEW a \in A,
           NEW h, h = Tok!Heard(s, Tok!NewAdminEvent(a))
    PROVE  h \in Knowledge(A, I) /\ SaysAdmin(s, h, a)
<1> DEFINE e == Tok!NewAdminEvent(a)
<1>1. h = [s EXCEPT !.admin = e.admin]
  BY DEF Tok!Heard, Tok!NewAdminEvent
<1>2. e.admin = a
  BY DEF Tok!NewAdminEvent
<1> HIDE DEF e
<1>3. h = [s EXCEPT !.admin = a]
  BY <1>1, <1>2
<1> QED
  BY <1>3 DEF Knowledge, SaysAdmin

(* Everybody is somebody of finitely many. *)
LEMMA EverybodyFinite == IsFiniteSet(Everybody)
  BY AddressAssumption, FS_Union DEF Everybody

WccdIds == {"wCCD"}

WccdStates ==
    [balances     : [Everybody -> Sayable],
     operators    : [Everybody -> SUBSET Everybody],
     admin        : Everybody,
     paused       : BOOLEAN,
     metadata_url : Texts,
     implementors : Implementations,
     self_balance : Nat]

WccdAgree(s, k) ==
    /\ Funds(s.balances, Everybody, s.self_balance)
    /\ KnownFunds(s.balances, k.balances, Everybody, "wCCD")
    /\ KnownOperators(s.operators, k.operators, Everybody)
    /\ k.metadata["wCCD"] = s.metadata_url
    /\ k.admin = s.admin

WccdGood ==
    {w \in [state : WccdStates, seen : Knowledge(Everybody, WccdIds)] : WccdAgree(w.state, w.seen)}

WccdCalls == CallsOK(Everybody, TransfersOf(WccdIds, Everybody), {<<>>}, WccdGood)

WccdInv == Tok!Saved \in WccdGood /\ WccdCalls

LEMMA WccdGoodIs ==
    /\ Tok!Saved \in WccdGood
         <=> state \in WccdStates /\ seen \in Knowledge(Everybody, WccdIds) /\ WccdAgree(state, seen)
    /\ \A w \in WccdGood : w = [state |-> w.state, seen |-> w.seen]
  BY DEF WccdGood, Tok!Saved

LEMMA WccdKept ==
    ASSUME state' \in WccdStates, seen' \in Knowledge(Everybody, WccdIds), WccdAgree(state', seen'), WccdCalls'
    PROVE  WccdInv'
  BY DEF WccdInv, WccdGood, Tok!Saved

LEMMA WccdDone ==
    ASSUME WccdInv, state' \in WccdStates, seen' \in Knowledge(Everybody, WccdIds),
           WccdAgree(state', seen'), calls' = calls
    PROVE  WccdInv'
  BY WccdKept DEF WccdInv, WccdCalls, CallsOK

(* The same after an entrypoint that ends with a call *)
LEMMA WccdEnds ==
    ASSUME WccdInv, state' \in WccdStates, seen' \in Knowledge(Everybody, WccdIds),
           WccdAgree(state', seen'), NEW sender \in Everybody, NEW receiver,
           Tok!EndsCalling(sender, receiver)
    PROVE  WccdInv'
<1>1. WccdCalls'
  <2>1. CallsOK(Everybody, TransfersOf(WccdIds, Everybody), {<<>>}, WccdGood) /\ Tok!Saved \in WccdGood
    BY DEF WccdInv, WccdCalls
  <2>2. <<>> \in {<<>>} /\ None \notin Contracts
    BY AddressAssumption
  <2> QED
    BY <2>1, <2>2, EndsCallingOK DEF WccdCalls
<1> QED
  BY <1>1, WccdKept

LEMMA WccdInit == Wccd!Init => WccdInv
<1> SUFFICES ASSUME Wccd!Init PROVE WccdInv
  OBVIOUS
<1> DEFINE k == Wccd!NothingSeen
           w == "wCCD"
           u == "url1"
           f == Tok!Heard(k, Tok!MintEvent(w, 0, Owner))
           g == Tok!Heard(f, Tok!TokenMetadataEvent(w, u))
           h == Tok!Heard(g, Tok!NewAdminEvent(Owner))
           z == [a \in Everybody |-> 0]
<1>1. k \in Knowledge(Everybody, WccdIds)
  BY NothingKnown DEF Wccd!NothingSeen, Wccd!Addresses, Everybody, WccdIds
<1>2. seen = h
  <2>1. seen = Told(k, <<Tok!MintEvent(w, 0, Owner), Tok!TokenMetadataEvent(w, u), Tok!NewAdminEvent(Owner)>>)
    BY DEF Wccd!Init, Told, Wccd!Heard, Tok!Heard, Wccd!Transferred, Tok!Transferred, Wccd!add,
           Wccd!sub, Tok!add, Tok!sub, Wccd!Updated, Tok!Updated, Wccd!Told, Tok!Told,
           Wccd!MapThenFoldSet, Tok!MapThenFoldSet, Wccd!Latest, Tok!Latest, Wccd!MintEvent, Tok!MintEvent,
           Wccd!TokenMetadataEvent, Tok!TokenMetadataEvent, Wccd!NewAdminEvent, Tok!NewAdminEvent,
           Wccd!TOKEN_ID_WCCD
  <2> QED
    BY <2>1, ToldThree
<1>3. u \in Texts /\ Owner \in Everybody /\ w \in WccdIds
  BY AddressAssumption DEF Texts, Everybody, WccdIds
<1>4. /\ k.balances = [q \in Everybody \X WccdIds |-> 0] /\ k.operators = {}
      /\ k.metadata = [t \in WccdIds |-> None]
  BY DEF Wccd!NothingSeen, Wccd!Addresses, Everybody, WccdIds
<1>5. /\ state.balances = z /\ state.operators = [a \in Everybody |-> {}] /\ state.admin = Owner
      /\ state.paused = FALSE /\ state.metadata_url = u /\ state.self_balance = 0 /\ calls = <<>>
      /\ state.implementors = [i \in {imp[1] : imp \in Implementors} |-> {}]
  BY DEF Wccd!Init, Wccd!Addresses, Everybody, Wccd!NoImplementors
<1>6. state \in WccdStates
  <2>1. state \in [balances     : {state.balances},
                   operators    : {state.operators},
                   admin        : {state.admin},
                   paused       : {state.paused},
                   metadata_url : {state.metadata_url},
                   implementors : {state.implementors},
                   self_balance : {state.self_balance}]
    BY DEF Wccd!Init
  <2>2. 0 \in Sayable
    BY AmountAssumption DEF Sayable
  <2> HIDE DEF u
  <2>3. state.balances \in [Everybody -> Sayable]
    BY <1>5, <2>2
  <2>4. state.operators \in [Everybody -> SUBSET Everybody] /\ state.admin \in Everybody
        /\ state.metadata_url \in Texts
    BY <1>3, <1>5
  <2>5. state.paused \in BOOLEAN
    BY <1>5
  <2>6. state.implementors \in Implementations
    BY <1>5, ImplementationsAre
  <2>7. state.self_balance \in Nat
    BY <1>5
  <2> QED
    BY <2>1, <2>3, <2>4, <2>5, <2>6, <2>7 DEF WccdStates
<1> HIDE DEF k, u, w
<1>7. f \in Knowledge(Everybody, WccdIds) /\ SaysBalances(k, f, [k.balances EXCEPT ![<<Owner, w>>] = Tok!add(@, 0)])
  <2>1. 0 \in Nat
    OBVIOUS
  <2> QED
    BY <1>1, <1>3, <2>1, HeardMint
<1> HIDE DEF f
<1>8. g \in Knowledge(Everybody, WccdIds) /\ SaysMetadata(f, g, [f.metadata EXCEPT ![w] = u])
  BY <1>3, <1>7, HeardMetadata
<1> HIDE DEF g
<1>9. h \in Knowledge(Everybody, WccdIds) /\ SaysAdmin(g, h, Owner)
  BY <1>3, <1>8, HeardAdmin
<1> HIDE DEF h
<1>10. WccdAgree(state, h)
  <2>1. h.balances = k.balances
    <3>1. Tok!add(0, 0) = 0
      BY AmountAssumption DEF Tok!add
    <3>2. [k.balances EXCEPT ![<<Owner, w>>] = Tok!add(@, 0)] = k.balances
      BY <1>3, <1>4, <3>1
    <3> QED
      BY <1>7, <1>8, <1>9, <3>2 DEF SaysBalances, SaysMetadata, SaysAdmin
  <2>2. h.metadata[w] = u
    <3>1. h.metadata = [k.metadata EXCEPT ![w] = u]
      BY <1>7, <1>8, <1>9 DEF SaysBalances, SaysMetadata, SaysAdmin
    <3> QED
      BY <1>3, <1>4, <3>1
  <2>3. h.operators = {} /\ h.admin = Owner
    BY <1>4, <1>7, <1>8, <1>9 DEF SaysBalances, SaysMetadata, SaysAdmin
  <2>4. Funds(state.balances, Everybody, state.self_balance)
    <3>1. z \in [Everybody -> Sayable] /\ \A a \in Everybody : z[a] = 0
      BY AmountAssumption DEF Sayable
    <3> HIDE DEF z
    <3>2. SumOf(z, Everybody) = 0
      BY <3>1, EverybodyFinite, SumOfZero
    <3> QED
      BY <1>5, <3>1, <3>2, AmountAssumption DEF Funds
  <2>5. KnownFunds(state.balances, h.balances, Everybody, w)
    <3>1. 0 \in Sayable
      BY AmountAssumption DEF Sayable
    <3>2. WccdIds = {w}
      BY DEF WccdIds, w
    <3> QED
      BY <1>4, <1>5, <2>1, <3>1, <3>2 DEF KnownFunds, Balances
  <2>6. KnownOperators(state.operators, h.operators, Everybody)
    BY <1>5, <2>3 DEF KnownOperators
  <2> QED
    BY <1>5, <2>2, <2>3, <2>4, <2>5, <2>6 DEF WccdAgree, w
<1>11. WccdCalls
  BY <1>5, EmptySeq DEF CallsOK, WccdCalls
<1> QED
  BY <1>2, <1>6, <1>9, <1>10, <1>11, WccdGoodIs DEF WccdInv

LEMMA WccdWrap ==
    ASSUME WccdInv, NEW sender \in Everybody, NEW to \in Everybody, NEW amount \in Amounts,
           Wccd!contract_wrap(sender, to, amount)
    PROVE  WccdInv'
<1>1. state \in WccdStates /\ seen \in Knowledge(Everybody, WccdIds) /\ WccdAgree(state, seen)
  BY WccdGoodIs DEF WccdInv
<1> DEFINE w == "wCCD"
           b == FundsCredit(state.balances, to, amount)
           n == state.self_balance + amount
           g == Tok!Heard(seen, Tok!MintEvent(w, amount, sender))
           t == [token_id |-> w, amount |-> amount, from |-> sender, to |-> to]
           h == seen'
           c == Credit(seen.balances, to, w, amount)
<1>2. amount \in Nat /\ amount \in Int /\ n <= MaxCcd /\ w \in WccdIds /\ WccdIds = {w}
  BY AmountAssumption DEF Wccd!contract_wrap, WccdIds
<1>3. state' = [state EXCEPT !.balances = b, !.self_balance = n]
  BY <1>1 DEF Wccd!contract_wrap, FundsCredit, Wccd!add, Tok!add, WccdStates
<1>4. IF sender = to THEN h = g /\ calls' = calls
      ELSE h = Tok!Heard(g, Tok!TransferEvent(t)) /\ Tok!EndsCalling(sender, to)
  <2>1. Wccd!WrapEvents(sender, to, amount)
          = IF sender = to THEN <<Tok!MintEvent(w, amount, sender)>>
            ELSE <<Tok!MintEvent(w, amount, sender), Tok!TransferEvent(t)>>
    <3> DEFINE x == Tok!MintEvent(w, amount, sender)
               y == Tok!TransferEvent(t)
    <3>1. Wccd!WrapEvents(sender, to, amount) = <<x>> \o (IF sender = to THEN <<>> ELSE <<y>>)
      BY DEF Wccd!WrapEvents, Wccd!MintEvent, Tok!MintEvent, Wccd!TransferEvent, Tok!TransferEvent,
             Wccd!TOKEN_ID_WCCD
    <3> HIDE DEF x, y
    <3>2. <<x>> \o <<y>> = <<x, y>>
      BY Joined
    <3>3. <<x>> \o <<>> = <<x>>
      BY Joined
    <3>4. Wccd!WrapEvents(sender, to, amount) = IF sender = to THEN <<x>> ELSE <<x, y>>
      BY <3>1, <3>2, <3>3
    <3> QED
      BY <3>4 DEF x, y
  <2>2. h = Told(seen, Wccd!WrapEvents(sender, to, amount))
        /\ IF sender = to THEN calls' = calls ELSE Tok!EndsCalling(sender, to)
    BY WccdShared DEF Wccd!contract_wrap
  <2> QED
    BY <2>1, <2>2, ToldOne, ToldTwo
<1>5. g \in Knowledge(Everybody, WccdIds) /\ SaysBalances(seen, g, Credit(seen.balances, sender, w, amount))
  BY <1>1, <1>2, HeardMint DEF Credit
<1>6. t.token_id = w /\ t.amount = amount /\ t.from = sender /\ t.to = to
  OBVIOUS
<1> HIDE DEF g, h, t, w
<1>7. h \in Knowledge(Everybody, WccdIds) /\ SaysBalances(seen, h, c)
  <2>1. CASE sender = to
    BY <1>4, <1>5, <2>1
  <2>2. CASE sender # to
    <3>1. /\ h \in Knowledge(Everybody, WccdIds)
          /\ SaysBalances(g, h, Tok!Transferred(g.balances, w, amount, sender, to))
      BY <1>2, <1>4, <1>5, <1>6, <2>2, HeardTransfer
    <3>2. Balances(seen.balances, Everybody, {w})
      BY <1>1, <1>2 DEF Balances, Knowledge
    <3>3. Tok!Transferred(Credit(seen.balances, sender, w, amount), w, amount, sender, to) = c
      BY <1>2, <3>2, MintedAndMoved
    <3> QED
      BY <1>5, <3>1, <3>3 DEF SaysBalances
  <2> QED
    BY <2>1, <2>2
<1>8. Funds(b, Everybody, n)
  BY <1>1, <1>2, EverybodyFinite, FundsMore DEF WccdAgree
<1>9. KnownFunds(b, c, Everybody, w)
  <2>1. KnownFunds(state.balances, seen.balances, Everybody, w)
    BY <1>1 DEF WccdAgree, w
  <2> QED
    BY <1>2, <2>1, KnownMore
<1> HIDE DEF b, n, c
<1>10. state' \in WccdStates /\ WccdAgree(state', h)
  BY <1>1, <1>3, <1>7, <1>8, <1>9 DEF WccdStates, WccdAgree, SaysBalances, w, Funds
<1> QED
  BY <1>4, <1>7, <1>10, WccdDone, WccdEnds DEF h

LEMMA WccdUnwrap ==
    ASSUME WccdInv, NEW sender \in Everybody, NEW owner \in Everybody, NEW receiver \in Everybody,
           NEW amount \in Amounts, Wccd!contract_unwrap(sender, owner, receiver, amount)
    PROVE  WccdInv'
<1>1. state \in WccdStates /\ seen \in Knowledge(Everybody, WccdIds) /\ WccdAgree(state, seen)
  BY WccdGoodIs DEF WccdInv
<1> DEFINE w == "wCCD"
           b == FundsDebit(state.balances, owner, amount)
           n == state.self_balance - amount
           h == seen'
           c == Debit(seen.balances, owner, w, amount)
<1>2. amount \in Nat /\ amount \in Int /\ w \in WccdIds /\ WccdIds = {w} /\ state.balances[owner] >= amount
  BY AmountAssumption DEF Wccd!contract_unwrap, WccdIds
<1>3. state' = [state EXCEPT !.balances = b, !.self_balance = n]
  BY <1>1 DEF Wccd!contract_unwrap, Wccd!Burnt, FundsDebit, Wccd!sub, Tok!sub, WccdStates
<1>4. h = Tok!Heard(seen, Tok!BurnEvent(w, amount, owner)) /\ Tok!EndsCalling(sender, receiver)
  BY WccdShared, ToldOne DEF Wccd!contract_unwrap, Wccd!BurnEvent, Tok!BurnEvent, Wccd!TOKEN_ID_WCCD
<1> HIDE DEF h, w
<1>5. h \in Knowledge(Everybody, WccdIds) /\ SaysBalances(seen, h, c)
  BY <1>1, <1>2, <1>4, HeardBurn DEF Debit
<1>6. Funds(b, Everybody, n)
  BY <1>1, <1>2, EverybodyFinite, FundsLess DEF WccdAgree
<1>7. KnownFunds(b, c, Everybody, w)
  <2>1. KnownFunds(state.balances, seen.balances, Everybody, w)
    BY <1>1 DEF WccdAgree, w
  <2> QED
    BY <1>2, <2>1, KnownLess
<1> HIDE DEF b, n, c
<1>8. state' \in WccdStates /\ WccdAgree(state', h)
  BY <1>1, <1>3, <1>5, <1>6, <1>7 DEF WccdStates, WccdAgree, SaysBalances, w, Funds
<1> QED
  BY <1>4, <1>5, <1>8, WccdEnds DEF h

LEMMA WccdUpdateOperator ==
    ASSUME WccdInv, NEW sender \in Everybody, NEW operator \in Operators, NEW update,
           Wccd!contract_update_operator(sender, operator, update)
    PROVE  WccdInv'
<1>1. state \in WccdStates /\ seen \in Knowledge(Everybody, WccdIds) /\ WccdAgree(state, seen)
  BY WccdGoodIs DEF WccdInv
<1> DEFINE o == [state.operators EXCEPT ![sender] = Tok!Updated(@, operator, update)]
           h == seen'
<1>2. operator \in Everybody
  BY AddressAssumption DEF Everybody
<1>3. state' = [state EXCEPT !.operators = o] /\ calls' = calls
      /\ seen' = Told(seen, <<Tok!UpdateOperatorEvent(sender, operator, update)>>)
  BY WccdShared DEF Wccd!contract_update_operator, Wccd!Updated, Tok!Updated,
       Wccd!UpdateOperatorEvent, Tok!UpdateOperatorEvent
<1>4. h = Tok!Heard(seen, Tok!UpdateOperatorEvent(sender, operator, update))
  BY <1>3, ToldOne
<1> HIDE DEF h
<1>5. h \in Knowledge(Everybody, WccdIds)
      /\ SaysOperators(seen, h, Tok!Updated(seen.operators, <<sender, operator>>, update))
  BY <1>1, <1>2, <1>4, HeardOperator
<1>6. o \in [Everybody -> SUBSET Everybody] /\ KnownOperators(o, h.operators, Everybody)
  <2>1. state.operators \in [Everybody -> SUBSET Everybody] /\ KnownOperators(state.operators, seen.operators, Everybody)
    BY <1>1 DEF WccdStates, WccdAgree
  <2>2. o \in [Everybody -> SUBSET Everybody]
        /\ KnownOperators(o, Tok!Updated(seen.operators, <<sender, operator>>, update), Everybody)
    BY <1>2, <2>1, OperatorsKnown
  <2>3. h.operators = Tok!Updated(seen.operators, <<sender, operator>>, update)
    BY <1>5 DEF SaysOperators
  <2> HIDE DEF o
  <2> QED
    BY <2>2, <2>3
<1> HIDE DEF o
<1>7. state' \in WccdStates /\ WccdAgree(state', h)
  BY <1>1, <1>3, <1>5, <1>6 DEF WccdStates, WccdAgree, SaysOperators
<1> QED
  BY <1>3, <1>5, <1>7, WccdDone DEF h

LEMMA WccdUpdateAdmin ==
    ASSUME WccdInv, NEW sender, NEW new_admin \in Everybody, Wccd!contract_update_admin(sender, new_admin)
    PROVE  WccdInv'
<1>1. state \in WccdStates /\ seen \in Knowledge(Everybody, WccdIds) /\ WccdAgree(state, seen)
  BY WccdGoodIs DEF WccdInv
<1> DEFINE h == seen'
<1>2. state' = [state EXCEPT !.admin = new_admin] /\ calls' = calls
      /\ h = Tok!Heard(seen, Tok!NewAdminEvent(new_admin))
  BY WccdShared, ToldOne DEF Wccd!contract_update_admin, Wccd!NewAdminEvent, Tok!NewAdminEvent
<1> HIDE DEF h
<1>3. h \in Knowledge(Everybody, WccdIds) /\ SaysAdmin(seen, h, new_admin)
  BY <1>1, <1>2, HeardAdmin
<1>4. state' \in WccdStates /\ WccdAgree(state', h)
  BY <1>1, <1>2, <1>3 DEF WccdStates, WccdAgree, SaysAdmin
<1> QED
  BY <1>2, <1>3, <1>4, WccdDone DEF h

LEMMA WccdSetMetadataUrl ==
    ASSUME WccdInv, NEW sender, Wccd!contract_state_set_metadata_url(sender, "url2")
    PROVE  WccdInv'
<1>1. state \in WccdStates /\ seen \in Knowledge(Everybody, WccdIds) /\ WccdAgree(state, seen)
  BY WccdGoodIs DEF WccdInv
<1> DEFINE h == seen'
           u == "url2"
           w == "wCCD"
<1>2. state' = [state EXCEPT !.metadata_url = u] /\ calls' = calls
      /\ h = Tok!Heard(seen, Tok!TokenMetadataEvent(w, u))
  BY WccdShared, ToldOne DEF Wccd!contract_state_set_metadata_url, Wccd!TokenMetadataEvent,
       Tok!TokenMetadataEvent, Wccd!TOKEN_ID_WCCD
<1>3. u \in Texts /\ u \in WccdIds \cup Texts /\ w \in WccdIds
  BY DEF Texts, WccdIds
<1> HIDE DEF h, u, w
<1>4. h \in Knowledge(Everybody, WccdIds) /\ SaysMetadata(seen, h, [seen.metadata EXCEPT ![w] = u])
  BY <1>1, <1>2, <1>3, HeardMetadata
<1>5. h.metadata[w] = u
  BY <1>1, <1>3, <1>4 DEF SaysMetadata, Knowledge
<1>6. state' \in WccdStates /\ WccdAgree(state', h)
  BY <1>1, <1>2, <1>3, <1>4, <1>5 DEF WccdStates, WccdAgree, SaysMetadata, w
<1> QED
  BY <1>2, <1>4, <1>6, WccdDone DEF h

LEMMA WccdOthers ==
    ASSUME WccdInv, NEW sender \in Everybody,
           \/ \E paused \in BOOLEAN : Wccd!contract_set_paused(sender, paused)
           \/ \E imp \in Implementors : Wccd!contract_set_implementor(sender, imp[1], imp[2])
           \/ \E batch \in WccdBatches : Wccd!contract_transfer(sender, batch)
    PROVE  WccdInv'
<1>1. state \in WccdStates /\ seen \in Knowledge(Everybody, WccdIds) /\ WccdAgree(state, seen)
  BY WccdGoodIs DEF WccdInv
<1>2. ASSUME NEW imp \in Implementors, Wccd!contract_set_implementor(sender, imp[1], imp[2])
      PROVE  WccdInv'
  <2> DEFINE m == [state.implementors EXCEPT ![imp[1]] = imp[2]]
  <2>1. m \in Implementations
    BY <1>1, ImplementationsAre DEF WccdStates
  <2>2. state' = [state EXCEPT !.implementors = m] /\ seen' = seen /\ calls' = calls
    BY <1>2 DEF Wccd!contract_set_implementor
  <2> HIDE DEF m
  <2> QED
    BY <1>1, <2>1, <2>2, WccdDone DEF WccdStates, WccdAgree
<1>3. ASSUME NEW batch \in WccdBatches, Wccd!contract_transfer(sender, batch)
      PROVE  WccdInv'
  <2>1. batch \in Seq(TransfersOf(WccdIds, Everybody)) /\ batch # <<>>
    BY BatchAssumption DEF BatchesOf, TransfersOf, Everybody, WccdIds
  <2>2. Tok!StartsBatch(sender, batch, <<>>) /\ UNCHANGED <<state, seen>>
    BY <1>3, WccdShared DEF Wccd!contract_transfer
  <2> QED
    BY <2>1, <2>2, StartsOK DEF WccdInv, WccdCalls, Tok!Saved
<1>4. ASSUME NEW paused \in BOOLEAN, Wccd!contract_set_paused(sender, paused)
      PROVE  WccdInv'
  <2>1. state' = [state EXCEPT !.paused = paused] /\ seen' = seen /\ calls' = calls
    BY <1>4 DEF Wccd!contract_set_paused
  <2> QED
    BY <1>1, <2>1, WccdDone DEF WccdStates, WccdAgree
<1> QED
  BY <1>2, <1>3, <1>4

LEMMA WccdMoves ==
    ASSUME WccdInv,
           Wccd!NextTransfer(Wccd!Accepts(Wccd!Top.sender, Wccd!Upcoming),
                             Wccd!Moved(Wccd!Upcoming), Wccd!OneEvent(Wccd!Upcoming))
    PROVE  WccdInv'
<1> DEFINE t == Tok!Upcoming
           T == TransfersOf(WccdIds, Everybody)
           w == "wCCD"
           d == FundsDebit(state.balances, t.from, t.amount)
           b == FundsCredit(d, t.to, t.amount)
           n == state.self_balance
           h == seen'
<1>1. /\ state \in WccdStates /\ seen \in Knowledge(Everybody, WccdIds) /\ WccdAgree(state, seen)
      /\ CallsOK(Everybody, T, {<<>>}, WccdGood)
  BY WccdGoodIs DEF WccdInv, WccdCalls
<1>2. /\ calls # <<>> /\ Tok!Top.hook = None
      /\ \/ Wccd!Accepts(Tok!Top.sender, t) /\ Moves(Wccd!Moved(t), Wccd!OneEvent(t))
         \/ Tok!Rejects
  BY WccdTransfers
<1>3. CASE Tok!Rejects
  BY <1>2, <1>3, CallingOK, WccdGoodIs DEF WccdInv, WccdCalls
<1>4. CASE Wccd!Accepts(Tok!Top.sender, t) /\ Moves(Wccd!Moved(t), Wccd!OneEvent(t))
  <2>1. t \in T /\ Tok!Top.last = <<>>
    BY <1>1, <1>2, UpcomingOK
  <2>2. /\ t.token_id = w /\ w \in WccdIds /\ WccdIds = {w} /\ t.amount \in Nat /\ t.amount \in Int
        /\ t.from \in Everybody /\ t.to \in Everybody
    BY <2>1 DEF TransfersOf, WccdIds
  <2>3. CallsOK(Everybody, T, {<<>>}, WccdGood)'
    BY <1>1, <1>2, <1>4, MovesOK, AddressAssumption
  <2>4. h = Tok!Heard(seen, Tok!TransferEvent(t))
    <3>1. Wccd!OneEvent(t) = <<Tok!TransferEvent(t)>>
      BY DEF Wccd!OneEvent, Wccd!TransferEvent, Tok!TransferEvent
    <3>2. seen' = Told(seen, Wccd!OneEvent(t) \o <<>>)
      BY <1>4, <2>1 DEF Moves
    <3>3. Wccd!OneEvent(t) \o <<>> = <<Tok!TransferEvent(t)>>
      BY <3>1
    <3> QED
      BY <3>2, <3>3, ToldOne
  <2>5. state' = [state EXCEPT !.balances = b]
    BY <1>4 DEF Moves, Wccd!Moved, FundsDebit, FundsCredit, Wccd!add, Tok!add, Wccd!sub, Tok!sub
  <2>6. state.balances[t.from] >= t.amount
    <3>1. state.balances[t.from] \in Nat
      BY <1>1, <2>2, EverybodyFinite, FundsPart DEF WccdAgree
    <3>2. t.amount > 0 => state.balances[t.from] >= t.amount
      BY <1>4 DEF Wccd!Accepts, Wccd!balance
    <3> HIDE DEF t
    <3> QED
      BY <2>2, <3>1, <3>2
  <2>t. t \in T
    BY <2>1
  <2> HIDE DEF h, w, t
  <2>7. Funds(b, Everybody, n)
    <3>1. Funds(state.balances, Everybody, n)
      BY <1>1 DEF WccdAgree
    <3>2. Funds(d, Everybody, n - t.amount)
      BY <2>2, <2>6, <3>1, EverybodyFinite, FundsLess
    <3> HIDE DEF d, n
    <3>3. n \in Nat /\ n <= MaxCcd /\ n - t.amount + t.amount = n
      BY <2>2, <3>1 DEF Funds
    <3> DEFINE m == n - t.amount
    <3>4. Funds(d, Everybody, m) /\ m + t.amount <= MaxCcd /\ m + t.amount = n
      BY <3>2, <3>3
    <3> HIDE DEF m
    <3> QED
      BY <2>2, <3>4, EverybodyFinite, FundsMore
  <2> DEFINE e == Debit(seen.balances, t.from, w, t.amount)
             c == Credit(e, t.to, w, t.amount)
  <2>8. KnownFunds(b, c, Everybody, w)
    <3>1. KnownFunds(state.balances, seen.balances, Everybody, w)
      BY <1>1 DEF WccdAgree, w
    <3>2. KnownFunds(d, e, Everybody, w)
      BY <2>2, <3>1, KnownLess
    <3> HIDE DEF d, e
    <3> QED
      BY <2>2, <3>2, KnownMore
  <2>9. h \in Knowledge(Everybody, WccdIds) /\ SaysBalances(seen, h, c)
    <3>1. h \in Knowledge(Everybody, WccdIds)
          /\ SaysBalances(seen, h, Tok!Transferred(seen.balances, w, t.amount, t.from, t.to))
      BY <1>1, <2>2, <2>4, HeardTransfer
    <3>2. Tok!Transferred(seen.balances, w, t.amount, t.from, t.to) = c
      BY DEF Tok!Transferred, Credit, Debit
    <3> QED
      BY <3>1, <3>2
  <2> HIDE DEF b, c
  <2>10. state' \in WccdStates /\ WccdAgree(state', h)
    BY <1>1, <2>5, <2>7, <2>8, <2>9 DEF WccdStates, WccdAgree, SaysBalances, w, Funds
  <2> QED
    BY <2>3, <2>9, <2>10, WccdKept DEF WccdCalls, h
<1> QED
  BY <1>2, <1>3, <1>4

LEMMA WccdNext == ASSUME WccdInv, Wccd!Next PROVE WccdInv'
<1>1. ASSUME NEW sender \in Everybody,
             \/ \E to \in Everybody, amount \in Amounts : Wccd!contract_wrap(sender, to, amount)
             \/ \E owner, receiver \in Everybody, amount \in Amounts :
                   Wccd!contract_unwrap(sender, owner, receiver, amount)
             \/ \E new_admin \in Everybody : Wccd!contract_update_admin(sender, new_admin)
             \/ Wccd!contract_state_set_metadata_url(sender, "url2")
             \/ \E operator \in Operators, update \in {"add", "remove"} :
                   Wccd!contract_update_operator(sender, operator, update)
      PROVE  WccdInv'
  BY <1>1, WccdWrap, WccdUnwrap, WccdUpdateAdmin, WccdSetMetadataUrl, WccdUpdateOperator
<1>2. ASSUME Wccd!HookReturns \/ Wccd!HookRejects PROVE WccdInv'
  BY <1>2, WccdShared, CallingOK, WccdGoodIs DEF WccdInv, WccdCalls
<1> QED
  BY <1>1, <1>2, WccdOthers, WccdMoves DEF Wccd!Next, Wccd!Addresses, Everybody

LEMMA WccdLogTells == WccdInv => Wccd!LogTellsState
<1> SUFFICES ASSUME WccdInv PROVE Wccd!LogTellsState
  OBVIOUS
<1>1. WccdAgree(state, seen) /\ state \in WccdStates
  BY WccdGoodIs DEF WccdInv
<1>2. Wccd!TellsBalances(WccdIds, Wccd!contract_balance_of)
  BY <1>1 DEF WccdAgree, KnownFunds, WccdIds, Everybody, Wccd!Addresses, Wccd!TellsBalances,
       Wccd!contract_balance_of, Wccd!balance
<1>3. Wccd!TellsOperators(Wccd!contract_operator_of)
  BY <1>1 DEF WccdAgree, KnownOperators, Wccd!TellsOperators, Wccd!contract_operator_of,
       Wccd!is_operator, Wccd!Addresses, Everybody
<1>4. \A t \in WccdIds : Wccd!contract_token_metadata(t) = seen.metadata[t]
  BY <1>1 DEF WccdAgree, Wccd!contract_token_metadata, WccdIds
<1>5. Wccd!contract_view = seen.admin
  BY <1>1 DEF WccdAgree, Wccd!contract_view
<1> QED
  BY <1>2, <1>3, <1>4, <1>5 DEF Wccd!LogTellsState, WccdIds

LEMMA WccdBacks == WccdInv => Wccd!Backed
<1> SUFFICES ASSUME WccdInv PROVE Wccd!Backed
  OBVIOUS
<1>1. state.self_balance = SumOf(state.balances, Everybody)
  BY WccdGoodIs DEF WccdInv, WccdAgree, Funds
<1>2. Wccd!MapThenSumSet(LAMBDA a : state.balances[a], Everybody) = SumOf(state.balances, Everybody)
  BY DEF Wccd!MapThenSumSet, Wccd!MapThenFoldSet, SumOf, Adds
<1> QED
  BY <1>1, <1>2 DEF Wccd!Backed, Wccd!Addresses, Everybody

-----------------------------------------------------------------------------
(* All the token contracts *)

TokensInv ==
    /\ contract = "nft" => NftInv
    /\ contract = "multi" => MultiInv
    /\ contract = "wccd" => WccdInv
    /\ contract = "cis3" => Cis3Inv
    /\ contract = "names" => NameInv
    /\ contract = "dynamic" => DynamicInv
    /\ contract = "royalties" => RoyaltiesInv

(* What is true before the first step *)
LEMMA TokensInit == Init => TokensInv
  BY NftInit, MultiInit, WccdInit, Cis3Init, NameInit, DynamicInit, RoyaltiesInit DEF Init, TokensInv

(* stays true, as long as nothing happens *)
LEMMA TokensSame == ASSUME TokensInv, UNCHANGED vars PROVE TokensInv'
<1>0. contract' = contract /\ state' = state /\ seen' = seen /\ calls' = calls
  BY DEF vars
<1>1. Tok!Saved' = Tok!Saved
  BY <1>0 DEF Tok!Saved
<1>2. \A A, T, L, G : CallsOK(A, T, L, G)' <=> CallsOK(A, T, L, G)
  BY <1>0 DEF CallsOK
<1>3. NonceInv(state.nonces_registry, seen, calls)' <=> NonceInv(state.nonces_registry, seen, calls)
  BY <1>0
<1>4. /\ NftInv' <=> NftInv
      /\ WccdInv' <=> WccdInv
      /\ NameInv' <=> NameInv
      /\ DynamicInv' <=> DynamicInv
      /\ RoyaltiesInv' <=> RoyaltiesInv
  BY <1>1, <1>2 DEF NftInv, WccdInv, WccdCalls, NameInv, NameCalls, DynamicInv, DynamicCalls,
                    RoyaltiesInv, RoyaltiesCalls
<1>5. (MultiInv' <=> MultiInv) /\ (Cis3Inv' <=> Cis3Inv)
  BY <1>1, <1>2, <1>3 DEF MultiInv, MultiCalls, Cis3Inv, Cis3Calls
<1> QED
  BY <1>0, <1>4, <1>5 DEF TokensInv

(* and when something does. *)
LEMMA TokensNext ==
    ASSUME TokensInv, Next
    PROVE  /\ TokensInv'
           /\ contract = "multi" => Multi!FrozenStep
           /\ contract = "names" => Names!LosesRightly
  BY NftNext, MultiNext, WccdNext, Cis3Next, NameNext, DynamicNext, RoyaltiesNext DEF Next, TokensInv

LEMMA TokensInvariant == Spec => []TokensInv
<1>1. TokensInv /\ [Next]_vars => TokensInv'
  BY TokensSame, TokensNext
<1> QED
  BY TokensInit, <1>1, PTL DEF Spec

(* An indexer that follows the events of a token contract, whichever of the   *)
(* seven it is, knows what the contract answers about balances, operators and *)
(* metadata: also between the transfers of a batch, while a receiver's hook   *)
(* is running and has called the contract again, and after a rejection has    *)
(* undone transfers together with their events.  Of cis2-dynamic-nft it may   *)
(* know metadata too early, but none that a token no longer has.              *)
THEOREM TokensTellTheirState == Spec => []LogTellsState
<1>1. TokensInv => LogTellsState
  BY NftLogTells, MultiLogTells, WccdLogTells, Cis3LogTells, NameLogTells, DynamicLogTells,
     RoyaltiesLogTells DEF TokensInv, LogTellsState
<1> QED
  BY <1>1, TokensInvariant, PTL

(* State::mint and State::transfer of cis2-nft and cis3-nft-sponsored-txs, and *)
(* the transfers of nametoken, never leave a token with two owners or without *)
(* one, and nametoken's records say who it is.                                *)
THEOREM TokensHaveOneOwner == Spec => []OneOwner
<1>1. TokensInv => OneOwner
  BY NftOneOwner, Cis3OneOwner, NameRecordsAgree DEF TokensInv, OneOwner
<1> QED
  BY <1>1, TokensInvariant, PTL

(* contract_permit executes a signed message at most once, in cis2-multi and   *)
(* cis3-nft-sponsored-txs: the nonce is counted before the hooks are called   *)
(* that may bring the message again, and a rejection restores it together     *)
(* with the rest of the state.                                                *)
THEOREM TokensPermitOnce == Spec => []PermitsOnce
<1>1. TokensInv => PermitsOnce
  BY MultiPermitsOnce, Cis3PermitsOnce DEF TokensInv, PermitsOnce
<1> QED
  BY <1>1, TokensInvariant, PTL

(* The tokens of cis2-wccd are worth the CCD that the contract has: what is    *)
(* wrapped is minted, what is unwrapped is burnt and paid out, and a transfer *)
(* moves what there is.  No token amount wraps around.                        *)
THEOREM TokensAreBacked == Spec => []WccdBacked
<1>1. TokensInv => WccdBacked
  BY WccdBacks DEF TokensInv, WccdBacked
<1> QED
  BY <1>1, TokensInvariant, PTL

(* No entrypoint of cis2-multi, called directly or with a permit, moves tokens *)
(* of an address on the blacklist, or any token while the contract is paused. *)
THEOREM TokensStayFrozen == Spec => Frozen
<1>1. TokensInv /\ [Next]_vars => [contract = "multi" => Multi!FrozenStep]_vars
  BY TokensNext
<1> QED
  BY <1>1, TokensInvariant, PTL DEF Spec, Frozen

(* A name of nametoken gets another owner before it expires only in an        *)
(* entrypoint that its owner or the owner's operator called, and after it has *)
(* expired only when it is registered anew.                                   *)
THEOREM TokensKeepNames == Spec => NamesKept
<1>1. TokensInv /\ [Next]_vars => [contract = "names" => Names!LosesRightly]_vars
  BY TokensNext
<1> QED
  BY <1>1, TokensInvariant, PTL DEF Spec, NamesKept

=============================================================================
