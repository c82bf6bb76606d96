--------------------------- MODULE P2PCallProofs ----------------------------
(***************************************************************************)
(* For any users, starts and queue lengths: the types of P2PCall, and that *)
(* who hung up is forgotten.                                               *)
(***************************************************************************)
EXTENDS P2PCall, TLAPS

\* Whom a user knew when it hung up is still to receive its HANGUP, as the last
\* word on the link, or has forgotten it.
Leaving(u, v) ==
  /\ u \notin in
  /\ link[u][v] = <<>> => u \notin peers[v]
  /\ link[u][v] # <<>> => link[u][v][Len(link[u][v])] = "HANGUP"

\* A user who is out knows nobody.
OutKnowsNobody == \A u \in User \ in : peers[u] = {}

Inv == TypeOK /\ OutKnowsNobody /\ \A u \in User : \A v \in left[u] : Leaving(u, v)

----------------------------------------------------------------------------
\* Sending keeps the links what they are.
LEMMA ToLinks ==
  ASSUME NEW u \in User, NEW D \in SUBSET User, NEW ps \in Seq(Type),
         link \in [User -> [User -> Seq(Type)]]
  PROVE  /\ To(u, D, ps) \in [User -> [User -> Seq(Type)]]
         /\ \A w \in User : w # u => To(u, D, ps)[w] = link[w]
         /\ \A v \in D : To(u, D, ps)[u][v] = link[u][v] \o ps
<1>1. \A v \in User : link[u][v] \o ps \in Seq(Type)
  OBVIOUS
<1>2. [v \in User |-> IF v \in D THEN link[u][v] \o ps ELSE link[u][v]] \in [User -> Seq(Type)]
  BY <1>1
<1> QED BY <1>1, <1>2 DEF To

\* What is sent in one step.
LEMMA Sent ==
  /\ <<"HELLO">> \in Seq(Type) /\ <<"VOICE">> \in Seq(Type) /\ <<>> \in Seq(Type)
  /\ <<"HANGUP">> \in Seq(Type) /\ <<"HANGUP">> \o <<>> = <<"HANGUP">>
  /\ <<"HANGUP">> \o <<"VOICE">> \in Seq(Type)
BY DEF Type

\* Leave and Crash: nothing of the user is left but what it still sends.
LEMMA OverTypes ==
  ASSUME TypeOK, NEW u \in User, Over(u)
  PROVE  /\ in' \subseteq User /\ sharing' \subseteq in'
         /\ peers' \in [User -> SUBSET User] /\ \A v \in User : v \notin peers'[v]
         /\ starts' \in 0..MaxStarts
BY DEF Over, TypeOK

----------------------------------------------------------------------------
\* Every step keeps the types.
LEMMA TypeStep ==
  ASSUME TypeOK, P2PCallAssumption, [Next]_vars
  PROVE  TypeOK'
<1>l. link \in [User -> [User -> Seq(Type)]]
  BY DEF TypeOK
<1>1. CASE UNCHANGED vars
  BY <1>1 DEF vars, TypeOK
<1>2. ASSUME NEW u \in User, Start(u) PROVE TypeOK'
  <2>1. link' \in [User -> [User -> Seq(Type)]]
    <3>1. PICK D \in SUBSET User, ps \in Seq(Type) : link' = To(u, D, ps)
      BY <1>2, Sent DEF Start
    <3> QED BY <1>l, <3>1, ToLinks
  <2>2. starts' \in 0..MaxStarts
    BY <1>2 DEF Start, TypeOK, P2PCallAssumption
  <2>3. left' \in [User -> SUBSET User] /\ in' \subseteq User /\ sharing' \subseteq in'
    BY <1>2 DEF Start, TypeOK
  <2>4. UNCHANGED peers
    BY <1>2 DEF Start
  <2> QED BY <2>1, <2>2, <2>3, <2>4 DEF TypeOK
<1>3. ASSUME NEW u \in User, Leave(u) PROVE TypeOK'
  <2>1. PICK ps \in Seq(Type) : link' = To(u, peers[u], ps)
    BY <1>3, Sent DEF Leave
  <2>2. link' \in [User -> [User -> Seq(Type)]]
    <3>1. peers[u] \in SUBSET User
      BY DEF TypeOK
    <3> QED BY <1>l, <2>1, <3>1, ToLinks
  <2>3. left' \in [User -> SUBSET User]
    BY <1>3 DEF Leave, TypeOK
  <2> QED BY <1>3, <2>2, <2>3, OverTypes DEF Leave, TypeOK
<1>4. ASSUME NEW u \in User, Crash(u) PROVE TypeOK'
  BY <1>4, OverTypes DEF Crash, TypeOK
<1>5. ASSUME NEW u \in User, Share(u) PROVE TypeOK'
  BY <1>5 DEF Share, TypeOK
<1>6. ASSUME NEW u \in User, Speak(u) PROVE TypeOK'
  <2>1. link' \in [User -> [User -> Seq(Type)]]
    <3>1. PICK D \in SUBSET User, ps \in Seq(Type) : link' = To(u, D, ps)
      <4>1. {v \in peers[u] : link[u][v] = <<>>} \in SUBSET User
        BY DEF TypeOK
      <4> QED BY <1>6, <4>1, Sent DEF Speak
    <3> QED BY <1>l, <3>1, ToLinks
  <2> QED BY <1>6, <2>1 DEF Speak, TypeOK
<1>7. ASSUME NEW u \in User, NEW v \in User \ {u}, Receive(u, v) PROVE TypeOK'
  <2> DEFINE rest == [link EXCEPT ![v][u] = Tail(@)]
  <2>1. rest \in [User -> [User -> Seq(Type)]]
    <3>1. link[v][u] \in Seq(Type) /\ link[v][u] # <<>>
      BY <1>7, <1>l DEF Receive
    <3>2. Tail(link[v][u]) \in Seq(Type)
      BY <3>1
    <3> QED BY <1>l, <3>2
  <2>2. link' = rest \/ link' = [rest EXCEPT ![u][v] = @ \o Answer(u, v)]
    BY <1>7 DEF Receive
  <2> HIDE DEF rest
  <2>3. link' \in [User -> [User -> Seq(Type)]]
    <3>1. PICK ans \in Seq(Type) : ans = Answer(u, v)
      BY Sent DEF Answer
    <3>2. rest[u][v] \o ans \in Seq(Type)
      BY <2>1
    <3>3. PICK q \in Seq(Type) : link' = rest \/ link' = [rest EXCEPT ![u][v] = q]
      BY <2>2, <3>1, <3>2
    <3>4. [rest[u] EXCEPT ![v] = q] \in [User -> Seq(Type)]
      BY <2>1, <3>3
    <3>5. [rest EXCEPT ![u][v] = q] \in [User -> [User -> Seq(Type)]]
      BY <2>1, <3>4
    <3> QED BY <2>1, <3>3, <3>5
  <2>4. peers' \in [User -> SUBSET User] /\ \A w \in User : w \notin peers'[w]
    <3>1. PICK S : /\ peers' = peers \/ peers' = [peers EXCEPT ![u] = S]
                   /\ S = peers[u] \ {v} \/ S = peers[u] \cup {v}
      BY <1>7 DEF Receive, KnownAfter
    <3>2. S \in SUBSET User /\ u \notin S
      BY <3>1 DEF TypeOK
    <3> QED BY <3>1, <3>2 DEF TypeOK
  <2> QED BY <1>7, <2>3, <2>4 DEF Receive, TypeOK
<1>8. ASSUME NEW u \in User, NEW v \in User \ {u}, RemoveSilent(u, v) PROVE TypeOK'
  BY <1>8 DEF RemoveSilent, TypeOK
<1> QED BY <1>1, <1>2, <1>3, <1>4, <1>5, <1>6, <1>7, <1>8 DEF Next

----------------------------------------------------------------------------
\* The last of a sequence with one more at its end, and of what follows its head.
LEMMA LastOf ==
  ASSUME NEW S, NEW q \in Seq(S)
  PROVE  /\ \A x \in S : q \o <<x>> # <<>> /\ (q \o <<x>>)[Len(q \o <<x>>)] = x
         /\ q # <<>> /\ Tail(q) # <<>> => Tail(q)[Len(Tail(q))] = q[Len(q)]
         /\ q # <<>> /\ Tail(q) = <<>> => Head(q) = q[Len(q)]
<1>1. \A x \in S : q \o <<x>> # <<>> /\ (q \o <<x>>)[Len(q \o <<x>>)] = x
  OBVIOUS
<1>2. ASSUME q # <<>>
      PROVE  /\ Len(Tail(q)) = Len(q) - 1 /\ Len(q) \in Nat \ {0} /\ Head(q) = q[1]
             /\ \A i \in 1..Len(q) - 1 : Tail(q)[i] = q[i + 1]
             /\ Tail(q) \in Seq(S)
  BY <1>2
<1>3. Tail(q) = <<>> => Len(Tail(q)) = 0
  <2>1. Len(<<>>) = 0
    OBVIOUS
  <2> QED BY <2>1
<1>4. Tail(q) \in Seq(S) /\ Tail(q) # <<>> => Len(Tail(q)) \in Nat \ {0}
  OBVIOUS
<1>5. ASSUME q # <<>>, Tail(q) # <<>> PROVE Tail(q)[Len(Tail(q))] = q[Len(q)]
  BY <1>2, <1>4, <1>5
<1>6. ASSUME q # <<>>, Tail(q) = <<>> PROVE Head(q) = q[Len(q)]
  BY <1>2, <1>3, <1>6
<1> QED BY <1>1, <1>5, <1>6

\* A step that leaves what concerns one link alone, or adds to who is out.
LEMMA LeavingKept ==
  ASSUME NEW u, NEW v, Leaving(u, v), u \notin in',
         link'[u][v] = link[u][v], u \in peers'[v] => u \in peers[v]
  PROVE  Leaving(u, v)'
BY DEF Leaving

\* Registering takes an engine that runs.
LEMMA OutKnowsNobodyStep ==
  ASSUME TypeOK, OutKnowsNobody, [Next]_vars
  PROVE  OutKnowsNobody'
<1>t. peers \in [User -> SUBSET User]
  BY DEF TypeOK
<1>1. CASE UNCHANGED vars
  BY <1>1 DEF vars, OutKnowsNobody
<1>2. ASSUME NEW u \in User, Start(u) \/ Share(u) \/ Speak(u) PROVE OutKnowsNobody'
  BY <1>2 DEF Start, Share, Speak, OutKnowsNobody
<1>3. ASSUME NEW u \in User, Leave(u) \/ Crash(u) PROVE OutKnowsNobody'
  BY <1>3, <1>t DEF Leave, Crash, Over, OutKnowsNobody
<1>4. ASSUME NEW u \in User, NEW v \in User \ {u}, Receive(u, v) PROVE OutKnowsNobody'
  <2>1. UNCHANGED in /\ \/ UNCHANGED peers
                        \/ u \in in /\ \E S : peers' = [peers EXCEPT ![u] = S]
    BY <1>4 DEF Receive
  <2> QED BY <2>1, <1>t DEF OutKnowsNobody
<1>5. ASSUME NEW u \in User, NEW v \in User \ {u}, RemoveSilent(u, v) PROVE OutKnowsNobody'
  BY <1>5, <1>t DEF RemoveSilent, OutKnowsNobody
<1> QED BY <1>1, <1>2, <1>3, <1>4, <1>5 DEF Next

\* What is last on a link stays last until it is taken.
LEMMA InvStep ==
  ASSUME P2PCallAssumption, Inv, [Next]_vars
  PROVE  Inv'
<1>t. TypeOK /\ TypeOK'
  BY TypeStep DEF Inv
<1>l. link \in [User -> [User -> Seq(Type)]] /\ left \in [User -> SUBSET User]
  BY <1>t DEF TypeOK
<1>i. \A u \in User : \A v \in left[u] : Leaving(u, v) /\ v \in User /\ u \notin in
  BY <1>l DEF Inv, Leaving
<1>o. OutKnowsNobody'
  BY <1>t, OutKnowsNobodyStep DEF Inv
<1> SUFFICES ASSUME NEW u \in User, NEW v \in left'[u]
             PROVE  Leaving(u, v)'
  BY <1>t, <1>o DEF Inv
<1>1. CASE UNCHANGED vars
  BY <1>1, <1>i DEF vars, Leaving
<1>2. ASSUME NEW w \in User, Start(w) PROVE Leaving(u, v)'
  <2>1. u # w /\ v \in left[u]
    BY <1>2, <1>l DEF Start
  <2>2. link'[u][v] = link[u][v]
    <3>1. PICK D \in SUBSET User, ps \in Seq(Type) : link' = To(w, D, ps)
      BY <1>2, Sent DEF Start
    <3>2. link'[u] = link[u]
      BY <1>l, <2>1, <3>1, ToLinks
    <3> QED BY <3>2
  <2> QED BY <1>2, <1>i, <2>1, <2>2, LeavingKept DEF Start
<1>3. ASSUME NEW w \in User, Leave(w) PROVE Leaving(u, v)'
  <2>p. /\ in' = in \ {w} /\ peers' = [peers EXCEPT ![w] = {}] /\ peers[w] \subseteq User
        /\ peers \in [User -> SUBSET User]
    BY <1>3, <1>t DEF Leave, Over, TypeOK
  <2>1. CASE u = w
    <3>1. w \notin sharing /\ v \in peers[w] /\ v \in User
      BY <1>3, <1>l, <2>1, <2>p DEF Leave
    <3>2. link' = To(w, peers[w], <<"HANGUP">> \o <<>>)
      BY <1>3, <3>1 DEF Leave
    <3>3. PICK ps \in Seq(Type) : ps = <<"HANGUP">> /\ link' = To(w, peers[w], ps)
      BY <3>2, Sent
    <3>4. link'[u][v] = link[u][v] \o ps
      <4>1. peers[w] \in SUBSET User
        BY <2>p
      <4>2. \A d \in peers[w] : To(w, peers[w], ps)[w][d] = link[w][d] \o ps
        BY <1>l, <4>1, ToLinks
      <4> QED BY <2>1, <3>1, <3>3, <4>2
    <3>5. link[u][v] \in Seq(Type)
      BY <1>l, <3>1
    <3>6. link'[u][v] # <<>> /\ link'[u][v][Len(link'[u][v])] = "HANGUP"
      <4>1. "HANGUP" \in Type
        BY DEF Type
      <4> QED BY <3>3, <3>4, <3>5, <4>1, LastOf
    <3> QED BY <2>1, <2>p, <3>6 DEF Leaving
  <2>2. CASE u # w
    <3>1. v \in left[u] /\ v \in User
      BY <1>3, <1>l, <2>2 DEF Leave
    <3>2. PICK D \in SUBSET User, ps \in Seq(Type) : link' = To(w, D, ps)
      BY <1>3, <2>p, Sent DEF Leave
    <3>3. link'[u][v] = link[u][v]
      <4>1. link'[u] = link[u]
        BY <1>l, <2>2, <3>2, ToLinks
      <4> QED BY <4>1
    <3>4. u \in peers'[v] => u \in peers[v]
      BY <2>p, <3>1
    <3> QED BY <1>i, <2>p, <3>1, <3>3, <3>4, LeavingKept
  <2> QED BY <2>1, <2>2
<1>4. ASSUME NEW w \in User, Crash(w) PROVE Leaving(u, v)'
  <2>1. v \in left[u] /\ UNCHANGED link /\ u \notin in'
    BY <1>4, <1>i DEF Crash, Over
  <2>2. u \in peers'[v] => u \in peers[v]
    BY <1>4, <1>i, <1>t, <2>1 DEF Crash, Over, TypeOK
  <2> QED BY <1>i, <2>1, <2>2, LeavingKept
<1>5. ASSUME NEW w \in User, Share(w) PROVE Leaving(u, v)'
  BY <1>5, <1>i, LeavingKept DEF Share
<1>6. ASSUME NEW w \in User, Speak(w) PROVE Leaving(u, v)'
  <2>1. v \in left[u] /\ u # w /\ UNCHANGED <<in, peers>>
    BY <1>6, <1>i DEF Speak
  <2>2. link'[u][v] = link[u][v]
    <3>1. PICK D \in SUBSET User, ps \in Seq(Type) : link' = To(w, D, ps)
      <4>1. {x \in peers[w] : link[w][x] = <<>>} \in SUBSET User
        BY <1>t DEF TypeOK
      <4> QED BY <1>6, <4>1, Sent DEF Speak
    <3>2. link'[u] = link[u]
      BY <1>l, <2>1, <3>1, ToLinks
    <3> QED BY <3>2
  <2> QED BY <1>i, <2>1, <2>2, LeavingKept
<1>7. ASSUME NEW w \in User, NEW x \in User \ {w}, Receive(w, x) PROVE Leaving(u, v)'
  <2>1. v \in left[u] /\ v \in User /\ UNCHANGED in /\ u \notin in
    BY <1>7, <1>i DEF Receive
  <2>2. CASE u = x /\ v = w
    <3> DEFINE q == link[x][w]
    <3>1. q \in Seq(Type) /\ q # <<>> /\ q[Len(q)] = "HANGUP"
      BY <1>7, <1>i, <1>l, <2>1, <2>2 DEF Receive, Leaving
    <3>2. link'[x][w] = Tail(q)
      <4> DEFINE rest == [link EXCEPT ![x][w] = Tail(@)]
      <4>1. rest[x][w] = Tail(q) /\ rest \in [User -> [User -> Seq(Type)]]
        <5>1. Tail(q) \in Seq(Type)
          BY <3>1
        <5> QED BY <1>l, <5>1
      <4>2. PICK r : link' = rest \/ link' = [rest EXCEPT ![w][x] = r]
        BY <1>7 DEF Receive
      <4> HIDE DEF rest
      <4> QED BY <4>1, <4>2, w # x
    <3>3. w \in in => peers'[w] = KnownAfter(w, x, Head(q))
      BY <1>7, <1>t DEF Receive, TypeOK
    <3>4. w \notin in => peers'[w] = peers[w]
      BY <1>7 DEF Receive
    <3>5. CASE Tail(q) # <<>>
      <4>1. Tail(q)[Len(Tail(q))] = "HANGUP"
        BY <3>1, <3>5, LastOf
      <4> QED BY <2>1, <2>2, <3>2, <3>5, <4>1 DEF Leaving
    <3>6. CASE Tail(q) = <<>>
      <4>1. Head(q) = "HANGUP"
        BY <3>1, <3>6, LastOf
      <4>2. x \notin peers'[w]
        BY <2>1, <2>2, <3>3, <3>4, <4>1 DEF Inv, OutKnowsNobody, KnownAfter
      <4> QED BY <2>1, <2>2, <3>2, <3>6, <4>2 DEF Leaving
    <3> QED BY <3>5, <3>6
  <2>3. CASE ~(u = x /\ v = w)
    <3>1. link'[u][v] = link[u][v]
      BY SMTT(20), <1>7, <1>l, <2>1, <2>3 DEF Receive
    <3>2. u \in peers'[v] => u \in peers[v]
      <4>1. PICK S : /\ peers' = peers \/ peers' = [peers EXCEPT ![w] = S]
                     /\ S = peers[w] \ {x} \/ S = peers[w] \cup {x}
        BY <1>7 DEF Receive, KnownAfter
      <4>2. v # w => peers'[v] = peers[v]
        BY <1>t, <2>1, <4>1 DEF TypeOK
      <4>3. v = w => peers'[v] \subseteq peers[v] \cup {x}
        <5>1. peers'[w] = peers[w] \/ peers'[w] = S
          BY <1>t, <4>1 DEF TypeOK
        <5> QED BY <4>1, <5>1
      <4> QED BY <2>3, <4>2, <4>3
    <3> QED BY <1>i, <2>1, <3>1, <3>2, LeavingKept
  <2> QED BY <2>2, <2>3
<1>8. ASSUME NEW w \in User, NEW x \in User \ {w}, RemoveSilent(w, x) PROVE Leaving(u, v)'
  <2>1. v \in left[u] /\ UNCHANGED <<in, link>> /\ u \notin in
    BY <1>8, <1>i DEF RemoveSilent
  <2>2. u \in peers'[v] => u \in peers[v]
    BY <1>8, <1>i, <1>t, <2>1 DEF RemoveSilent, TypeOK
  <2> QED BY <1>i, <2>1, <2>2, LeavingKept
<1> QED BY <1>1, <1>2, <1>3, <1>4, <1>5, <1>6, <1>7, <1>8 DEF Next

\* From the first state on.
LEMMA InvHolds ==
  ASSUME P2PCallAssumption
  PROVE  Spec => []Inv
<1>1. Init => Inv
  <2>1. <<>> \in Seq(Type)
    OBVIOUS
  <2> QED BY <2>1 DEF Init, Inv, TypeOK, OutKnowsNobody, P2PCallAssumption
<1>2. Inv /\ [Next]_vars => Inv'
  BY InvStep
<1> QED BY <1>1, <1>2, PTL DEF Spec

----------------------------------------------------------------------------
\* For any users, every variable keeps its type: nobody knows itself, and only
\* who is in a call shares.
THEOREM MeshTypes ==
  ASSUME P2PCallAssumption
  PROVE  Spec => []TypeOK
<1>1. Inv => TypeOK
  BY DEF Inv
<1> QED BY <1>1, InvHolds, PTL

\* The HANGUP of run_p2p_call and what is received after it: a user who hung up
\* without a share is forgotten by all it knew, whoever came and went meanwhile.
THEOREM MeshForgetsLeavers ==
  ASSUME P2PCallAssumption
  PROVE  Spec => []LeaversAreForgotten
<1>1. Inv => LeaversAreForgotten
  BY DEF Inv, Leaving, LeaversAreForgotten
<1> QED BY <1>1, InvHolds, PTL

----------------------------------------------------------------------------
(* Who is in a call with whom *)

\* The last word of a user who is in a call is no HANGUP: it said HELLO since.
LastWord(u, v) == link[u][v] # <<>> => link[u][v][Len(link[u][v])] # "HANGUP"

\* Two users in a call know of each other, or a packet between them is under way.
Acquainted(u, v) ==
  link[u][v] # <<>> \/ link[v][u] # <<>> \/ u \in peers[v] \/ v \in peers[u]

\* What those in a call rely on.
MeetInv ==
  /\ TypeOK
  /\ \A u \in in : \A v \in User \ {u} : LastWord(u, v)
  /\ \A u, v \in in : u # v => Acquainted(u, v)

\* What receiving does to the links.
LEMMA ReceiveLinks ==
  ASSUME TypeOK, NEW w \in User, NEW x \in User \ {w}, Receive(w, x)
  PROVE  /\ link'[x][w] = Tail(link[x][w])
         /\ link'[w][x] = link[w][x] \/ link'[w][x] = link[w][x] \o <<"HELLO">>
         /\ \A u, v \in User : <<u, v>> \notin {<<w, x>>, <<x, w>>} => link'[u][v] = link[u][v]
<1>l. link \in [User -> [User -> Seq(Type)]]
  BY DEF TypeOK
<1> DEFINE rest == [link EXCEPT ![x][w] = Tail(@)]
<1>1. link' = rest \/ link' = [rest EXCEPT ![w][x] = @ \o Answer(w, x)]
  BY DEF Receive
<1>2. /\ rest \in [User -> [User -> Seq(Type)]] /\ rest[x][w] = Tail(link[x][w])
      /\ \A u, v \in User : u # x \/ v # w => rest[u][v] = link[u][v]
  <2>1. Tail(link[x][w]) \in Seq(Type)
    BY <1>l DEF Receive
  <2> QED BY <1>l, <2>1
<1> HIDE DEF rest
<1>3. rest[w][x] \o Answer(w, x) \in {rest[w][x], rest[w][x] \o <<"HELLO">>}
  <2>1. rest[w][x] \o <<>> = rest[w][x]
    BY <1>2
  <2> QED BY <2>1 DEF Answer
<1>4. PICK q : /\ link' = rest \/ link' = [rest EXCEPT ![w][x] = q]
               /\ q = rest[w][x] \/ q = rest[w][x] \o <<"HELLO">>
  BY <1>1, <1>3
<1>5. /\ link'[w][x] = rest[w][x] \/ link'[w][x] = q
      /\ \A u, v \in User : u # w \/ v # x => link'[u][v] = rest[u][v]
  BY SMTT(20), <1>2, <1>4
<1> QED BY <1>2, <1>4, <1>5

\* What sending a packet does to the links.
LEMMA SendLinks ==
  ASSUME TypeOK, NEW w \in User, NEW D \in SUBSET User, NEW p \in Type, link' = To(w, D, <<p>>)
  PROVE  \A u, v \in User :
           link'[u][v] = IF u = w /\ v \in D THEN link[u][v] \o <<p>> ELSE link[u][v]
<1>1. link \in [User -> [User -> Seq(Type)]]
  BY DEF TypeOK
<1> QED BY <1>1 DEF To

\* Sending keeps what is last and what is under way.
LEMMA SendKeeps ==
  ASSUME TypeOK, NEW w \in User, NEW D \in SUBSET User, NEW p \in Type \ {"HANGUP"},
         link' = To(w, D, <<p>>), NEW u \in User, NEW v \in User
  PROVE  /\ link[u][v] # <<>> => link'[u][v] # <<>>
         /\ LastWord(u, v) => LastWord(u, v)'
         /\ u = w /\ v \in D => link'[u][v] # <<>> /\ LastWord(u, v)'
<1>1. link[u][v] \in Seq(Type)
  BY DEF TypeOK
<1>2. link[u][v] \o <<p>> # <<>> /\ (link[u][v] \o <<p>>)[Len(link[u][v] \o <<p>>)] = p
  BY <1>1, LastOf
<1>3. link'[u][v] = IF u = w /\ v \in D THEN link[u][v] \o <<p>> ELSE link[u][v]
  BY SendLinks
<1> QED BY <1>2, <1>3 DEF LastWord

\* Whoever is in a call has greeted the others, and is known or about to be.
LEMMA MeetStep ==
  ASSUME P2PCallAssumption, MeetInv, [Next]_vars
  PROVE  MeetInv'
<1>t. TypeOK /\ TypeOK'
  BY TypeStep DEF MeetInv
<1>i. /\ in \subseteq User /\ peers \in [User -> SUBSET User]
      /\ link \in [User -> [User -> Seq(Type)]]
  BY <1>t DEF TypeOK
<1>m. /\ \A u \in in : \A v \in User \ {u} : LastWord(u, v)
      /\ \A u, v \in in : u # v => Acquainted(u, v)
  BY DEF MeetInv
<1>h. "HELLO" \in Type \ {"HANGUP"} /\ "VOICE" \in Type \ {"HANGUP"}
  BY DEF Type
<1> DEFINE Meet == /\ \A u \in in : \A v \in User \ {u} : LastWord(u, v)
                   /\ \A u, v \in in : u # v => Acquainted(u, v)
<1> SUFFICES Meet'
  BY <1>t DEF MeetInv
<1>1. CASE UNCHANGED <<in, peers, link>>
  BY <1>1, <1>m DEF LastWord, Acquainted
<1>2. ASSUME NEW w \in User, Start(w) PROVE Meet'
  <2>1. /\ in' = in \cup {w} /\ peers' = peers
        /\ link' = To(w, User \ {w}, <<"HELLO">>)
    BY <1>2 DEF Start
  <2>2. \A u, v \in User : /\ link[u][v] # <<>> => link'[u][v] # <<>>
                           /\ LastWord(u, v) => LastWord(u, v)'
                           /\ u = w /\ v # w => link'[u][v] # <<>> /\ LastWord(u, v)'
    <3>1. User \ {w} \in SUBSET User
      OBVIOUS
    <3> QED BY <1>t, <1>h, <2>1, <3>1, SendKeeps
  <2>4. \A u \in in' : \A v \in User \ {u} : LastWord(u, v)'
    BY <1>i, <1>m, <2>1, <2>2
  <2>5. ASSUME NEW u \in in', NEW v \in in', u # v PROVE Acquainted(u, v)'
    BY ZenonT(40), <1>i, <1>m, <2>1, <2>2, <2>5 DEF Acquainted
  <2> QED BY <2>4, <2>5
<1>3. ASSUME NEW w \in User, Leave(w) \/ Crash(w) PROVE Meet'
  <2>1. in' = in \ {w} /\ \A u \in User : u # w => link'[u] = link[u] /\ peers'[u] = peers[u]
    BY <1>3, <1>i DEF Leave, Crash, Over, To
  <2>2. ASSUME NEW u \in in', NEW v \in User \ {u} PROVE LastWord(u, v)'
    <3>1. LastWord(u, v)
      BY <1>m, <2>1, <2>2
    <3>2. link'[u] = link[u]
      BY <1>i, <2>1
    <3> QED BY <3>1, <3>2 DEF LastWord
  <2>3. ASSUME NEW u \in in', NEW v \in in', u # v PROVE Acquainted(u, v)'
    <3>1. Acquainted(u, v)
      BY <1>m, <2>1, <2>3
    <3>2. u \in User /\ v \in User /\ u # w /\ v # w
      BY <1>i, <2>1
    <3> QED BY <2>1, <3>1, <3>2 DEF Acquainted
  <2> QED BY <2>2, <2>3
<1>4. ASSUME NEW w \in User, Speak(w) PROVE Meet'
  <2> DEFINE D == {v \in peers[w] : link[w][v] = <<>>}
  <2>1. in' = in /\ peers' = peers /\ link' = To(w, D, <<"VOICE">>)
    BY <1>4 DEF Speak
  <2>2. \A u, v \in User : /\ link[u][v] # <<>> => link'[u][v] # <<>>
                           /\ LastWord(u, v) => LastWord(u, v)'
    <3>1. D \in SUBSET User
      BY <1>i
    <3> HIDE DEF D
    <3> QED BY <1>t, <1>h, <2>1, <3>1, SendKeeps
  <2>4. \A u \in in' : \A v \in User \ {u} : LastWord(u, v)'
    BY <1>i, <1>m, <2>1, <2>2
  <2>5. ASSUME NEW u \in in', NEW v \in in', u # v PROVE Acquainted(u, v)'
    BY <1>i, <1>m, <2>1, <2>2, <2>5 DEF Acquainted
  <2> QED BY <2>4, <2>5
<1>5. ASSUME NEW w \in User, NEW x \in User \ {w}, Receive(w, x) PROVE Meet'
  <2>1. /\ in' = in /\ link[x][w] # <<>> /\ link'[x][w] = Tail(link[x][w])
        /\ link'[w][x] = link[w][x] \/ link'[w][x] = link[w][x] \o <<"HELLO">>
        /\ \A u, v \in User : <<u, v>> \notin {<<w, x>>, <<x, w>>} => link'[u][v] = link[u][v]
    BY <1>t, <1>5, ReceiveLinks DEF Receive
  <2>2. /\ \A u \in User : u # w => peers'[u] = peers[u]
        /\ \A v \in User : v # x => (v \in peers'[w] <=> v \in peers[w])
        /\ w \in in /\ Head(link[x][w]) # "HANGUP" => x \in peers'[w]
    BY <1>5, <1>i DEF Receive, KnownAfter
  <2>3. /\ Tail(link[x][w]) # <<>> => Tail(link[x][w])[Len(Tail(link[x][w]))] = link[x][w][Len(link[x][w])]
        /\ Tail(link[x][w]) = <<>> => Head(link[x][w]) = link[x][w][Len(link[x][w])]
    <3>1. link[x][w] \in Seq(Type)
      BY <1>i
    <3> QED BY <2>1, <3>1, LastOf
  <2>4. link[w][x] # <<>> \/ link'[w][x] # link[w][x] => link'[w][x] # <<>>
    <3>1. link[w][x] \in Seq(Type)
      BY <1>i
    <3>2. link[w][x] \o <<"HELLO">> # <<>>
      BY <1>h, <3>1, LastOf
    <3> QED BY <2>1, <3>2
  <2>5. ASSUME NEW u \in in, NEW v \in User \ {u} PROVE LastWord(u, v)'
    <3>1. CASE u = x /\ v = w
      BY ZenonT(40), <1>m, <2>1, <2>3, <2>5, <3>1 DEF LastWord
    <3>2. CASE u = w /\ v = x
      <4>1. link[w][x] \in Seq(Type)
        BY <1>i
      <4>2. (link[w][x] \o <<"HELLO">>)[Len(link[w][x] \o <<"HELLO">>)] = "HELLO"
        BY <1>h, <4>1, LastOf
      <4> QED BY <1>m, <2>1, <2>5, <3>2, <4>2 DEF LastWord
    <3>3. CASE <<u, v>> \notin {<<w, x>>, <<x, w>>}
      <4>1. LastWord(u, v) /\ u \in User
        BY <1>i, <1>m, <2>5
      <4>2. link'[u][v] = link[u][v]
        BY <2>1, <2>5, <3>3, <4>1
      <4> QED BY <4>1, <4>2 DEF LastWord
    <3> QED BY <2>5, <3>1, <3>2, <3>3
  <2>6. ASSUME NEW u \in in, NEW v \in in, u # v PROVE Acquainted(u, v)'
    <3>1. CASE <<u, v>> \in {<<w, x>>, <<x, w>>}
      <4>1. w \in in /\ x \in in
        BY <2>6, <3>1
      <4>2. link'[x][w] # <<>> \/ x \in peers'[w]
        BY SMTT(20), <1>i, <1>m, <2>1, <2>2, <2>3, <4>1 DEF LastWord
      <4> QED BY <2>6, <3>1, <4>2 DEF Acquainted
    <3>2. CASE <<u, v>> \notin {<<w, x>>, <<x, w>>}
      <4>1. /\ link'[u][v] = link[u][v] /\ link'[v][u] = link[v][u]
            /\ u \in peers[v] => u \in peers'[v]
            /\ v \in peers[u] => v \in peers'[u]
        BY <1>i, <2>1, <2>2, <2>6, <3>2
      <4> QED BY <1>m, <2>6, <4>1 DEF Acquainted
    <3> QED BY <3>1, <3>2
  <2> QED BY <2>1, <2>5, <2>6
<1>6. ASSUME NEW w \in User, NEW x \in User \ {w}, RemoveSilent(w, x) PROVE Meet'
  <2>1. /\ in' = in /\ link' = link /\ x \notin in
        /\ \A u \in User : u # w => peers'[u] = peers[u]
        /\ \A v \in User : v # x => (v \in peers'[w] <=> v \in peers[w])
    BY <1>6, <1>i DEF RemoveSilent, Silent
  <2> QED BY ZenonT(40), <1>i, <1>m, <2>1 DEF LastWord, Acquainted
<1> QED BY <1>1, <1>2, <1>3, <1>4, <1>5, <1>6 DEF Next, vars, Share

----------------------------------------------------------------------------
\* The three HELLOs of run_p2p_call, the answer to a new peer and the timeout:
\* of two users in a call with nothing under way between them one knows the
\* other, whoever crashed, hung up and came back in whatever order.
THEOREM MeshMeets ==
  ASSUME P2PCallAssumption
  PROVE  Spec => []OneKnowsTheOther
<1>1. Init => MeetInv
  <2>1. Init => TypeOK
    <3>1. <<>> \in Seq(Type)
      OBVIOUS
    <3> QED BY <3>1 DEF Init, TypeOK, P2PCallAssumption
  <2> QED BY <2>1 DEF Init, MeetInv
<1>2. MeetInv /\ [Next]_vars => MeetInv'
  BY MeetStep
<1>3. MeetInv => OneKnowsTheOther
  BY DEF MeetInv, Acquainted, OneKnowsTheOther
<1> QED BY <1>1, <1>2, <1>3, PTL DEF Spec
=============================================================================
