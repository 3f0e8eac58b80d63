--------------------------- MODULE DesktopProofs ----------------------------
(* Proofs about the programs a user runs and the daemon they talk to: one    *)
(* daemon serves at a time, unless two starts overlapped; a client's         *)
(* requests are carried out once at most and in order; jacal's screen shows  *)
(* what is so, and its dialogs act on the event they name.                   *)
EXTENDS Daemon, CalApp, FiniteSetTheorems, WellFoundedInduction, TLAPS

-----------------------------------------------------------------------------
(* The daemon *)

-----------------------------------------------------------------------------
\* What makes a lone start safe: while no two starts have overlapped, a daemon
\* that listens is the one the file at the path belongs to, and a start that is
\* past its probe has nobody to take the path from.
Alone ==
  ~overlap =>
    /\ \A d, e \in Daemons : phase[d] \in Starting /\ phase[e] \in Starting => d = e
    /\ \A d \in Daemons : Listening(d) => path = d
    /\ \A d, e \in Daemons : phase[e] \in {"removing", "rebinding"} => ~Listening(d)

Inductive ==
  /\ phase \in [Daemons -> Starting \cup {"off", "up", "unlinked", "gone"}]
  /\ Alone

LEMMA InitInductive == Init => Inductive
  BY DaemonAssumption DEF Init, Inductive, Alone, Starting, Listening

\* A step that moves no daemon and leaves the path alone keeps the invariant.
LEMMA OthersKeep ==
  ASSUME Inductive, UNCHANGED <<path, phase, overlap>>
  PROVE  Inductive'
  BY DEF Inductive, Alone, Listening

\* A daemon that ends takes nothing from the others.
LEMMA EndsKeep ==
  ASSUME Inductive, NEW d \in Daemons, Moves(d, "gone"), UNCHANGED <<path, overlap>>
  PROVE  Inductive'
  BY DEF Inductive, Alone, Listening, Starting, Moves

LEMMA LifeKeeps ==
  ASSUME Inductive, NEW d \in Daemons, LifeStep(d)
  PROVE  Inductive'
<1> USE DaemonAssumption
<1>1. CASE Start(d)
  BY <1>1 DEF Start, Inductive, Alone, Listening, Starting, Moves
<1>2. CASE Bind(d)
  <2>1. CASE path = NoDaemon
    <3>1. path' = d /\ Moves(d, "chmod") /\ UNCHANGED overlap
      BY <1>2, <2>1 DEF Bind
    <3> QED
      BY <1>2, <2>1, <3>1 DEF Bind, Inductive, Alone, Listening, Starting, Moves
  <2>2. CASE path # NoDaemon
    BY <1>2, <2>2 DEF Bind, Inductive, Alone, Listening, Starting, Moves
  <2> QED
    BY <2>1, <2>2
<1>3. CASE Probe(d)
  <2>1. CASE path # NoDaemon /\ Listening(path)
    BY <1>3, <2>1, EndsKeep DEF Probe
  <2>2. CASE ~(path # NoDaemon /\ Listening(path))
    BY <1>3, <2>2 DEF Probe, Inductive, Alone, Listening, Starting, Moves
  <2> QED
    BY <2>1, <2>2
<1>4. CASE RemoveStale(d)
  BY <1>4 DEF RemoveStale, Inductive, Alone, Listening, Starting, Moves
<1>5. CASE SetPermissions(d)
  BY <1>5 DEF SetPermissions, Inductive, Alone, Listening, Starting, Moves
<1>6. CASE Unlink(d)
  BY <1>6 DEF Unlink, Serving, Inductive, Alone, Listening, Starting, Moves
<1>7. CASE Exit(d)
  BY <1>7, EndsKeep DEF Exit, Dies
<1>8. CASE Kill(d)
  BY <1>8, EndsKeep DEF Kill, Dies
<1> QED
  BY <1>1, <1>2, <1>3, <1>4, <1>5, <1>6, <1>7, <1>8 DEF LifeStep

\* What the connections do leaves the socket alone.
LEMMA WorkLeavesTheSocket ==
  ASSUME NEW d \in Daemons, Commit(d) \/ Broadcast(d)
  PROVE  UNCHANGED <<path, phase, overlap>>
  BY DEF Commit, Broadcast, daemonVars

LEMMA ClientsLeaveTheSocket ==
  ASSUME NEW c \in Clients, ClientStep(c)
  PROVE  UNCHANGED <<path, phase, overlap>>
  BY DEF ClientStep, Connect, Greet, Register, Connected, Fatal, Disconnected, Write, Reload,
         Send, Forward, ForwardOversized, Handle, HandleBehind, daemonVars

LEMMA NextKeeps == Inductive /\ [Next]_vars => Inductive'
<1> SUFFICES ASSUME Inductive, [Next]_vars
             PROVE  Inductive'
  OBVIOUS
<1>1. ASSUME NEW d \in Daemons, LifeStep(d)
      PROVE  Inductive'
  BY <1>1, LifeKeeps
<1>2. ASSUME NEW d \in Daemons, Commit(d) \/ Broadcast(d)
      PROVE  Inductive'
  BY <1>2, WorkLeavesTheSocket, OthersKeep
<1>3. ASSUME NEW c \in Clients, ClientStep(c)
      PROVE  Inductive'
  BY <1>3, ClientsLeaveTheSocket, OthersKeep
<1>4. CASE UNCHANGED vars
  BY <1>4, OthersKeep DEF vars, daemonVars
<1> QED
  BY <1>1, <1>2, <1>3, <1>4 DEF Next

\* For any number of daemons started and killed in any order, two serve at
\* once only if two starts overlapped (bind_or_recover, the watcher's unlink).
THEOREM OneDaemonServes == Spec => []OneServes
<1>1. Inductive => OneServes
  BY DEF Inductive, Alone, OneServes, Serving, Listening
<1> QED
  BY <1>1, InitInductive, NextKeeps, PTL DEF Spec

----------------------------------------------------------------------------
(* The order of a client's requests.  What the daemons have carried out,    *)
(* `a`, what is left in a connection the client gave up, `b`, what is in    *)
(* the socket, `w`, and what the client has queued, `q`, share no request;  *)
(* unless a frame was too large they are, in this order, in the order sent. *)

Rising(s) == \A i, j \in DOMAIN s : i < j => s[i] < s[j]
Different(s) == \A i, j \in DOMAIN s : i < j => s[i] # s[j]
Within(s, n) == \A i \in DOMAIN s : s[i] \in 1 .. n
Ahead(s, t) == \A i \in DOMAIN s, j \in DOMAIN t : s[i] < t[j]
Apart(s, t) == \A i \in DOMAIN s, j \in DOMAIN t : s[i] # t[j]
Below(s, x) == \A i \in DOMAIN s : s[i] < x
Above(x, s) == \A i \in DOMAIN s : x < s[i]
Avoids(s, x) == \A i \in DOMAIN s : s[i] # x

InOrder(a, b, w, q, n, large) ==
  /\ Rising(b) /\ Rising(w) /\ Rising(q)
  /\ Ahead(b, w) /\ Ahead(b, q) /\ Ahead(w, q)
  /\ Different(a) /\ Apart(a, b) /\ Apart(a, w) /\ Apart(a, q)
  /\ Within(a, n) /\ Within(b, n) /\ Within(w, n) /\ Within(q, n)
  /\ large = {} => Rising(a) /\ Ahead(a, w) /\ Ahead(a, q) /\ b = <<>>

\* What a request added at the end, or taken from the front, leaves of these.
LEMMA AppendAt ==
  ASSUME NEW s \in Seq(Nat), NEW x \in Nat
  PROVE  /\ Append(s, x) \in Seq(Nat)
         /\ \A i \in DOMAIN Append(s, x) :
              \/ i \in DOMAIN s /\ Append(s, x)[i] = s[i]
              \/ Append(s, x)[i] = x /\ \A j \in DOMAIN s : j < i
         /\ \A i, j \in DOMAIN Append(s, x) : i \in DOMAIN s \/ j \in DOMAIN s \/ i = j
OBVIOUS

LEMMA AppendAlone ==
  ASSUME NEW s \in Seq(Nat), NEW x \in Nat
  PROVE  /\ Append(s, x) \in Seq(Nat)
         /\ Rising(s) /\ Below(s, x) => Rising(Append(s, x))
         /\ Different(s) /\ Avoids(s, x) => Different(Append(s, x))
         /\ \A n \in Nat : Within(s, n) /\ x \in 1 .. n => Within(Append(s, x), n)
<1>0. Append(s, x) \in Seq(Nat)
      OBVIOUS
<1>1. PICK p \in Seq(Nat) :
        /\ p = Append(s, x)
        /\ \A i \in DOMAIN p : \/ i \in DOMAIN s /\ p[i] = s[i]
                               \/ p[i] = x /\ \A j \in DOMAIN s : j < i
        /\ \A i, j \in DOMAIN p : i \in DOMAIN s \/ j \in DOMAIN s \/ i = j
      BY <1>0, AppendAt
<1>2. ASSUME NEW i \in DOMAIN p, NEW j \in DOMAIN p, i < j
      PROVE  i \in DOMAIN s /\ p[i] = s[i] /\ ((j \in DOMAIN s /\ p[j] = s[j]) \/ p[j] = x)
  <2>1. i \in Nat /\ j \in Nat
        OBVIOUS
  <2>2. i \in DOMAIN s /\ \A k \in DOMAIN s : k \in Nat
        BY <1>1, <1>2, <2>1
  <2> QED BY <1>1, <1>2, <2>1, <2>2
<1>3. Rising(s) /\ Below(s, x) => Rising(p)
      BY <1>2 DEF Rising, Below
<1>4. Different(s) /\ Avoids(s, x) => Different(p)
      BY <1>2 DEF Different, Avoids
<1>5. \A n \in Nat : Within(s, n) /\ x \in 1 .. n => Within(p, n)
      BY <1>1 DEF Within
<1> QED BY <1>1, <1>3, <1>4, <1>5

LEMMA AppendBeside ==
  ASSUME NEW s \in Seq(Nat), NEW x \in Nat, NEW t \in Seq(Nat)
  PROVE  /\ Ahead(s, t) /\ Above(x, t) => Ahead(Append(s, x), t)
         /\ Ahead(t, s) /\ Below(t, x) => Ahead(t, Append(s, x))
         /\ Apart(s, t) /\ Avoids(t, x) => Apart(Append(s, x), t)
         /\ Apart(t, s) /\ Avoids(t, x) => Apart(t, Append(s, x))
<1>0. Append(s, x) \in Seq(Nat)
      OBVIOUS
<1>1. PICK p \in Seq(Nat) :
        /\ p = Append(s, x)
        /\ \A i \in DOMAIN p : (i \in DOMAIN s /\ p[i] = s[i]) \/ p[i] = x
      BY <1>0, AppendAt
<1> QED BY <1>1 DEF Ahead, Apart, Above, Below, Avoids

LEMMA TailAt ==
  ASSUME NEW s \in Seq(Nat), s # <<>>
  PROVE  /\ Tail(s) \in Seq(Nat) /\ Head(s) \in Nat
         /\ 1 \in DOMAIN s /\ Head(s) = s[1]
         /\ \A i \in DOMAIN Tail(s) :
              i \in Nat /\ i >= 1 /\ i + 1 \in DOMAIN s /\ Tail(s)[i] = s[i + 1]
<1>1. Len(s) \in Nat /\ Len(s) # 0
      OBVIOUS
<1> QED BY <1>1

LEMMA TailAlone ==
  ASSUME NEW s \in Seq(Nat), s # <<>>
  PROVE  /\ Tail(s) \in Seq(Nat) /\ Head(s) \in Nat
         /\ Rising(s) => Rising(Tail(s)) /\ Above(Head(s), Tail(s))
         /\ \A n \in Nat : Within(s, n) => Within(Tail(s), n) /\ Head(s) \in 1 .. n
<1>1. PICK t \in Seq(Nat), x \in Nat :
        /\ t = Tail(s) /\ x = Head(s) /\ 1 \in DOMAIN s /\ x = s[1]
        /\ \A i \in DOMAIN t : i \in Nat /\ i >= 1 /\ i + 1 \in DOMAIN s /\ t[i] = s[i + 1]
      BY TailAt
<1>2. Rising(s) => Rising(t)
      BY <1>1 DEF Rising
<1>3. Rising(s) => Above(x, t)
      BY <1>1 DEF Rising, Above
<1>4. \A n \in Nat : Within(s, n) => Within(t, n) /\ x \in 1 .. n
      BY <1>1 DEF Within
<1> QED BY <1>1, <1>2, <1>3, <1>4

LEMMA TailBeside ==
  ASSUME NEW s \in Seq(Nat), s # <<>>, NEW t \in Seq(Nat)
  PROVE  /\ Ahead(s, t) => Ahead(Tail(s), t) /\ Above(Head(s), t)
         /\ Ahead(t, s) => Ahead(t, Tail(s)) /\ Below(t, Head(s))
         /\ Apart(s, t) => Apart(Tail(s), t) /\ Avoids(t, Head(s))
         /\ Apart(t, s) => Apart(t, Tail(s)) /\ Avoids(t, Head(s))
<1>1. PICK p \in Seq(Nat), x \in Nat :
        /\ p = Tail(s) /\ x = Head(s) /\ 1 \in DOMAIN s /\ x = s[1]
        /\ \A i \in DOMAIN p : i + 1 \in DOMAIN s /\ p[i] = s[i + 1]
      BY TailAt
<1> QED BY <1>1 DEF Ahead, Apart, Above, Below, Avoids

LEMMA Sends ==
  ASSUME NEW a \in Seq(Nat), NEW b \in Seq(Nat), NEW w \in Seq(Nat), NEW q \in Seq(Nat),
         NEW n \in Nat, NEW large, InOrder(a, b, w, q, n, large)
  PROVE  InOrder(a, b, w, Append(q, n + 1), n + 1, large)
<1>1. PICK m \in Nat : m = n + 1
      OBVIOUS
<1>2. \A s \in Seq(Nat) : Within(s, n) => Within(s, m) /\ Below(s, m) /\ Avoids(s, m)
      BY <1>1 DEF Within, Below, Avoids
<1>3. PICK p \in Seq(Nat) : p = Append(q, m)
      BY AppendAlone
<1>4. m \in 1 .. m
      BY <1>1
<1>5. /\ Within(a, m) /\ Within(b, m) /\ Within(w, m) /\ Within(q, m)
      /\ Below(b, m) /\ Below(w, m) /\ Below(q, m) /\ Avoids(a, m) /\ Below(a, m)
      BY <1>2 DEF InOrder
<1>6. Rising(p) /\ Within(p, m)
      BY <1>3, <1>4, <1>5, AppendAlone DEF InOrder
<1>7. Ahead(b, p) /\ Ahead(w, p) /\ Apart(a, p) /\ (large = {} => Ahead(a, p))
      BY <1>3, <1>5, AppendBeside DEF InOrder
<1>8. InOrder(a, b, w, p, m, large)
      BY <1>5, <1>6, <1>7 DEF InOrder
<1> QED BY <1>1, <1>3, <1>8

LEMMA Forwards ==
  ASSUME NEW a \in Seq(Nat), NEW b \in Seq(Nat), NEW w \in Seq(Nat), NEW q \in Seq(Nat),
         NEW n \in Nat, NEW large, InOrder(a, b, w, q, n, large), q # <<>>
  PROVE  InOrder(a, b, Append(w, Head(q)), Tail(q), n, large)
<1>1. PICK t \in Seq(Nat), x \in Nat : t = Tail(q) /\ x = Head(q)
      BY TailAlone
<1>2. /\ Rising(t) /\ Above(x, t) /\ Within(t, n) /\ x \in 1 .. n
      /\ Ahead(b, t) /\ Below(b, x) /\ Ahead(w, t) /\ Below(w, x) /\ Apart(a, t) /\ Avoids(a, x)
      /\ large = {} => Ahead(a, t) /\ Below(a, x)
      BY <1>1, TailAlone, TailBeside DEF InOrder
<1>3. PICK p \in Seq(Nat) : p = Append(w, x)
      BY AppendAlone
<1>4. Rising(p) /\ Within(p, n)
      BY <1>2, <1>3, AppendAlone DEF InOrder
<1>5. Ahead(b, p) /\ Ahead(p, t) /\ Apart(a, p) /\ (large = {} => Ahead(a, p))
      BY <1>2, <1>3, AppendBeside DEF InOrder
<1> QED BY <1>1, <1>2, <1>3, <1>4, <1>5 DEF InOrder

\* Requests that are lost, in the socket or on their way into it.
LEMMA Loses ==
  ASSUME NEW a \in Seq(Nat), NEW b \in Seq(Nat), NEW w \in Seq(Nat), NEW q \in Seq(Nat),
         NEW n \in Nat, NEW large, InOrder(a, b, w, q, n, large)
  PROVE  /\ InOrder(a, b, <<>>, q, n, large) /\ InOrder(a, <<>>, w, q, n, large)
         /\ InOrder(a, <<>>, <<>>, q, n, large)
         /\ q # <<>> => InOrder(a, b, w, Tail(q), n, large)
<1>1. PICK e \in Seq(Nat) : e = <<>> /\ DOMAIN e = {}
  <2>1. <<>> \in Seq(Nat) /\ DOMAIN <<>> = {}
        OBVIOUS
  <2> QED BY <2>1
<1>2. Rising(e) /\ Within(e, n) /\ \A s \in Seq(Nat) : Ahead(e, s) /\ Ahead(s, e) /\ Apart(s, e)
      BY <1>1 DEF Rising, Within, Ahead, Apart
<1>3. /\ InOrder(a, b, e, q, n, large) /\ InOrder(a, e, w, q, n, large)
      /\ InOrder(a, e, e, q, n, large)
      BY <1>1, <1>2 DEF InOrder
<1>4. q # <<>> => InOrder(a, b, w, Tail(q), n, large)
      BY TailAlone, TailBeside DEF InOrder
<1> QED BY <1>1, <1>3, <1>4

\* The connection is given up: what is in the socket stays behind.
LEMMA Leaves ==
  ASSUME NEW a \in Seq(Nat), NEW b \in Seq(Nat), NEW w \in Seq(Nat), NEW q \in Seq(Nat),
         NEW n \in Nat, NEW large, InOrder(a, b, w, q, n, large)
  PROVE  \A more : more # {} => InOrder(a, w, <<>>, q, n, more)
<1>1. Rising(<<>>) /\ Within(<<>>, n)
      BY DEF Rising, Within
<1>2. \A s \in Seq(Nat) : Ahead(<<>>, s) /\ Ahead(s, <<>>) /\ Apart(s, <<>>)
      BY DEF Ahead, Apart
<1> QED BY <1>1, <1>2 DEF InOrder

LEMMA Handles ==
  ASSUME NEW a \in Seq(Nat), NEW b \in Seq(Nat), NEW w \in Seq(Nat), NEW q \in Seq(Nat),
         NEW n \in Nat, NEW large, InOrder(a, b, w, q, n, large), w # <<>>
  PROVE  InOrder(Append(a, Head(w)), b, Tail(w), q, n, large)
<1>1. PICK t \in Seq(Nat), x \in Nat : t = Tail(w) /\ x = Head(w)
      BY TailAlone
<1>2. /\ Rising(t) /\ Above(x, t) /\ Within(t, n) /\ x \in 1 .. n
      /\ Ahead(b, t) /\ Below(b, x) /\ Ahead(t, q) /\ Above(x, q) /\ Apart(a, t) /\ Avoids(a, x)
      /\ large = {} => Ahead(a, t) /\ Below(a, x)
      BY <1>1, TailAlone, TailBeside DEF InOrder
<1>3. Avoids(t, x) /\ Avoids(q, x) /\ Avoids(b, x)
      BY <1>2 DEF Avoids, Above, Below
<1>4. PICK p \in Seq(Nat) : p = Append(a, x)
      BY AppendAlone
<1>5. Different(p) /\ Within(p, n) /\ (large = {} => Rising(p))
      BY <1>2, <1>4, AppendAlone DEF InOrder
<1>6. Apart(p, b) /\ Apart(p, t) /\ Apart(p, q) /\ (large = {} => Ahead(p, t) /\ Ahead(p, q))
      BY <1>2, <1>3, <1>4, AppendBeside DEF InOrder
<1> QED BY <1>1, <1>2, <1>4, <1>5, <1>6 DEF InOrder

LEMMA HandlesBehind ==
  ASSUME NEW a \in Seq(Nat), NEW b \in Seq(Nat), NEW w \in Seq(Nat), NEW q \in Seq(Nat),
         NEW n \in Nat, NEW large, InOrder(a, b, w, q, n, large), b # <<>>
  PROVE  InOrder(Append(a, Head(b)), Tail(b), w, q, n, large)
<1>1. PICK t \in Seq(Nat), x \in Nat : t = Tail(b) /\ x = Head(b)
      BY TailAlone
<1>2. /\ Rising(t) /\ Above(x, t) /\ Within(t, n) /\ x \in 1 .. n
      /\ Ahead(t, w) /\ Above(x, w) /\ Ahead(t, q) /\ Above(x, q) /\ Apart(a, t) /\ Avoids(a, x)
      BY <1>1, TailAlone, TailBeside DEF InOrder
<1>3. Avoids(t, x) /\ Avoids(q, x) /\ Avoids(w, x)
      BY <1>2 DEF Avoids, Above
<1>4. PICK p \in Seq(Nat) : p = Append(a, x)
      BY AppendAlone
<1>5. Different(p) /\ Within(p, n)
      BY <1>2, <1>4, AppendAlone DEF InOrder
<1>6. Apart(p, t) /\ Apart(p, w) /\ Apart(p, q)
      BY <1>2, <1>3, <1>4, AppendBeside DEF InOrder
<1> QED BY <1>1, <1>2, <1>4, <1>5, <1>6 DEF InOrder

OrderType ==
  /\ applied \in [Clients -> Seq(Nat)] /\ wire \in [Clients -> Seq(Nat)]
  /\ waiting \in [Clients -> Seq(Nat)] /\ sent \in [Clients -> Nat]
  /\ behind \in [Clients -> [at: Daemons \cup {NoDaemon}, requests: Seq(Nat)]]
  /\ oversized \subseteq Clients
  /\ path \in Daemons \cup {NoDaemon} /\ peer \in [Clients -> Daemons \cup {NoDaemon}]

Ordered(c) ==
  InOrder(applied[c], behind[c].requests, wire[c], waiting[c], sent[c], oversized \cap {c})

OrderInv == OrderType /\ \A c \in Clients : Ordered(c)

LEMMA OrderInit == Init => OrderInv
<1> SUFFICES ASSUME Init PROVE OrderInv
    OBVIOUS
<1>1. OrderType
      BY DEF Init, OrderType, NothingBehind
<1>2. ASSUME NEW c \in Clients PROVE Ordered(c)
  <2>1. InOrder(<<>>, <<>>, <<>>, <<>>, 0, {})
        BY DEF InOrder, Rising, Different, Within, Ahead, Apart
  <2>2. /\ applied[c] = <<>> /\ behind[c].requests = <<>> /\ wire[c] = <<>> /\ waiting[c] = <<>>
        /\ sent[c] = 0 /\ oversized \cap {c} = {}
        BY DEF Init, NothingBehind
  <2> QED BY <2>1, <2>2 DEF Ordered
<1> QED BY <1>1, <1>2 DEF OrderInv

\* The requests of c, as values.
LEMMA RequestsOf ==
  ASSUME OrderInv, NEW c \in Clients
  PROVE  \E a \in Seq(Nat), b \in Seq(Nat), w \in Seq(Nat), q \in Seq(Nat), n \in Nat,
            large \in SUBSET Clients :
           /\ a = applied[c] /\ b = behind[c].requests /\ w = wire[c] /\ q = waiting[c]
           /\ n = sent[c] /\ large = oversized \cap {c}
           /\ InOrder(a, b, w, q, n, large)
BY DEF OrderInv, OrderType, Ordered

\* What a step does to the requests of one client, the others' left as they are.
Same(c) ==
  /\ applied'[c] = applied[c] /\ behind'[c].requests = behind[c].requests
  /\ wire'[c] = wire[c] /\ waiting'[c] = waiting[c] /\ sent'[c] = sent[c]
  /\ oversized' \cap {c} = oversized \cap {c}

LEMMA SameStays == ASSUME NEW c \in Clients, Ordered(c), Same(c) PROVE Ordered(c)'
BY DEF Ordered, Same

LEMMA DiesKeepsOrder ==
  ASSUME OrderInv, NEW d \in Daemons, Exit(d) \/ Kill(d)
  PROVE  OrderInv'
<1>1. Dies(d) /\ UNCHANGED path
      BY DEF Exit, Kill
<1>2. OrderType'
      BY <1>1 DEF Dies, OrderInv, OrderType, NothingBehind
<1>3. ASSUME NEW c \in Clients PROVE Ordered(c)'
  <2>1. PICK a \in Seq(Nat), b \in Seq(Nat), w \in Seq(Nat), q \in Seq(Nat), n \in Nat,
             large \in SUBSET Clients :
          /\ a = applied[c] /\ b = behind[c].requests /\ w = wire[c] /\ q = waiting[c]
          /\ n = sent[c] /\ large = oversized \cap {c}
          /\ InOrder(a, b, w, q, n, large)
        BY RequestsOf
  <2>2. /\ applied'[c] = a /\ waiting'[c] = q /\ sent'[c] = n /\ large = oversized' \cap {c}
        /\ wire'[c] = w \/ wire'[c] = <<>>
        /\ behind'[c].requests = b \/ behind'[c].requests = <<>>
        BY <1>1, <2>1 DEF Dies, OrderInv, OrderType, NothingBehind
  <2>3. /\ InOrder(a, b, <<>>, q, n, large) /\ InOrder(a, <<>>, w, q, n, large)
        /\ InOrder(a, <<>>, <<>>, q, n, large)
        BY <2>1, Loses
  <2> QED BY <2>1, <2>2, <2>3 DEF Ordered
<1> QED BY <1>2, <1>3 DEF OrderInv

\* Steps that leave the requests where they are.
LEMMA ElsewhereKeepsOrder ==
  ASSUME OrderInv, UNCHANGED requestVars, path' \in Daemons \cup {NoDaemon},
         peer' \in [Clients -> Daemons \cup {NoDaemon}]
  PROVE  OrderInv'
BY SameStays DEF OrderInv, OrderType, Ordered, Same, requestVars

LEMMA SendKeepsOrder ==
  ASSUME OrderInv, NEW c \in Clients, Send(c) \/ Connected(c)
  PROVE  OrderInv'
<1>1. UNCHANGED <<applied, behind, wire, oversized, path, peer>>
      BY DEF Send, Connected, daemonVars, connVars
<1>2. \/ UNCHANGED <<sent, waiting>>
      \/ /\ sent' = [sent EXCEPT ![c] = @ + 1]
         /\ waiting' = [waiting EXCEPT ![c] = Append(@, sent[c] + 1)]
      BY DEF Send, Connected
<1>3. CASE UNCHANGED <<sent, waiting>>
      BY <1>1, <1>3, ElsewhereKeepsOrder DEF OrderInv, OrderType, requestVars
<1>4. CASE /\ sent' = [sent EXCEPT ![c] = @ + 1]
           /\ waiting' = [waiting EXCEPT ![c] = Append(@, sent[c] + 1)]
  <2>1. OrderType'
        BY <1>1, <1>4 DEF OrderInv, OrderType
  <2>2. ASSUME NEW e \in Clients \ {c} PROVE Ordered(e)'
        BY <1>1, <1>4, <2>2, SameStays DEF OrderInv, OrderType, Same
  <2>3. Ordered(c)'
    <3>1. PICK a \in Seq(Nat), b \in Seq(Nat), w \in Seq(Nat), q \in Seq(Nat), n \in Nat,
               large \in SUBSET Clients :
            /\ a = applied[c] /\ b = behind[c].requests /\ w = wire[c] /\ q = waiting[c]
            /\ n = sent[c] /\ large = oversized \cap {c}
            /\ InOrder(a, b, w, q, n, large)
          BY RequestsOf
    <3>2. InOrder(a, b, w, Append(q, n + 1), n + 1, large)
          BY <3>1, Sends
    <3>3. sent'[c] = n + 1 /\ waiting'[c] = Append(q, n + 1)
          BY <1>4, <3>1 DEF OrderInv, OrderType
    <3> QED BY <1>1, <3>1, <3>2, <3>3 DEF Ordered
  <2> QED BY <2>1, <2>2, <2>3 DEF OrderInv
<1> QED BY <1>2, <1>3, <1>4

LEMMA ForwardKeepsOrder ==
  ASSUME OrderInv, NEW c \in Clients, Forward(c)
  PROVE  OrderInv'
<1>1. /\ UNCHANGED <<applied, behind, sent, oversized, path, peer>> /\ waiting[c] # <<>>
      /\ waiting' = [waiting EXCEPT ![c] = Tail(@)]
      /\ \/ wire' = [wire EXCEPT ![c] = <<>>]
         \/ wire' = [wire EXCEPT ![c] = Append(@, Head(waiting[c]))]
      BY DEF Forward, daemonVars, connVars
<1>2. PICK a \in Seq(Nat), b \in Seq(Nat), w \in Seq(Nat), q \in Seq(Nat), n \in Nat,
           large \in SUBSET Clients :
        /\ a = applied[c] /\ b = behind[c].requests /\ w = wire[c] /\ q = waiting[c]
        /\ n = sent[c] /\ large = oversized \cap {c}
        /\ InOrder(a, b, w, q, n, large)
      BY RequestsOf
<1>3. Tail(q) \in Seq(Nat) /\ Head(q) \in Nat /\ Append(w, Head(q)) \in Seq(Nat)
      BY <1>1, <1>2, TailAlone, AppendAlone
<1>4. OrderType'
  <2>1. waiting' \in [Clients -> Seq(Nat)]
        BY <1>1, <1>2, <1>3 DEF OrderInv, OrderType
  <2>2. wire' \in [Clients -> Seq(Nat)]
    <3>1. CASE wire' = [wire EXCEPT ![c] = <<>>]
          BY <3>1 DEF OrderInv, OrderType
    <3>2. CASE wire' = [wire EXCEPT ![c] = Append(@, Head(waiting[c]))]
          BY <1>2, <1>3, <3>2 DEF OrderInv, OrderType
    <3> QED BY <1>1, <3>1, <3>2
  <2> QED BY <1>1, <2>1, <2>2 DEF OrderInv, OrderType
<1>5. ASSUME NEW e \in Clients \ {c} PROVE Ordered(e)'
      BY <1>1, <1>5, SameStays DEF OrderInv, OrderType, Same
<1>6. waiting'[c] = Tail(q) /\ (wire'[c] = <<>> \/ wire'[c] = Append(w, Head(q)))
      BY <1>1, <1>2 DEF OrderInv, OrderType
<1>7. InOrder(a, b, Append(w, Head(q)), Tail(q), n, large)
      BY <1>1, <1>2, Forwards
<1>8. InOrder(a, b, <<>>, Tail(q), n, large)
      BY <1>3, <1>7, Loses
<1>9. Ordered(c)'
      BY <1>1, <1>2, <1>6, <1>7, <1>8 DEF Ordered
<1> QED BY <1>4, <1>5, <1>9 DEF OrderInv

LEMMA OversizedKeepsOrder ==
  ASSUME OrderInv, NEW c \in Clients, ForwardOversized(c)
  PROVE  OrderInv'
<1>1. /\ UNCHANGED <<applied, sent, path>> /\ waiting[c] # <<>>
      /\ oversized' = oversized \cup {c}
      /\ waiting' = [waiting EXCEPT ![c] = Tail(@)]
      /\ wire' = [wire EXCEPT ![c] = <<>>]
      /\ behind' = [behind EXCEPT ![c] = [at |-> peer[c], requests |-> wire[c]]]
      /\ peer' = [peer EXCEPT ![c] = NoDaemon]
      BY DEF ForwardOversized, Hangs, daemonVars
<1>2. PICK a \in Seq(Nat), b \in Seq(Nat), w \in Seq(Nat), q \in Seq(Nat), n \in Nat,
           large \in SUBSET Clients :
        /\ a = applied[c] /\ b = behind[c].requests /\ w = wire[c] /\ q = waiting[c]
        /\ n = sent[c] /\ large = oversized \cap {c}
        /\ InOrder(a, b, w, q, n, large)
      BY RequestsOf
<1>3. Tail(q) \in Seq(Nat)
      BY <1>1, <1>2, TailAlone
<1>4. OrderType'
      BY <1>1, <1>2, <1>3 DEF OrderInv, OrderType
<1>5. ASSUME NEW e \in Clients \ {c} PROVE Ordered(e)'
      BY <1>1, <1>5, SameStays DEF OrderInv, OrderType, Same
<1>6. /\ waiting'[c] = Tail(q) /\ wire'[c] = <<>> /\ behind'[c].requests = w
      /\ oversized' \cap {c} = {c}
      BY <1>1, <1>2 DEF OrderInv, OrderType
<1>7. InOrder(a, b, w, Tail(q), n, large)
      BY <1>1, <1>2, Loses
<1>8. InOrder(a, w, <<>>, Tail(q), n, {c})
      BY <1>3, <1>7, Leaves
<1>9. Ordered(c)'
      BY <1>1, <1>2, <1>6, <1>8 DEF Ordered
<1> QED BY <1>4, <1>5, <1>9 DEF OrderInv

LEMMA HandleKeepsOrder ==
  ASSUME OrderInv, NEW c \in Clients, Handle(c)
  PROVE  OrderInv'
<1>1. /\ UNCHANGED <<waiting, behind, sent, oversized, path, peer>> /\ wire[c] # <<>>
      /\ wire' = [wire EXCEPT ![c] = Tail(@)]
      /\ applied' = [applied EXCEPT ![c] = Append(@, Head(wire[c]))]
      BY DEF Handle, daemonVars
<1>2. PICK a \in Seq(Nat), b \in Seq(Nat), w \in Seq(Nat), q \in Seq(Nat), n \in Nat,
           large \in SUBSET Clients :
        /\ a = applied[c] /\ b = behind[c].requests /\ w = wire[c] /\ q = waiting[c]
        /\ n = sent[c] /\ large = oversized \cap {c}
        /\ InOrder(a, b, w, q, n, large)
      BY RequestsOf
<1>3. Tail(w) \in Seq(Nat) /\ Head(w) \in Nat /\ Append(a, Head(w)) \in Seq(Nat)
      BY <1>1, <1>2, TailAlone, AppendAlone
<1>4. OrderType'
      BY <1>1, <1>2, <1>3 DEF OrderInv, OrderType
<1>5. ASSUME NEW e \in Clients \ {c} PROVE Ordered(e)'
      BY <1>1, <1>5, SameStays DEF OrderInv, OrderType, Same
<1>6. wire'[c] = Tail(w) /\ applied'[c] = Append(a, Head(w))
      BY <1>1, <1>2 DEF OrderInv, OrderType
<1>7. InOrder(Append(a, Head(w)), b, Tail(w), q, n, large)
      BY <1>1, <1>2, Handles
<1>8. Ordered(c)'
      BY <1>1, <1>2, <1>6, <1>7 DEF Ordered
<1> QED BY <1>4, <1>5, <1>8 DEF OrderInv

LEMMA BehindKeepsOrder ==
  ASSUME OrderInv, NEW c \in Clients, HandleBehind(c)
  PROVE  OrderInv'
<1>1. /\ UNCHANGED <<waiting, wire, sent, oversized, path, peer>> /\ behind[c].requests # <<>>
      /\ behind' = [behind EXCEPT ![c].requests = Tail(@)]
      /\ applied' = [applied EXCEPT ![c] = Append(@, Head(behind[c].requests))]
      BY DEF HandleBehind, daemonVars, connVars
<1>2. PICK a \in Seq(Nat), b \in Seq(Nat), w \in Seq(Nat), q \in Seq(Nat), n \in Nat,
           large \in SUBSET Clients :
        /\ a = applied[c] /\ b = behind[c].requests /\ w = wire[c] /\ q = waiting[c]
        /\ n = sent[c] /\ large = oversized \cap {c}
        /\ InOrder(a, b, w, q, n, large)
      BY RequestsOf
<1>3. Tail(b) \in Seq(Nat) /\ Head(b) \in Nat /\ Append(a, Head(b)) \in Seq(Nat)
      BY <1>1, <1>2, TailAlone, AppendAlone
<1>4. OrderType'
      BY <1>1, <1>2, <1>3 DEF OrderInv, OrderType
<1>5. ASSUME NEW e \in Clients \ {c} PROVE Ordered(e)'
      BY <1>1, <1>5, SameStays DEF OrderInv, OrderType, Same
<1>6. behind'[c].requests = Tail(b) /\ applied'[c] = Append(a, Head(b))
      BY <1>1, <1>2 DEF OrderInv, OrderType
<1>7. InOrder(Append(a, Head(b)), Tail(b), w, q, n, large)
      BY <1>1, <1>2, HandlesBehind
<1>8. Ordered(c)'
      BY <1>1, <1>2, <1>6, <1>7 DEF Ordered
<1> QED BY <1>4, <1>5, <1>8 DEF OrderInv

LEMMA OrderStep == ASSUME OrderInv, [Next]_vars PROVE OrderInv'
<1>1. ASSUME NEW d \in Daemons, LifeStep(d) PROVE OrderInv'
  <2>1. CASE Exit(d) \/ Kill(d)
        BY <2>1, DiesKeepsOrder
  <2>2. CASE ~(Exit(d) \/ Kill(d))
    <3>1. /\ UNCHANGED requestVars /\ peer' = peer
          /\ path' \in {path, d, NoDaemon}
          BY <1>1, <2>2 DEF LifeStep, Start, Bind, Probe, RemoveStale, SetPermissions, Unlink,
             connVars
    <3> QED BY <3>1, ElsewhereKeepsOrder DEF OrderInv, OrderType
  <2> QED BY <2>1, <2>2
<1>2. ASSUME NEW d \in Daemons, Commit(d) \/ Broadcast(d) PROVE OrderInv'
      BY <1>2, ElsewhereKeepsOrder DEF Commit, Broadcast, daemonVars, OrderInv, OrderType
<1>3. ASSUME NEW c \in Clients, ClientStep(c) PROVE OrderInv'
  <2>1. CASE \/ Connect(c) \/ Greet(c) \/ Register(c) \/ Fatal(c) \/ Disconnected(c)
             \/ Write(c) \/ Reload(c)
    <3>1. UNCHANGED requestVars /\ path' = path
          BY <2>1 DEF Connect, Greet, Register, Fatal, Disconnected, Write, Reload, daemonVars
    <3>2. peer' = peer \/ peer' = [peer EXCEPT ![c] = path] \/ peer' = [peer EXCEPT ![c] = NoDaemon]
          BY <2>1 DEF Connect, Greet, Register, Fatal, Disconnected, Write, Reload, connVars
    <3> QED BY <3>1, <3>2, ElsewhereKeepsOrder DEF OrderInv, OrderType
  <2> QED BY <1>3, <2>1, SendKeepsOrder, ForwardKeepsOrder, OversizedKeepsOrder, HandleKeepsOrder,
             BehindKeepsOrder DEF ClientStep
<1>4. CASE UNCHANGED vars
      BY <1>4, ElsewhereKeepsOrder DEF vars, daemonVars, connVars, OrderInv, OrderType
<1> QED BY <1>1, <1>2, <1>3, <1>4 DEF Next

\* For any daemons, clients and bounds, through daemons that are ended and killed,
\* connections given up and made anew: the requests of a client are carried out at
\* most once each and in the order sent, unless it tried a frame too large, and then
\* still at most once (connection_manager_loop, handle_client).
THEOREM RequestsInOrder == Spec => []AppliedInOrder
<1>1. ASSUME OrderInv PROVE AppliedInOrder
  <2>1. ASSUME NEW c \in Clients
        PROVE  Different(applied[c]) /\ (c \notin oversized => Rising(applied[c]))
        BY <1>1 DEF OrderInv, Ordered, InOrder
  <2> QED BY <2>1 DEF AppliedInOrder, Different, Rising
<1> QED BY <1>1, OrderInit, OrderStep, PTL DEF Spec

-----------------------------------------------------------------------------
(* The calendar's screen *)

(* Remainders: the first day of a week, a month or a year. *)

LEMMA RemainderIn ==
  ASSUME NEW x \in Int, NEW n \in Nat \ {0}
  PROVE  x % n \in 0 .. n - 1
  BY SMT

LEMMA Divided ==
  ASSUME NEW x \in Int, NEW n \in Nat \ {0}
  PROVE  x \div n \in Int /\ x = (n * (x \div n)) + (x % n)
  BY SMT

LEMMA RemainderOf ==
  ASSUME NEW q \in Int, NEW n \in Nat \ {0}, NEW r \in 0 .. n - 1
  PROVE  (n * q + r) % n = r
  BY SMT

\* The first day of a period is the first of its own, and so is the one a
\* period before or after it.
LEMMA FirstDays ==
  ASSUME NEW x \in Int, NEW n \in Nat \ {0}, NEW k \in {-1, 0, 1}
  PROVE  (x - (x % n) + n * k) % n = 0
<1> DEFINE q == (x \div n) + k
<1>1. x \div n \in Int /\ x = (n * (x \div n)) + (x % n) /\ x % n \in 0 .. n - 1
  BY Divided, RemainderIn
<1>2. q \in Int
  BY <1>1
<1>3. n * q = n * (x \div n) + n * k
  BY <1>1, SMT
<1>4. x - (x % n) + n * k = n * q + 0
  BY <1>1, <1>3
<1>5. (n * q + 0) % n = 0
  BY <1>2, RemainderOf
<1> QED BY <1>4, <1>5

LEMMA WeekLater ==
  ASSUME NEW x \in Int, NEW n \in Nat \ {0}, NEW k \in {-1, 1}
  PROVE  (x + n * k) % n = x % n
<1> DEFINE q == (x \div n) + k
<1>1. x \div n \in Int /\ x = (n * (x \div n)) + (x % n) /\ x % n \in 0 .. n - 1
  BY Divided, RemainderIn
<1>2. q \in Int
  BY <1>1
<1>3. n * q = n * (x \div n) + n * k
  BY <1>1, SMT
<1>4. x + n * k = n * q + (x % n)
  BY <1>1, <1>3
<1>5. (n * q + (x % n)) % n = x % n
  BY <1>1, <1>2, RemainderOf
<1> QED BY <1>4, <1>5
-----------------------------------------------------------------------------
(* Periods: what a view shows of its own, and the page it is shown on. *)

ViewNames == {"Year", "Month", "Week", "ThreeDay", "Day", "Event"}

Positions == [view : ViewNames, anchor : Int, focus : Int, cursor : Nat]

\* The first day of the period itself, and its length.
First(p) ==
  CASE p.view \in {"Day", "Event", "ThreeDay"} -> p.anchor
    [] p.view = "Week" -> StartOfWeek(p.anchor)
    [] p.view = "Month" -> StartOfMonth(p.anchor)
    [] p.view = "Year" -> p.anchor - (p.anchor % YearDays)

Span(p) ==
  CASE p.view \in {"Day", "Event"} -> 1
    [] p.view = "ThreeDay" -> 3
    [] p.view = "Week" -> WeekDays
    [] p.view = "Month" -> MonthDays
    [] p.view = "Year" -> YearDays

OnPage(p, d) == DisplayedRange(p)[1] <= d /\ d < DisplayedRange(p)[2]

\* Day d is on the page, or at most g days from the period.
Near(p, d, g) == OnPage(p, d) \/ (First(p) - g <= d /\ d < First(p) + Span(p) + g)

LEMMA Lengths ==
  /\ WeekDays \in Nat \ {0} /\ MonthDays \in Nat \ {0} /\ YearDays \in Nat \ {0}
  /\ WeekDays <= MonthDays /\ MonthDays <= YearDays
<1>1. YearMonths \in Nat \ {0} /\ WeekDays \in Nat \ {0} /\ MonthDays \in Nat \ {0} /\ WeekDays <= MonthDays
  BY CalAppAssumption
<1>2. YearDays \in Nat \ {0} /\ MonthDays <= YearDays
  BY <1>1, SMT DEF YearDays
<1> QED BY <1>1, <1>2

LEMMA FirstOf ==
  ASSUME NEW p, p.view \in ViewNames
  PROVE  /\ p.view = "Week" => First(p) = p.anchor - (p.anchor % WeekDays) /\ Span(p) = WeekDays
         /\ p.view = "Month" => First(p) = p.anchor - (p.anchor % MonthDays) /\ Span(p) = MonthDays
         /\ p.view = "Year" => First(p) = p.anchor - (p.anchor % YearDays) /\ Span(p) = YearDays
  BY DEF First, Span, StartOfWeek, StartOfMonth

\* The page covers the period, and less than a week on either side of it.
LEMMA PageCovers ==
  ASSUME NEW p \in Positions
  PROVE  /\ DisplayedRange(p)[1] \in Int /\ DisplayedRange(p)[2] \in Int
         /\ First(p) \in Int /\ Span(p) \in Nat \ {0}
         /\ First(p) <= p.anchor /\ p.anchor < First(p) + Span(p)
         /\ DisplayedRange(p)[1] <= First(p) /\ First(p) + Span(p) <= DisplayedRange(p)[2]
         /\ p.view = "Month" => /\ First(p) - WeekDays < DisplayedRange(p)[1]
                                /\ DisplayedRange(p)[2] < First(p) + Span(p) + WeekDays
         /\ p.view # "Month" => DisplayedRange(p) = <<First(p), First(p) + Span(p)>>
<1>0. p.view \in ViewNames /\ p.anchor \in Int
  BY DEF Positions
<1>w. ASSUME NEW x \in Int PROVE x % WeekDays \in 0 .. WeekDays - 1
  BY Lengths, RemainderIn
<1>m. p.anchor % MonthDays \in 0 .. MonthDays - 1
  BY <1>0, Lengths, RemainderIn
<1>y. p.anchor % YearDays \in 0 .. YearDays - 1
  BY <1>0, Lengths, RemainderIn
<1>1. CASE p.view \in {"Day", "Event", "ThreeDay"}
  BY <1>1, <1>0 DEF DisplayedRange, VisibleRange, First, Span
<1>2. CASE p.view = "Week"
  BY <1>2, <1>0, <1>w, Lengths DEF DisplayedRange, VisibleRange, First, Span, StartOfWeek
<1>3. CASE p.view = "Year"
  BY <1>3, <1>0, <1>y, Lengths DEF DisplayedRange, VisibleRange, First, Span
<1>4. CASE p.view = "Month"
  <2> DEFINE s == StartOfMonth(p.anchor)
             n == s + MonthDays
             rest == WeekDays - (n % WeekDays)
  <2>1. s \in Int /\ n \in Int /\ AddMonths(p.anchor, 1) = n
    BY <1>0, <1>m, Lengths DEF StartOfMonth, AddMonths
  <2>2. s % WeekDays \in 0 .. WeekDays - 1 /\ n % WeekDays \in 0 .. WeekDays - 1
    BY <1>w, <2>1
  <2>3. rest \in Int
    BY <2>2, Lengths
  <2>4. rest % WeekDays \in 0 .. WeekDays - 1
    BY <1>w, <2>3
  <2>5. DisplayedRange(p) = <<s - (s % WeekDays), n + (rest % WeekDays)>>
    BY <1>4, <2>1 DEF DisplayedRange, MonthGrid, StartOfWeek
  <2>6. First(p) = s /\ Span(p) = MonthDays
    BY <1>4 DEF First, Span
  <2>7. s <= p.anchor /\ p.anchor < s + MonthDays
    BY <1>0, <1>m, Lengths DEF StartOfMonth
  <2> HIDE DEF s, n, rest
  <2>8. n = s + MonthDays
    BY DEF n
  <2> QED BY <1>4, <2>1, <2>2, <2>4, <2>5, <2>6, <2>7, <2>8, Lengths
<1> QED BY <1>0, <1>1, <1>2, <1>3, <1>4 DEF ViewNames

\* A period before or after is as long, and begins where this one's span says.
LEMMA PeriodShifts ==
  ASSUME NEW p \in Positions, NEW k \in {-1, 1}
  PROVE  /\ Period(p, k) \in Positions
         /\ Period(p, k).view = p.view /\ Period(p, k).focus = p.focus /\ Period(p, k).cursor = p.cursor
         /\ First(Period(p, k)) = First(p) + k * Span(p)
         /\ Span(Period(p, k)) = Span(p)
<1> DEFINE q == Period(p, k)
<1>0. p.view \in ViewNames /\ p.anchor \in Int /\ p.focus \in Int /\ p.cursor \in Nat /\ k \in Int
  BY DEF Positions
<1>k. \A n \in Int : k * n = n * k /\ n * k \in Int
  BY <1>0, SMT
<1>1. CASE p.view \in {"Day", "Event", "ThreeDay"}
  <2>1. q = [p EXCEPT !.anchor = p.anchor + Span(p) * k]
    BY <1>1, <1>0 DEF Period, Span
  <2>2. q \in Positions /\ q.anchor = p.anchor + Span(p) * k /\ q.view = p.view /\ q.focus = p.focus /\ q.cursor = p.cursor
    BY <2>1, <1>0, <1>1 DEF Positions, Span
  <2> QED BY <2>2, <1>1, <1>0 DEF First, Span
<1>2. CASE p.view = "Week"
  <2>1. q = [p EXCEPT !.anchor = p.anchor + WeekDays * k]
    BY <1>2 DEF Period
  <2>2. q \in Positions /\ q.anchor = p.anchor + WeekDays * k /\ q.view = p.view /\ q.focus = p.focus /\ q.cursor = p.cursor
    BY <2>1, <1>0, <1>k, Lengths DEF Positions
  <2>r. p.anchor % WeekDays \in 0 .. WeekDays - 1
    BY <1>0, Lengths, RemainderIn
  <2>3. (p.anchor + WeekDays * k) % WeekDays = p.anchor % WeekDays
    BY <1>0, Lengths, WeekLater
  <2>4. First(q) = (p.anchor + WeekDays * k) - (p.anchor % WeekDays) /\ First(p) = p.anchor - (p.anchor % WeekDays)
    <3> HIDE DEF q
    <3> QED BY <2>2, <2>3, <1>2, <1>0, FirstOf
  <2>5. Span(q) = WeekDays /\ Span(p) = WeekDays /\ k * WeekDays = WeekDays * k /\ WeekDays * k \in Int
    BY <2>2, <1>2, <1>k, Lengths DEF Span
  <2> QED BY <2>2, <2>r, <2>4, <2>5, <1>0, Lengths
<1>3. CASE p.view = "Month"
  <2> DEFINE s == p.anchor - (p.anchor % MonthDays)
  <2>1. q = [p EXCEPT !.anchor = s + k * MonthDays] /\ First(p) = s
    BY <1>3 DEF Period, AddMonths, StartOfMonth, First
  <2>2. s \in Int /\ k * MonthDays = MonthDays * k /\ MonthDays * k \in Int
    BY <1>0, <1>k, Lengths, RemainderIn
  <2>3. q \in Positions /\ q.anchor = s + MonthDays * k /\ q.view = p.view /\ q.focus = p.focus /\ q.cursor = p.cursor
    BY <2>1, <2>2, <1>0 DEF Positions
  <2>4. (s + MonthDays * k) % MonthDays = 0
    BY <1>0, Lengths, FirstDays
  <2>5. First(q) = s + MonthDays * k
    <3> HIDE DEF q, s
    <3>1. q.anchor % MonthDays = 0
      BY <2>3, <2>4
    <3>2. First(q) = q.anchor - (q.anchor % MonthDays)
      BY <2>3, <1>3, <1>0, FirstOf
    <3>3. q.anchor \in Int
      BY <2>3 DEF Positions
    <3> QED BY <3>1, <3>2, <3>3, <2>3
  <2>6. Span(q) = MonthDays /\ Span(p) = MonthDays
    BY <2>3, <1>3 DEF Span
  <2> HIDE DEF s
  <2> QED BY <2>1, <2>2, <2>3, <2>5, <2>6
<1>4. CASE p.view = "Year"
  <2> DEFINE s == p.anchor - (p.anchor % YearDays)
  <2>1. q = [p EXCEPT !.anchor = s + YearDays * k] /\ First(p) = s
    BY <1>4 DEF Period, First
  <2>2. s \in Int /\ k * YearDays = YearDays * k /\ YearDays * k \in Int
    BY <1>0, <1>k, Lengths, RemainderIn, SMTT(30)
  <2>3. q \in Positions /\ q.anchor = s + YearDays * k /\ q.view = p.view /\ q.focus = p.focus /\ q.cursor = p.cursor
    BY <2>1, <2>2, <1>0 DEF Positions
  <2>4. (s + YearDays * k) % YearDays = 0
    BY <1>0, Lengths, FirstDays
  <2>5. First(q) = s + YearDays * k
    <3> HIDE DEF q, s
    <3>1. q.anchor % YearDays = 0
      BY <2>3, <2>4
    <3>2. First(q) = q.anchor - (q.anchor % YearDays)
      BY <2>3, <1>4, <1>0, FirstOf
    <3>3. q.anchor \in Int
      BY <2>3 DEF Positions
    <3> QED BY <3>1, <3>2, <3>3, <2>3
  <2>6. Span(q) = YearDays /\ Span(p) = YearDays
    BY <2>3, <1>4 DEF Span
  <2> HIDE DEF s
  <2> QED BY <2>1, <2>2, <2>3, <2>5, <2>6
<1> QED BY <1>0, <1>1, <1>2, <1>3, <1>4 DEF ViewNames

\* One period towards a day takes a span off the way, unless it is on the page.
LEMMA TowardComesNearer ==
  ASSUME NEW p \in Positions, NEW d \in Int, NEW g \in Nat, Near(p, d, g + Span(p))
  PROVE  /\ Toward(d, p) \in Positions
         /\ Toward(d, p).view = p.view /\ Toward(d, p).focus = p.focus /\ Toward(d, p).cursor = p.cursor
         /\ Span(Toward(d, p)) = Span(p)
         /\ Near(Toward(d, p), d, g)
<1> DEFINE r == DisplayedRange(p)
<1>0. /\ r[1] \in Int /\ r[2] \in Int /\ First(p) \in Int /\ Span(p) \in Nat \ {0}
      /\ r[1] <= First(p) /\ First(p) + Span(p) <= r[2]
  BY PageCovers
<1>1. CASE OnPage(p, d)
  <2>1. Toward(d, p) = p
    BY <1>1, <1>0 DEF Toward, OnPage
  <2> QED BY <2>1, <1>1 DEF Near
<1>2. CASE d < r[1]
  <2>1. Toward(d, p) = Period(p, -1)
    BY <1>2 DEF Toward
  <2>2. First(p) - (g + Span(p)) <= d
    BY <1>0, <1>2 DEF Near, OnPage
  <2>3. First(Period(p, -1)) = First(p) - Span(p) /\ Span(Period(p, -1)) = Span(p)
    BY <1>0, PeriodShifts
  <2>4. Near(Period(p, -1), d, g)
    BY <2>2, <2>3, <1>0, <1>2 DEF Near
  <2> QED BY <2>1, <2>4, PeriodShifts
<1>3. CASE d >= r[2]
  <2>1. Toward(d, p) = Period(p, 1)
    BY <1>3, <1>0 DEF Toward
  <2>2. d < First(p) + Span(p) + (g + Span(p))
    BY <1>0, <1>3 DEF Near, OnPage
  <2>3. First(Period(p, 1)) = First(p) + Span(p) /\ Span(Period(p, 1)) = Span(p)
    BY <1>0, PeriodShifts
  <2>4. Near(Period(p, 1), d, g)
    BY <2>2, <2>3, <1>0, <1>3 DEF Near
  <2> QED BY <2>1, <2>4, PeriodShifts
<1> QED BY <1>0, <1>1, <1>2, <1>3 DEF OnPage

\* A day at most four periods away comes on the page, with the focus on it.
LEMMA FocusReached ==
  ASSUME NEW p \in Positions, NEW d \in Int, Near(p, d, 4 * Span(p))
  PROVE  /\ SetFocusedDate(p, d) \in Positions
         /\ SetFocusedDate(p, d).focus = d
         /\ OnPage(SetFocusedDate(p, d), d)
<1> DEFINE p0 == [p EXCEPT !.focus = d, !.cursor = 0]
           p1 == Toward(d, p0)
           p2 == Toward(d, p1)
           p3 == Toward(d, p2)
           p4 == Toward(d, p3)
           s == Span(p)
<1>0. s \in Nat
  BY PageCovers
<1>1. p0 \in Positions /\ p0.focus = d /\ p0.view = p.view /\ p0.anchor = p.anchor
  BY DEF Positions
<1>2. Span(p0) = s /\ Near(p0, d, 3 * s + s)
  <2>1. Span(p0) = s /\ First(p0) = First(p) /\ DisplayedRange(p0) = DisplayedRange(p)
    BY <1>1 DEF Span, First, DisplayedRange, VisibleRange, MonthGrid, Positions, ViewNames
  <2>2. 4 * s = 3 * s + s
    BY <1>0
  <2> QED BY <2>1, <2>2 DEF Near, OnPage
<1> HIDE DEF p0
<1>3. p1 \in Positions /\ p1.focus = d /\ Span(p1) = s /\ Near(p1, d, 2 * s + s)
  <2>1. 3 * s \in Nat /\ 3 * s = 2 * s + s
    BY <1>0
  <2> HIDE DEF s
  <2> QED BY <2>1, <1>1, <1>2, TowardComesNearer
<1> HIDE DEF p1
<1>4. p2 \in Positions /\ p2.focus = d /\ Span(p2) = s /\ Near(p2, d, s + s)
  <2>1. 2 * s \in Nat /\ 2 * s = s + s
    BY <1>0
  <2> HIDE DEF s
  <2> QED BY <2>1, <1>3, TowardComesNearer
<1> HIDE DEF p2
<1>5. p3 \in Positions /\ p3.focus = d /\ Span(p3) = s /\ Near(p3, d, 0 + s)
  <2>1. s \in Nat /\ s = 0 + s
    BY <1>0
  <2> HIDE DEF s
  <2> QED BY <2>1, <1>4, TowardComesNearer
<1> HIDE DEF p3
<1>6. p4 \in Positions /\ p4.focus = d /\ Near(p4, d, 0)
  BY <1>5, TowardComesNearer
<1> HIDE DEF p4
<1>7. OnPage(p4, d)
  <2>1. /\ DisplayedRange(p4)[1] \in Int /\ DisplayedRange(p4)[2] \in Int /\ First(p4) \in Int /\ Span(p4) \in Nat
        /\ DisplayedRange(p4)[1] <= First(p4) /\ First(p4) + Span(p4) <= DisplayedRange(p4)[2]
    BY <1>6, PageCovers
  <2> QED BY <2>1, <1>6 DEF Near, OnPage
<1>8. SetFocusedDate(p, d) = p4
  BY DEF SetFocusedDate, p0, p1, p2, p3, p4
<1> QED BY <1>6, <1>7, <1>8

-----------------------------------------------------------------------------
(* Places: the order on screen numbers the events of a day without a gap. *)

RowSet ==
  [uid : Uid, cal : Cal \cup {NoCal}, day : Int, part : {"org", "asked", "yes", "no", "none"},
   guests : SUBSET Guest, status : {"synced", "create", "delete"}]

\* Rows under ids that were given, those up to n.
IsRows(f, n) == DOMAIN f \subseteq 1 .. n /\ f \in [DOMAIN f -> RowSet]

LEMMA LessOfFour ==
  ASSUME NEW a \in Int \X Int \X Int \X Int, NEW b \in Int \X Int \X Int \X Int
  PROVE  Less(a, b) <=>
           \/ a[1] < b[1]
           \/ a[1] = b[1] /\ a[2] < b[2]
           \/ a[1] = b[1] /\ a[2] = b[2] /\ a[3] < b[3]
           \/ a[1] = b[1] /\ a[2] = b[2] /\ a[3] = b[3] /\ a[4] < b[4]
<1> DEFINE E(n) == a[n] < b[n] /\ \A m \in 1 .. (n - 1) : a[m] = b[m]
<1>1. 1 .. Len(a) = {1, 2, 3, 4}
  <2>1. a = <<a[1], a[2], a[3], a[4]>>
    OBVIOUS
  <2>2. Len(<<a[1], a[2], a[3], a[4]>>) = 4
    OBVIOUS
  <2>3. Len(a) = 4
    BY <2>1, <2>2, Zenon
  <2> QED BY <2>3
<1>2. Less(a, b) <=> E(1) \/ E(2) \/ E(3) \/ E(4)
  BY <1>1 DEF Less
<1>3. 1 .. (1 - 1) = {} /\ 1 .. (2 - 1) = {1} /\ 1 .. (3 - 1) = {1, 2} /\ 1 .. (4 - 1) = {1, 2, 3}
  OBVIOUS
<1> QED BY <1>2, <1>3

LEMMA OrderOnScreen ==
  ASSUME NEW n \in Nat, NEW evs, IsRows(evs, n),
         NEW i \in DOMAIN evs, NEW j \in DOMAIN evs, NEW k \in DOMAIN evs
  PROVE  /\ ~Before(evs, i, i)
         /\ i # j => Before(evs, i, j) \/ Before(evs, j, i)
         /\ Before(evs, i, j) /\ Before(evs, j, k) => Before(evs, i, k)
<1> DEFINE class(x) == IF evs[x].uid \in AllDay THEN 0 ELSE 1
           day(x) == evs[x].day
           hour(x) == Hour[evs[x].uid]
<1>1. ASSUME NEW x \in DOMAIN evs
      PROVE  class(x) \in Int /\ day(x) \in Int /\ hour(x) \in Int /\ x \in Int
  <2>1. evs[x] \in RowSet /\ x \in 1 .. n
    BY DEF IsRows
  <2>2. evs[x].uid \in Uid /\ evs[x].day \in Int
    BY <2>1 DEF RowSet
  <2>3. hour(x) \in Nat
    BY <2>2, CalAppAssumption
  <2> QED BY <2>1, <2>2, <2>3
<1>2. ASSUME NEW x \in DOMAIN evs, NEW y \in DOMAIN evs
      PROVE  Before(evs, x, y) <=>
               \/ class(x) < class(y)
               \/ class(x) = class(y) /\ day(x) < day(y)
               \/ class(x) = class(y) /\ day(x) = day(y) /\ hour(x) < hour(y)
               \/ class(x) = class(y) /\ day(x) = day(y) /\ hour(x) = hour(y) /\ x < y
  <2>1. class(x) \in Int /\ day(x) \in Int /\ hour(x) \in Int /\ x \in Int
    BY <1>1
  <2>2. class(y) \in Int /\ day(y) \in Int /\ hour(y) \in Int /\ y \in Int
    BY <1>1
  <2> DEFINE kx == <<class(x), day(x), hour(x), x>>
             ky == <<class(y), day(y), hour(y), y>>
  <2>3. Before(evs, x, y) <=> Less(kx, ky)
    BY DEF Before
  <2> HIDE DEF class, day, hour
  <2>4. kx \in Int \X Int \X Int \X Int /\ ky \in Int \X Int \X Int \X Int
    BY <2>1, <2>2
  <2>5. /\ kx[1] = class(x) /\ kx[2] = day(x) /\ kx[3] = hour(x) /\ kx[4] = x
        /\ ky[1] = class(y) /\ ky[2] = day(y) /\ ky[3] = hour(y) /\ ky[4] = y
    OBVIOUS
  <2> HIDE DEF kx, ky
  <2>6. Less(kx, ky) <=>
           \/ kx[1] < ky[1]
           \/ kx[1] = ky[1] /\ kx[2] < ky[2]
           \/ kx[1] = ky[1] /\ kx[2] = ky[2] /\ kx[3] < ky[3]
           \/ kx[1] = ky[1] /\ kx[2] = ky[2] /\ kx[3] = ky[3] /\ kx[4] < ky[4]
    BY <2>4, LessOfFour
  <2> QED BY <2>3, <2>5, <2>6
<1> HIDE DEF class, day, hour
<1>3. /\ class(i) \in Int /\ day(i) \in Int /\ hour(i) \in Int /\ i \in Int
      /\ class(j) \in Int /\ day(j) \in Int /\ hour(j) \in Int /\ j \in Int
      /\ class(k) \in Int /\ day(k) \in Int /\ hour(k) \in Int /\ k \in Int
  BY <1>1
<1> QED BY <1>2, <1>3

LEMMA PlacesFilled ==
  ASSUME NEW n \in Nat, NEW evs, IsRows(evs, n), NEW S \in SUBSET DOMAIN evs,
         NEW c \in 0 .. Cardinality(S) - 1
  PROVE  \E i \in S : Place(i, evs, S) = c
<1> DEFINE T == 0 .. Cardinality(S) - 1
           lower(i) == {j \in S : Before(evs, j, i)}
           f == [i \in S |-> Place(i, evs, S)]
<1>1. IsFiniteSet(S) /\ Cardinality(S) \in Nat
  <2>1. IsFiniteSet(1 .. n)
    BY FS_Interval
  <2>2. S \in SUBSET (1 .. n)
    BY DEF IsRows
  <2> QED BY <2>1, <2>2, FS_Subset, FS_CardinalityType
<1>2. ASSUME NEW i \in S
      PROVE  IsFiniteSet(lower(i)) /\ Cardinality(lower(i)) \in T
  <2>1. i \notin lower(i)
    BY OrderOnScreen
  <2>2. lower(i) \in SUBSET S /\ lower(i) # S
    BY <2>1
  <2>3. IsFiniteSet(lower(i)) /\ Cardinality(lower(i)) <= Cardinality(S) /\ Cardinality(lower(i)) # Cardinality(S)
    BY <1>1, <2>2, FS_Subset
  <2>4. Cardinality(lower(i)) \in Nat
    BY <2>3, FS_CardinalityType
  <2> QED BY <1>1, <2>3, <2>4
<1>3. ASSUME NEW i \in S, NEW j \in S, Before(evs, i, j)
      PROVE  Cardinality(lower(i)) # Cardinality(lower(j))
  <2>1. lower(i) \in SUBSET lower(j)
    BY <1>3, OrderOnScreen
  <2>2. i \in lower(j) /\ i \notin lower(i)
    BY <1>3, OrderOnScreen
  <2>3. lower(i) # lower(j)
    BY <2>2
  <2> QED BY <1>2, <2>1, <2>3, FS_Subset
<1>4. f \in Injection(S, T)
  <2>1. f \in [S -> T]
    BY <1>2 DEF Place
  <2>2. ASSUME NEW i \in S, NEW j \in S, f[i] = f[j]
        PROVE  i = j
    <3>1. Cardinality(lower(i)) = Cardinality(lower(j))
      BY <2>2 DEF Place
    <3>2. i # j => Before(evs, i, j) \/ Before(evs, j, i)
      BY OrderOnScreen
    <3> QED BY <1>3, <3>1, <3>2
  <2> QED BY <2>1, <2>2 DEF Injection, IsInjective
<1>5. IsFiniteSet(T) /\ Cardinality(T) = Cardinality(S)
  BY <1>1, FS_Interval
<1>6. f \in Surjection(S, T)
  BY <1>1, <1>4, <1>5, FS_Injection
<1> QED BY <1>6 DEF Surjection

-----------------------------------------------------------------------------
(* The screen: what refilter and the reload leave on it. *)

Pages == {p \in Positions : OnPage(p, p.focus)}

LEMMA FocusIsLoaded ==
  ASSUME NEW p, NEW evs, NEW vis, NEW dec
  PROVE  /\ OnFocus(p, evs, vis, dec) \in SUBSET DOMAIN evs
         /\ SelectedIn(p, evs, vis, dec) # NoId => SelectedIn(p, evs, vis, dec) \in DOMAIN evs
  BY DEF OnFocus, Events, SelectedIn

LEMMA SelectedThere ==
  ASSUME NEW n \in Nat, NEW evs, IsRows(evs, n), NEW p, NEW vis, NEW dec,
         p.cursor \in 0 .. Cardinality(OnFocus(p, evs, vis, dec)) - 1
  PROVE  SelectedIn(p, evs, vis, dec) # NoId
<1> DEFINE S == OnFocus(p, evs, vis, dec)
<1>1. S \in SUBSET DOMAIN evs
  BY FocusIsLoaded
<1>2. PICK i \in S : Place(i, evs, S) = p.cursor
  BY <1>1, PlacesFilled
<1>3. SelectedIn(p, evs, vis, dec) = CHOOSE x \in S : Place(x, evs, S) = p.cursor
  BY <1>2 DEF SelectedIn
<1>4. SelectedIn(p, evs, vis, dec) \in S
  BY <1>2, <1>3
<1>5. NoId \notin DOMAIN evs
  BY DEF IsRows, NoId
<1> QED BY <1>1, <1>4, <1>5

\* Refilter moves the cursor alone, and onto an event if the day has any.
LEMMA RefilterPlaces ==
  ASSUME NEW n \in Nat, NEW evs, IsRows(evs, n), NEW p \in Positions, NEW vis, NEW dec, NEW fid
  PROVE  LET q == Refilter(p, evs, vis, dec, fid).pos
         IN  /\ q \in Positions /\ q.view = p.view /\ q.anchor = p.anchor /\ q.focus = p.focus
             /\ DisplayedRange(q) = DisplayedRange(p)
             /\ OnFocus(q, evs, vis, dec) # {} => SelectedIn(q, evs, vis, dec) # NoId
<1> DEFINE q == Refilter(p, evs, vis, dec, fid).pos
           S == OnFocus(p, evs, vis, dec)
           at == IF fid \in S THEN Place(fid, evs, S) ELSE p.cursor
           last == Cardinality(S) - 1
           c == IF S = {} THEN 0 ELSE IF at > last THEN last ELSE at
<1>1. IsFiniteSet(S) /\ Cardinality(S) \in Nat /\ (S # {} => Cardinality(S) # 0)
  <2>1. IsFiniteSet(1 .. n)
    BY FS_Interval
  <2>2. S \in SUBSET (1 .. n)
    BY FocusIsLoaded DEF IsRows
  <2> QED BY <2>1, <2>2, FS_Subset, FS_CardinalityType, FS_EmptySet
<1>2. at \in Nat
  <2>1. ASSUME fid \in S PROVE Place(fid, evs, S) \in Nat
    <3>1. {j \in S : Before(evs, j, fid)} \in SUBSET S
      OBVIOUS
    <3> QED BY <1>1, <3>1, FS_Subset, FS_CardinalityType DEF Place
  <2> QED BY <2>1 DEF Positions
<1>3. c \in Nat /\ (S # {} => c \in 0 .. Cardinality(S) - 1)
  <2> HIDE DEF at
  <2> QED BY <1>1, <1>2
<1>4. q = [p EXCEPT !.cursor = c]
  BY DEF Refilter
<1> HIDE DEF c, q
<1>5. q \in Positions /\ q.view = p.view /\ q.anchor = p.anchor /\ q.focus = p.focus /\ q.cursor = c
  BY <1>3, <1>4 DEF Positions
<1>6. DisplayedRange(q) = DisplayedRange(p)
  BY <1>5 DEF DisplayedRange
<1>7. OnFocus(q, evs, vis, dec) = S
  BY <1>5, <1>6 DEF OnFocus
<1>8. ASSUME S # {} PROVE SelectedIn(q, evs, vis, dec) # NoId
  BY <1>3, <1>5, <1>7, <1>8, SelectedThere
<1> QED BY <1>5, <1>6, <1>7, <1>8 DEF q

LEMMA RefilterSelects ==
  ASSUME NEW n \in Nat, NEW evs, IsRows(evs, n), NEW p \in Positions, NEW vis, NEW dec, NEW fid
  PROVE  LET q == Refilter(p, evs, vis, dec, fid).pos
         IN  OnFocus(q, evs, vis, dec) # {} => SelectedIn(q, evs, vis, dec) # NoId
  BY RefilterPlaces

\* The events on screen are those of the page, and the cursor is on one.
Placed ==
  /\ loaded.range = DisplayedRange(pos)
  /\ OnFocus(pos, loaded.rows, visible, declined) # {} => Selected # NoId

LEMMA ShowPlaces ==
  ASSUME NEW n \in Nat, NEW evs, IsRows(evs, n), NEW p \in Pages, NEW vis, NEW dec, NEW fid,
         Show(p, evs, vis, dec, fid),
         loaded.range' = DisplayedRange(p), loaded.rows' = evs, visible' = vis, declined' = dec
  PROVE  pos' \in Pages /\ Placed'
<1>1. pos' = Refilter(p, evs, vis, dec, fid).pos /\ p \in Positions /\ OnPage(p, p.focus)
  BY DEF Show, Pages
<1>2. /\ pos' \in Positions /\ pos'.focus = p.focus /\ DisplayedRange(pos') = DisplayedRange(p)
      /\ OnFocus(pos', evs, vis, dec) # {} => SelectedIn(pos', evs, vis, dec) # NoId
  <2> DEFINE q == Refilter(p, evs, vis, dec, fid).pos
  <2>1. /\ q \in Positions /\ q.focus = p.focus /\ DisplayedRange(q) = DisplayedRange(p)
        /\ OnFocus(q, evs, vis, dec) # {} => SelectedIn(q, evs, vis, dec) # NoId
    <3>0. p \in Positions
      BY <1>1
    <3>1. q \in Positions
      BY <3>0, RefilterPlaces
    <3>2. q.focus = p.focus
      BY <3>0, RefilterPlaces
    <3>3. DisplayedRange(q) = DisplayedRange(p)
      BY <3>0, RefilterPlaces
    <3>4. OnFocus(q, evs, vis, dec) # {} => SelectedIn(q, evs, vis, dec) # NoId
      BY <3>0, RefilterSelects
    <3> QED BY <3>1, <3>2, <3>3, <3>4
  <2>2. pos' = q
    BY <1>1
  <2> HIDE DEF q
  <2> QED BY <2>1, <2>2
<1>3. pos' \in Pages
  BY <1>1, <1>2 DEF Pages, OnPage
<1>4. Placed'
  BY <1>2 DEF Placed, Selected
<1> QED BY <1>3, <1>4

LEMMA ReloadPlaces ==
  ASSUME NEW n \in Nat, NEW rs, IsRows(rs, n), NEW S \in SUBSET DOMAIN rs, NEW p \in Pages,
         NEW vis, NEW fid, ReloadFrom(rs, S, p, vis, fid), visible' = vis, declined' = declined
  PROVE  /\ pos' \in Pages /\ Placed'
         /\ loaded.rows' = [i \in S |-> rs[i]] /\ IsRows(loaded.rows', n)
<1> DEFINE evs == [i \in S |-> rs[i]]
<1>1. IsRows(evs, n)
  BY DEF IsRows
<1>2. loaded' = [range |-> DisplayedRange(p), rows |-> evs] /\ Show(p, evs, vis, declined, fid)
  BY DEF ReloadFrom
<1>3. loaded.range' = DisplayedRange(p) /\ loaded.rows' = evs
  BY <1>2
<1> HIDE DEF evs
<1>4. pos' \in Pages /\ Placed'
  BY <1>1, <1>2, <1>3, ShowPlaces
<1> QED BY <1>1, <1>3, <1>4 DEF evs

-----------------------------------------------------------------------------
(* The invariant of jacal's screen. *)

Drafts ==
  [id : Nat, name : Uid \cup {New}, cal : Cal \cup {NoCal}, day : Int, guests : SUBSET Guest,
   touched : BOOLEAN]

Editors ==
  [id : Nat, name : Uid \cup {New}, back : {"Browse", "Create", "Edit"}, guests : SUBSET Guest,
   changed : BOOLEAN]

FormOpen == mode \in {"Create", "Edit"} \/ (mode = "Attendees" /\ editor.back # "Browse")

AppTyped ==
  /\ lastId \in Nat /\ IsRows(rows, lastId) /\ IsRows(loaded.rows, lastId)
  /\ offered \subseteq Cal /\ DOMAIN visible \subseteq Cal /\ yank \in Cal \cup {NoCal}
  /\ pos \in Pages /\ history \in Seq(Pages)
  /\ FormOpen => draft \in Drafts
  /\ mode = "Attendees" => editor \in Editors

\* What a prompt, a form or the participants dialog was opened for: a row id,
\* once given never given to another event, and the uid it had.
Means(x) == x.id \in 1 .. lastId /\ (x.id \in DOMAIN rows => rows[x.id].uid = x.name)

NamesHold ==
  /\ \A i \in DOMAIN rows \cap DOMAIN loaded.rows : rows[i].uid = loaded.rows[i].uid
  /\ mode \in {"ConfirmDelete", "Rsvp"} => Means(pending)
  /\ mode = "Edit" \/ (mode = "Attendees" /\ editor.back = "Edit") => Means(draft)
  /\ mode = "Attendees" /\ editor.back = "Browse" => Means(editor)

\* The config file has the settings, and a hidden calendar is hidden in them
\* and wherever it is listed.
Hiding ==
  /\ file = prefs
  /\ visible \in [DOMAIN visible -> BOOLEAN] /\ prefs \in [DOMAIN prefs -> BOOLEAN]
  /\ \A c \in hidden : c \in DOMAIN prefs /\ ~prefs[c] /\ (c \in DOMAIN visible => ~visible[c])

AppInv == AppTyped /\ Placed /\ NamesHold /\ Hiding

-----------------------------------------------------------------------------
(* Rows: an id never passes to another event. *)

IdsKept ==
  /\ lastId <= lastId'
  /\ \A i \in DOMAIN rows' : i <= lastId => i \in DOMAIN rows /\ rows'[i].uid = rows[i].uid

RowsKept == lastId' \in Nat /\ IsRows(rows', lastId') /\ IdsKept

LEMMA InsertKeeps ==
  ASSUME AppTyped, NEW r \in RowSet, Insert(r)
  PROVE  RowsKept
<1>1. lastId \in Nat /\ IsRows(rows, lastId) /\ lastId' = lastId + 1
  BY DEF AppTyped, Insert, NewId
<1>2. rows' = [i \in DOMAIN rows \cup {lastId + 1} |-> IF i = lastId + 1 THEN r ELSE rows[i]]
  BY DEF Insert, NewId
<1>3. DOMAIN rows' = DOMAIN rows \cup {lastId + 1} /\ DOMAIN rows' \subseteq 1 .. lastId'
  BY <1>1, <1>2 DEF IsRows
<1>4. \A i \in DOMAIN rows' : rows'[i] \in RowSet
  BY <1>1, <1>2 DEF IsRows
<1>5. rows' \in [DOMAIN rows' -> RowSet]
  BY <1>2, <1>3, <1>4
<1>6. \A i \in DOMAIN rows' : i <= lastId => i \in DOMAIN rows /\ rows'[i].uid = rows[i].uid
  BY <1>1, <1>2, <1>3
<1> QED BY <1>1, <1>3, <1>5, <1>6 DEF RowsKept, IsRows, IdsKept

LEMMA WithoutKeeps ==
  ASSUME AppTyped, NEW S, rows' = Without(S), lastId' = lastId
  PROVE  RowsKept
  BY DEF AppTyped, RowsKept, IsRows, IdsKept, Without

LEMMA ChangeKeeps ==
  ASSUME AppTyped, NEW i \in DOMAIN rows, NEW r \in RowSet, r.uid = rows[i].uid,
         rows' = [rows EXCEPT ![i] = r], lastId' = lastId
  PROVE  RowsKept
<1>1. lastId \in Nat /\ IsRows(rows, lastId)
  BY DEF AppTyped
<1>2. DOMAIN rows' = DOMAIN rows /\ \A j \in DOMAIN rows : rows'[j] = IF j = i THEN r ELSE rows[j]
  BY <1>1 DEF IsRows
<1> QED BY <1>1, <1>2 DEF RowsKept, IsRows, IdsKept

LEMMA StatusKeeps ==
  ASSUME AppTyped, NEW i \in DOMAIN rows, NEW st \in {"synced", "delete"},
         rows' = [rows EXCEPT ![i].status = st], lastId' = lastId
  PROVE  RowsKept
<1> DEFINE r == [rows[i] EXCEPT !.status = st]
<1>1. rows[i] \in RowSet
  BY DEF AppTyped, IsRows
<1>2. r \in RowSet /\ r.uid = rows[i].uid
  BY <1>1 DEF RowSet
<1>3. rows' = [rows EXCEPT ![i] = r]
  OBVIOUS
<1> HIDE DEF r
<1> QED BY <1>2, <1>3, ChangeKeeps

LEMMA EditedKeeps ==
  ASSUME AppTyped, NEW i \in DOMAIN rows, NEW f \in RowSet, f.uid = rows[i].uid,
         rows' = Edited(i, f), lastId' = lastId
  PROVE  RowsKept
<1> DEFINE r == [f EXCEPT !.status = IF @ = "create" THEN @ ELSE "synced"]
<1>1. r \in RowSet /\ r.uid = rows[i].uid
  BY DEF RowSet
<1>2. rows' = [rows EXCEPT ![i] = r]
  BY DEF Edited
<1> HIDE DEF r
<1> QED BY <1>1, <1>2, ChangeKeeps

LEMMA MarkDeletedKeeps ==
  ASSUME AppTyped, NEW i \in DOMAIN rows, MarkDeleted(i), lastId' = lastId
  PROVE  RowsKept
<1>1. CASE rows[i].status = "create"
  BY <1>1, WithoutKeeps DEF MarkDeleted
<1>2. CASE rows[i].status # "create"
  BY <1>2, StatusKeeps DEF MarkDeleted
<1> QED BY <1>1, <1>2

LEMMA AnsweredKeeps ==
  ASSUME AppTyped, NEW i \in DOMAIN rows, NEW a \in Answers, Answered(i, a), lastId' = lastId
  PROVE  RowsKept
<1> DEFINE f == IF Invited(rows[i]) THEN [rows[i] EXCEPT !.part = a] ELSE rows[i]
<1>1. rows[i] \in RowSet
  BY DEF AppTyped, IsRows
<1>2. f \in RowSet /\ f.uid = rows[i].uid
  BY <1>1 DEF RowSet, Answers
<1>3. rows' = Edited(i, f)
  BY DEF Answered
<1> HIDE DEF f
<1> QED BY <1>2, <1>3, EditedKeeps

LEMMA JamaildKeepsRows ==
  ASSUME AppTyped, Jamaild
  PROVE  RowsKept /\ offered' \subseteq Cal
<1>1. CASE PullNew
  <2>1. PICK u \in Uid \ Uids : Insert(Row(u))
    BY <1>1 DEF PullNew
  <2>2. Row(u) \in RowSet
    BY CalAppAssumption DEF Row, RowSet
  <2> QED BY <1>1, <2>1, <2>2, InsertKeeps DEF PullNew, AppTyped
<1>2. CASE PullMoved
  <2>1. PICK i \in DOMAIN rows : rows' = [rows EXCEPT ![i].day = @ + 1]
    BY <1>2 DEF PullMoved
  <2> DEFINE r == [rows[i] EXCEPT !.day = @ + 1]
  <2>2. rows[i] \in RowSet
    BY DEF AppTyped, IsRows
  <2>3. r \in RowSet /\ r.uid = rows[i].uid
    BY <2>2 DEF RowSet
  <2>4. rows' = [rows EXCEPT ![i] = r]
    BY <2>1
  <2> HIDE DEF r
  <2> QED BY <1>2, <2>3, <2>4, ChangeKeeps DEF PullMoved, AppTyped
<1>3. CASE PullGone
  BY <1>3, WithoutKeeps DEF PullGone, AppTyped
<1>4. CASE Pushed
  <2>1. PICK i \in DOMAIN rows : rows' = [rows EXCEPT ![i].status = "synced"] \/ rows' = Without({i})
    BY <1>4 DEF Pushed
  <2> QED BY <1>4, <2>1, StatusKeeps, WithoutKeeps DEF Pushed, AppTyped
<1>5. CASE CalendarGone
  <2>1. PICK c \in offered : offered' = offered \ {c} /\ rows' = Without({i \in DOMAIN rows : rows[i].cal = c})
    BY <1>5 DEF CalendarGone
  <2> QED BY <1>5, <2>1, WithoutKeeps DEF CalendarGone, AppTyped
<1>6. CASE CalendarBack
  <2>1. rows' = Without({}) /\ lastId' = lastId
    BY <1>6 DEF CalendarBack, Without, AppTyped, IsRows
  <2> QED BY <1>6, <2>1, WithoutKeeps DEF CalendarBack, AppTyped
<1> QED BY <1>1, <1>2, <1>3, <1>4, <1>5, <1>6 DEF Jamaild

-----------------------------------------------------------------------------
(* Steps by what they change. *)

\* Steps of jamaild: the rows change behind the screen.
LEMMA BehindKeeps ==
  ASSUME AppInv, Jamaild
  PROVE  AppInv'
<1>1. RowsKept /\ offered' \subseteq Cal
  BY JamaildKeepsRows DEF AppInv
<1>2. UNCHANGED <<screen, dialog, settings, loaded>>
  BY DEF Jamaild, PullNew, PullMoved, PullGone, Pushed, CalendarGone, CalendarBack, Behind
<1>3. UNCHANGED <<pos, history, mode, pending, draft, editor, yank, visible, prefs, file, declined, hidden, loaded>>
  BY <1>2 DEF screen, dialog, settings
<1>4. AppTyped'
  <2>1. IsRows(loaded.rows, lastId')
    BY <1>1 DEF AppInv, AppTyped, RowsKept, IdsKept, IsRows
  <2> QED BY <1>1, <1>3, <2>1 DEF AppInv, AppTyped, RowsKept, FormOpen
<1>5. Placed'
  BY <1>3 DEF AppInv, Placed, Selected
<1>6. NamesHold'
  <2>1. ASSUME NEW x, Means(x) PROVE Means(x)'
    BY <1>1, <2>1 DEF Means, RowsKept, IdsKept, AppInv, AppTyped
  <2>2. \A i \in DOMAIN rows' \cap DOMAIN loaded.rows' : rows'[i].uid = loaded'.rows[i].uid
    BY <1>1, <1>3 DEF AppInv, AppTyped, NamesHold, RowsKept, IdsKept, IsRows
  <2> QED BY <1>3, <2>1, <2>2 DEF AppInv, NamesHold
<1>7. Hiding'
  BY <1>3 DEF AppInv, Hiding
<1> QED BY <1>4, <1>5, <1>6, <1>7 DEF AppInv

\* What holds of the dialogs after a step that leaves the rows alone.
DialogsHold ==
  /\ yank \in Cal \cup {NoCal}
  /\ FormOpen => draft \in Drafts
  /\ mode = "Attendees" => editor \in Editors
  /\ mode \in {"ConfirmDelete", "Rsvp"} => Means(pending)
  /\ mode = "Edit" \/ (mode = "Attendees" /\ editor.back = "Edit") => Means(draft)
  /\ mode = "Attendees" /\ editor.back = "Browse" => Means(editor)

\* Dialogs that open, change or close over a screen that stays.
LEMMA StillKeeps ==
  ASSUME AppInv, DialogsHold',
         UNCHANGED <<rows, offered, lastId, pos, history, visible, prefs, file, declined, hidden, loaded>>
  PROVE  AppInv'
<1>1. AppTyped'
  BY DEF AppInv, AppTyped, DialogsHold
<1>2. Placed'
  BY DEF AppInv, Placed, Selected
<1>3. NamesHold'
  BY DEF AppInv, NamesHold, DialogsHold
<1>4. Hiding'
  BY DEF AppInv, Hiding
<1> QED BY <1>1, <1>2, <1>3, <1>4 DEF AppInv

\* The dialogs stay as they were, over the same rows, or all close.
LEMMA DialogsStay ==
  ASSUME AppInv, UNCHANGED <<mode, pending, draft, editor, rows, lastId>>, yank' \in Cal \cup {NoCal}
  PROVE  DialogsHold'
  BY DEF AppInv, AppTyped, NamesHold, DialogsHold, FormOpen, Means

LEMMA DialogsClose ==
  ASSUME mode' \in {"Browse", "Calendars", "Invitations"}, yank' \in Cal \cup {NoCal}
  PROVE  DialogsHold'
  BY DEF DialogsHold, FormOpen

\* Steps that read the rows of a page anew.
LEMMA LookKeeps ==
  ASSUME AppInv, NEW p \in Pages, NEW vis, NEW fid, NEW S \in SUBSET DOMAIN rows,
         ReloadFrom(rows, S, p, vis, fid), visible' = vis, declined' = declined,
         UNCHANGED <<rows, offered, lastId>>, DOMAIN vis \subseteq Cal,
         history' \in Seq(Pages), DialogsHold', Hiding'
  PROVE  AppInv'
<1>1. lastId \in Nat /\ IsRows(rows, lastId)
  BY DEF AppInv, AppTyped
<1>2. /\ pos' \in Pages /\ Placed' /\ IsRows(loaded.rows', lastId)
      /\ loaded.rows' = [i \in S |-> rows[i]]
  BY <1>1, ReloadPlaces
<1>3. AppTyped'
  BY <1>1, <1>2 DEF AppInv, AppTyped, DialogsHold
<1>4. NamesHold'
  BY <1>2 DEF NamesHold, DialogsHold
<1> QED BY <1>2, <1>3, <1>4 DEF AppInv

\* Steps that write a row and read the page again, or could not write.
LEMMA WriteKeeps ==
  ASSUME AppInv, RowsKept, DialogsHold',
         ReloadWritten \/ UNCHANGED <<rows, loaded, pos, focusId>>,
         UNCHANGED <<offered, history, yank, visible, prefs, file, declined, hidden>>
  PROVE  AppInv'
<1>1. lastId' \in Nat /\ IsRows(rows', lastId') /\ IdsKept
  BY DEF RowsKept
<1>2. /\ pos' \in Pages /\ Placed' /\ IsRows(loaded.rows', lastId')
      /\ \A i \in DOMAIN rows' \cap DOMAIN loaded.rows' : rows'[i].uid = loaded.rows'[i].uid
  <2>1. CASE ReloadWritten
    <3> DEFINE r == DisplayedRange(pos)
               S == {i \in DOMAIN rows' : /\ rows'[i].status # "delete"
                                          /\ rows'[i].day < r[2] /\ LastDayOf(rows'[i]) >= r[1]}
    <3>1. ReloadFrom(rows', S, pos, visible, focusId) /\ S \in SUBSET DOMAIN rows'
      BY <2>1 DEF ReloadWritten
    <3>2. pos \in Pages
      BY DEF AppInv, AppTyped
    <3> HIDE DEF S
    <3>3. pos' \in Pages /\ Placed' /\ loaded.rows' = [i \in S |-> rows'[i]] /\ IsRows(loaded.rows', lastId')
      BY <1>1, <3>1, <3>2, ReloadPlaces
    <3> QED BY <3>3
  <2>2. CASE UNCHANGED <<rows, loaded, pos, focusId>>
    <3>1. IsRows(loaded.rows', lastId')
      BY <1>1, <2>2 DEF AppInv, AppTyped, IsRows, IdsKept
    <3>2. Placed'
      BY <2>2 DEF AppInv, Placed, Selected
    <3> QED BY <2>2, <3>1, <3>2 DEF AppInv, AppTyped, NamesHold
  <2> QED BY <2>1, <2>2
<1>3. AppTyped'
  BY <1>1, <1>2 DEF AppInv, AppTyped, DialogsHold
<1>4. NamesHold'
  BY <1>2 DEF NamesHold, DialogsHold
<1>5. Hiding'
  BY DEF AppInv, Hiding
<1> QED BY <1>2, <1>3, <1>4, <1>5 DEF AppInv

-----------------------------------------------------------------------------
(* The steps. *)

LEMMA FirstOfCalendars ==
  ASSUME NEW S \in SUBSET Nat, S # {}
  PROVE  \E c \in S : \A d \in S : c <= d
<1>1. PICK c \in S : \A d \in S : ~(<<d, c>> \in OpToRel(<, Nat))
  BY NatLessThanWellFounded, WFMin
<1>2. \A d \in S : ~(d < c)
  BY <1>1 DEF OpToRel
<1>3. c \in Nat /\ \A d \in S : d \in Nat
  OBVIOUS
<1> QED BY <1>2, <1>3

LEMMA InRangeIsRows ==
  ASSUME NEW from, NEW to
  PROVE  InRange(from, to) \in SUBSET DOMAIN rows
  BY DEF InRange

\* The dialogs of the browse mode, none of which is open.
LEMMA OpeningsKeep ==
  ASSUME AppInv, \/ OpenPanel \/ ClosePanel \/ DropYank \/ CancelPrompt
                 \/ OpenInvitations \/ InvitationsMove \/ YankSelected
  PROVE  AppInv'
<1>1. UNCHANGED <<rows, offered, lastId, pos, history, visible, prefs, file, declined, hidden, loaded>>
  BY DEF OpenPanel, ClosePanel, DropYank, CancelPrompt, OpenInvitations, InvitationsMove, YankSelected,
         Steady, cacheVars, screen, dialog, settings
<1>2. yank' \in Cal \cup {NoCal}
  <2>1. CASE YankSelected
    <3>1. Selected \in DOMAIN loaded.rows /\ yank' = loaded.rows[Selected].cal
      BY <2>1, FocusIsLoaded DEF YankSelected, Selected
    <3> QED BY <3>1 DEF AppInv, AppTyped, IsRows, RowSet
  <2>2. CASE DropYank
    BY <2>2 DEF DropYank
  <2>3. CASE OpenPanel \/ ClosePanel \/ CancelPrompt \/ OpenInvitations \/ InvitationsMove
    BY <2>3 DEF OpenPanel, ClosePanel, CancelPrompt, OpenInvitations, InvitationsMove, AppInv, AppTyped, dialog
  <2> QED BY <2>1, <2>2, <2>3
<1>3. mode' \in {"Browse", "Calendars", "Invitations"}
  BY DEF OpenPanel, ClosePanel, DropYank, CancelPrompt, OpenInvitations, InvitationsMove, YankSelected, dialog
<1> QED BY <1>1, <1>2, <1>3, DialogsClose, StillKeeps

\* What a dialog captures of the event under the cursor.
LEMMA SelectedMeans ==
  ASSUME AppInv, Selected # NoId, NEW x, x.id = Selected, x.name = loaded.rows[Selected].uid
  PROVE  Means(x)
<1>1. Selected \in DOMAIN loaded.rows
  BY FocusIsLoaded DEF Selected
<1> QED BY <1>1 DEF AppInv, AppTyped, NamesHold, Means, IsRows

LEMMA SelectedRow ==
  ASSUME AppInv, Selected # NoId
  PROVE  Selected \in Nat /\ loaded.rows[Selected] \in RowSet
<1>1. Selected \in DOMAIN loaded.rows
  BY FocusIsLoaded DEF Selected
<1> QED BY <1>1 DEF AppInv, AppTyped, IsRows

LEMMA PromptsKeep ==
  ASSUME AppInv, BeginDelete \/ BeginRsvp
  PROVE  AppInv'
<1>1. /\ UNCHANGED <<rows, offered, lastId, pos, history, visible, prefs, file, declined, hidden, loaded, yank>>
      /\ Selected # NoId /\ pending' = Named(Selected) /\ mode' \in {"ConfirmDelete", "Rsvp"}
  BY DEF BeginDelete, BeginRsvp, Steady, cacheVars, screen, settings
<1>2. Means(pending')
  BY <1>1, SelectedMeans DEF Named
<1>3. Means(pending)'
  BY <1>1, <1>2 DEF Means
<1>4. DialogsHold'
  BY <1>1, <1>3 DEF DialogsHold, FormOpen, AppInv, AppTyped
<1> QED BY <1>1, <1>4, StillKeeps

LEMMA BeginEditKeeps ==
  ASSUME AppInv, BeginEdit
  PROVE  AppInv'
<1> DEFINE r == loaded.rows[Selected]
<1>1. /\ UNCHANGED <<rows, offered, lastId, pos, history, visible, prefs, file, declined, hidden, loaded, yank>>
      /\ Selected # NoId /\ mode' = "Edit"
      /\ draft' = [id |-> Selected, name |-> r.uid, cal |-> r.cal, day |-> r.day, guests |-> r.guests,
                   touched |-> FALSE]
  BY DEF BeginEdit, Form, Steady, cacheVars, screen, settings
<1>2. Selected \in Nat /\ r \in RowSet
  BY <1>1, SelectedRow
<1>3. draft' \in Drafts /\ draft'.id = Selected /\ draft'.name = r.uid
  BY <1>1, <1>2 DEF Drafts, RowSet
<1>4. Means(draft')
  BY <1>1, <1>3, SelectedMeans
<1>5. Means(draft)'
  BY <1>1, <1>4 DEF Means
<1>6. DialogsHold'
  BY <1>1, <1>3, <1>5 DEF DialogsHold, FormOpen, AppInv, AppTyped
<1> QED BY <1>1, <1>6, StillKeeps

\* A new form is for a calendar of the list, or for none.
LEMMA NewFormsKeep ==
  ASSUME AppInv, BeginCreate \/ PasteYanked
  PROVE  AppInv'
<1>1. /\ UNCHANGED <<rows, offered, lastId, pos, history, visible, prefs, file, declined, hidden, loaded, yank>>
      /\ mode' = "Create"
  BY DEF BeginCreate, PasteYanked, Steady, cacheVars, screen, settings
<1>2. draft' \in Drafts
  <2>1. DefaultCalendar \in Cal \cup {NoCal}
    <3> DEFINE vis == {c \in DOMAIN visible : visible[c]}
    <3>1. ASSUME vis # {} PROVE \E c \in vis : \A d \in vis : c <= d
      <4>1. vis \subseteq Nat
        BY CalAppAssumption DEF AppInv, AppTyped
      <4> QED BY <3>1, <4>1, FirstOfCalendars
    <3> QED BY <3>1 DEF DefaultCalendar, AppInv, AppTyped
  <2>2. yank \in Cal \cup {NoCal} /\ pos.focus \in Int
    BY DEF AppInv, AppTyped, Pages, Positions
  <2>3. PICK c \in Cal \cup {NoCal} : draft' = Form(NoId, New, c, pos.focus, {})
    BY <2>1, <2>2 DEF BeginCreate, PasteYanked
  <2> QED BY <2>2, <2>3 DEF Form, Drafts, NoId
<1>3. DialogsHold'
  BY <1>1, <1>2 DEF DialogsHold, FormOpen, AppInv, AppTyped
<1> QED BY <1>1, <1>3, StillKeeps

\* Keys in the form: it stays about the event it was opened for.
LEMMA FormKeysKeep ==
  ASSUME AppInv, CycleCalendar \/ TypeDate
  PROVE  AppInv'
<1>1. /\ UNCHANGED <<rows, offered, lastId, pos, history, visible, prefs, file, declined, hidden, loaded, yank>>
      /\ mode' = mode /\ mode \in {"Create", "Edit"}
  BY DEF CycleCalendar, TypeDate, InForm, cacheVars, screen, settings
<1>2. draft \in Drafts
  BY <1>1 DEF AppInv, AppTyped, FormOpen
<1>3. draft' \in Drafts /\ draft'.id = draft.id /\ draft'.name = draft.name
  <2>1. CASE CycleCalendar
    <3>1. PICK c \in Cal : draft' = [draft EXCEPT !.cal = c]
      BY <2>1 DEF CycleCalendar, AppInv, AppTyped
    <3> QED BY <1>2, <3>1 DEF Drafts
  <2>2. CASE TypeDate
    <3>1. PICK d \in Days : draft' = [draft EXCEPT !.day = d]
      BY <2>2 DEF TypeDate
    <3>2. d \in Int
      BY DEF Days
    <3> QED BY <1>2, <3>1, <3>2 DEF Drafts
  <2> QED BY <2>1, <2>2
<1>4. mode = "Edit" => Means(draft)
  BY DEF AppInv, NamesHold
<1>5. mode = "Edit" => Means(draft)'
  BY <1>1, <1>3, <1>4 DEF Means
<1>6. DialogsHold'
  BY <1>1, <1>3, <1>5 DEF DialogsHold, FormOpen, AppInv, AppTyped
<1> QED BY <1>1, <1>6, StillKeeps

LEMMA CancelFormKeeps ==
  ASSUME AppInv, CancelForm
  PROVE  AppInv'
<1>1. /\ UNCHANGED <<rows, offered, lastId, pos, history, visible, prefs, file, declined, hidden, loaded, yank>>
      /\ mode' = "Browse"
  BY DEF CancelForm, InForm, cacheVars, screen, settings
<1>2. yank' \in Cal \cup {NoCal}
  BY <1>1 DEF AppInv, AppTyped
<1> QED BY <1>1, <1>2, DialogsClose, StillKeeps

LEMMA BeginAttendeesForDraftKeeps ==
  ASSUME AppInv, BeginAttendeesForDraft
  PROVE  AppInv'
<1>1. /\ UNCHANGED <<rows, offered, lastId, pos, history, visible, prefs, file, declined, hidden, loaded, yank, draft>>
      /\ mode \in {"Create", "Edit"} /\ mode' = "Attendees"
      /\ editor' = [id |-> draft.id, name |-> draft.name, back |-> mode, guests |-> draft.guests, changed |-> FALSE]
  BY DEF BeginAttendeesForDraft, InForm, Editor, cacheVars, screen, settings
<1>2. draft \in Drafts /\ (mode = "Edit" => Means(draft))
  BY <1>1 DEF AppInv, AppTyped, FormOpen, NamesHold
<1>3. editor' \in Editors /\ editor'.back = mode
  BY <1>1, <1>2 DEF Editors, Drafts
<1>4. mode = "Edit" => Means(draft)'
  BY <1>1, <1>2 DEF Means
<1>5. DialogsHold'
  BY <1>1, <1>2, <1>3, <1>4 DEF DialogsHold, FormOpen, AppInv, AppTyped
<1> QED BY <1>1, <1>5, StillKeeps

LEMMA BeginAttendeesForSelectedKeeps ==
  ASSUME AppInv, BeginAttendeesForSelected
  PROVE  AppInv'
<1> DEFINE r == loaded.rows[Selected]
<1>1. /\ UNCHANGED <<rows, offered, lastId, pos, history, visible, prefs, file, declined, hidden, loaded, yank>>
      /\ Selected # NoId /\ mode' = "Attendees"
      /\ editor' = [id |-> Selected, name |-> r.uid, back |-> "Browse", guests |-> r.guests, changed |-> FALSE]
  BY DEF BeginAttendeesForSelected, Editor, Steady, cacheVars, screen, settings
<1>2. Selected \in Nat /\ r \in RowSet
  BY <1>1, SelectedRow
<1>3. editor' \in Editors /\ editor'.back = "Browse" /\ editor'.id = Selected /\ editor'.name = r.uid
  BY <1>1, <1>2 DEF Editors, RowSet
<1>4. Means(editor')
  BY <1>1, <1>3, SelectedMeans
<1>5. Means(editor)'
  BY <1>1, <1>4 DEF Means
<1>6. DialogsHold'
  BY <1>1, <1>3, <1>5 DEF DialogsHold, FormOpen, AppInv, AppTyped
<1> QED BY <1>1, <1>6, StillKeeps

LEMMA EditGuestsKeeps ==
  ASSUME AppInv, EditGuests
  PROVE  AppInv'
<1>1. /\ UNCHANGED <<rows, offered, lastId, pos, history, visible, prefs, file, declined, hidden, loaded, yank, draft>>
      /\ mode = "Attendees" /\ mode' = "Attendees"
  BY DEF EditGuests, Steady, cacheVars, screen, settings
<1>2. editor \in Editors
  BY <1>1 DEF AppInv, AppTyped
<1>3. PICK g \in Guest :
        editor' = [editor EXCEPT !.guests = IF g \in @ THEN @ \ {g} ELSE @ \cup {g}, !.changed = TRUE]
  BY DEF EditGuests
<1>4. editor' \in Editors /\ editor'.back = editor.back /\ editor'.id = editor.id /\ editor'.name = editor.name
  BY <1>2, <1>3 DEF Editors
<1>5. editor.back = "Browse" => Means(editor)'
  BY <1>1, <1>4 DEF Means, AppInv, NamesHold
<1>6. editor.back = "Edit" => Means(draft)'
  BY <1>1 DEF Means, AppInv, NamesHold
<1>7. DialogsHold'
  BY <1>1, <1>4, <1>5, <1>6 DEF DialogsHold, FormOpen, AppInv, AppTyped
<1> QED BY <1>1, <1>7, StillKeeps

LEMMA FinishDraftGuestsKeeps ==
  ASSUME AppInv, FinishDraftGuests
  PROVE  AppInv'
<1>1. /\ UNCHANGED <<rows, offered, lastId, pos, history, visible, prefs, file, declined, hidden, loaded, yank>>
      /\ mode = "Attendees" /\ editor.back # "Browse" /\ mode' = editor.back
      /\ draft' = IF editor.changed THEN [draft EXCEPT !.guests = editor.guests, !.touched = TRUE] ELSE draft
  BY DEF FinishDraftGuests, Steady, cacheVars, screen, settings
<1>2. editor \in Editors /\ draft \in Drafts /\ (editor.back = "Edit" => Means(draft))
  BY <1>1 DEF AppInv, AppTyped, FormOpen, NamesHold
<1>3. mode' \in {"Create", "Edit"}
  BY <1>1, <1>2 DEF Editors
<1>4. draft' \in Drafts /\ draft'.id = draft.id /\ draft'.name = draft.name
  BY <1>1, <1>2 DEF Drafts, Editors
<1>5. editor.back = "Edit" => Means(draft)'
  BY <1>1, <1>2, <1>4 DEF Means
<1>6. DialogsHold'
  BY <1>1, <1>3, <1>4, <1>5 DEF DialogsHold, FormOpen, AppInv, AppTyped
<1> QED BY <1>1, <1>6, StillKeeps

\* Rows nobody writes are kept.
LEMMA SameRowsKept ==
  ASSUME AppInv, UNCHANGED <<rows, lastId>>
  PROVE  RowsKept
  BY DEF AppInv, AppTyped, RowsKept, IdsKept, IsRows

LEMMA ConfirmDeleteKeeps ==
  ASSUME AppInv, ConfirmDelete
  PROVE  AppInv'
<1>1. /\ UNCHANGED <<offered, lastId, history, yank, visible, prefs, file, declined, hidden>>
      /\ mode' = "Browse" /\ Written(pending.id, MarkDeleted(pending.id))
  BY DEF ConfirmDelete, settings
<1>2. RowsKept /\ (ReloadWritten \/ UNCHANGED <<rows, loaded, pos, focusId>>)
  <2>1. CASE pending.id \in DOMAIN rows
    BY <1>1, <2>1, MarkDeletedKeeps DEF Written, AppInv
  <2>2. CASE pending.id \notin DOMAIN rows
    BY <1>1, <2>2, SameRowsKept DEF Written
  <2> QED BY <2>1, <2>2
<1>3. DialogsHold'
  BY <1>1, DialogsClose DEF AppInv, AppTyped
<1> QED BY <1>1, <1>2, <1>3, WriteKeeps

LEMMA AnswersKeep ==
  ASSUME AppInv, Answer \/ AnswerInvitation
  PROVE  AppInv'
<1>1. /\ UNCHANGED <<offered, lastId, history, yank, visible, prefs, file, declined, hidden>>
      /\ mode' \in {"Browse", "Invitations"}
      /\ \E i, a : a \in Answers /\ Written(i, Answered(i, a))
  BY DEF Answer, AnswerInvitation, settings, dialog
<1>2. PICK i, a : a \in Answers /\ Written(i, Answered(i, a))
  BY <1>1
<1>3. RowsKept /\ (ReloadWritten \/ UNCHANGED <<rows, loaded, pos, focusId>>)
  <2>1. CASE i \in DOMAIN rows
    BY <1>1, <1>2, <2>1, AnsweredKeeps DEF Written, AppInv
  <2>2. CASE i \notin DOMAIN rows
    BY <1>1, <1>2, <2>2, SameRowsKept DEF Written
  <2> QED BY <2>1, <2>2
<1>4. DialogsHold'
  BY <1>1, DialogsClose DEF AppInv, AppTyped
<1> QED BY <1>1, <1>3, <1>4, WriteKeeps

LEMMA SubmitEditKeeps ==
  ASSUME AppInv, SubmitEdit
  PROVE  AppInv'
<1> DEFINE f == [rows[draft.id] EXCEPT
                   !.day = draft.day,
                   !.guests = IF draft.touched THEN draft.guests ELSE @,
                   !.part = IF draft.touched /\ @ = "none" /\ draft.guests # {} THEN "org" ELSE @]
<1>1. /\ UNCHANGED <<offered, lastId, history, yank, visible, prefs, file, declined, hidden>>
      /\ mode = "Edit" /\ mode' = "Browse" /\ draft.id \in DOMAIN rows /\ rows' = Edited(draft.id, f) /\ ReloadWritten
  BY DEF SubmitEdit, settings
<1>2. draft \in Drafts /\ rows[draft.id] \in RowSet
  BY <1>1 DEF AppInv, AppTyped, FormOpen, IsRows
<1>3. f \in RowSet /\ f.uid = rows[draft.id].uid
  BY <1>2 DEF RowSet, Drafts
<1> HIDE DEF f
<1>4. RowsKept
  BY <1>1, <1>3, EditedKeeps DEF AppInv
<1>5. DialogsHold'
  BY <1>1, DialogsClose DEF AppInv, AppTyped
<1> QED BY <1>1, <1>4, <1>5, WriteKeeps

LEMMA SubmitCreateKeeps ==
  ASSUME AppInv, SubmitCreate
  PROVE  AppInv'
<1>1. /\ UNCHANGED <<offered, history, yank, visible, prefs, file, declined, hidden>>
      /\ mode = "Create" /\ mode' = "Browse" /\ ReloadWritten
  BY DEF SubmitCreate, settings
<1>2. draft \in Drafts
  BY <1>1 DEF AppInv, AppTyped, FormOpen
<1>3. PICK u \in Uid :
        Insert([uid |-> u, cal |-> draft.cal, day |-> draft.day, guests |-> draft.guests,
                part |-> IF draft.guests = {} THEN "none" ELSE "org", status |-> "create"])
  BY DEF SubmitCreate, Uid
<1> DEFINE r == [uid |-> u, cal |-> draft.cal, day |-> draft.day, guests |-> draft.guests,
                 part |-> IF draft.guests = {} THEN "none" ELSE "org", status |-> "create"]
<1>4. r \in RowSet
  BY <1>2 DEF RowSet, Drafts
<1> HIDE DEF r
<1>5. RowsKept
  BY <1>3, <1>4, InsertKeeps DEF AppInv, r
<1>6. DialogsHold'
  BY <1>1, DialogsClose DEF AppInv, AppTyped
<1> QED BY <1>1, <1>5, <1>6, WriteKeeps

LEMMA FinishEventGuestsKeeps ==
  ASSUME AppInv, FinishEventGuests
  PROVE  AppInv'
<1> DEFINE i == editor.id
           f == [rows[i] EXCEPT
                    !.guests = editor.guests,
                    !.part = IF @ = "none" /\ editor.guests # {} THEN "org" ELSE @]
<1>1. /\ UNCHANGED <<offered, lastId, history, yank, visible, prefs, file, declined, hidden>>
      /\ mode = "Attendees" /\ mode' = "Browse"
      /\ IF editor.changed THEN Written(i, rows' = Edited(i, f)) ELSE UNCHANGED <<rows, loaded, pos, focusId>>
  BY DEF FinishEventGuests, settings
<1>2. editor \in Editors
  BY <1>1 DEF AppInv, AppTyped
<1>3. RowsKept /\ (ReloadWritten \/ UNCHANGED <<rows, loaded, pos, focusId>>)
  <2>1. CASE i \in DOMAIN rows /\ editor.changed
    <3>1. rows' = Edited(i, f) /\ ReloadWritten
      BY <1>1, <2>1 DEF Written
    <3>2. rows[i] \in RowSet
      BY <2>1 DEF AppInv, AppTyped, IsRows
    <3>3. f \in RowSet /\ f.uid = rows[i].uid
      BY <1>2, <3>2 DEF RowSet, Editors
    <3> HIDE DEF f
    <3> QED BY <1>1, <2>1, <3>1, <3>3, EditedKeeps DEF AppInv
  <2>2. CASE ~(i \in DOMAIN rows /\ editor.changed)
    BY <1>1, <2>2, SameRowsKept DEF Written
  <2> QED BY <2>1, <2>2
<1>4. DialogsHold'
  BY <1>1, DialogsClose DEF AppInv, AppTyped
<1> QED BY <1>1, <1>3, <1>4, WriteKeeps

-----------------------------------------------------------------------------
(* Keys that move, and reloads. *)

LEMMA SettingsStay ==
  ASSUME AppInv, UNCHANGED <<visible, prefs, file, hidden>>
  PROVE  Hiding'
  BY DEF AppInv, Hiding

\* A move lands on a page of the history or on one whose focus it shows.
LEMMA GoKeeps ==
  ASSUME AppInv, NEW p \in Pages, ReloadEvents(p), UNCHANGED <<cacheVars, dialog, settings>>,
         history' \in Seq(Pages)
  PROVE  AppInv'
<1> DEFINE r == DisplayedRange(p)
           S == InRange(r[1], r[2])
<1>1. ReloadFrom(rows, S, p, visible, focusId) /\ S \in SUBSET DOMAIN rows
  BY InRangeIsRows DEF ReloadEvents
<1>2. UNCHANGED <<rows, offered, lastId, mode, pending, draft, editor, yank, visible, prefs, file, declined, hidden>>
  BY DEF cacheVars, dialog, settings
<1> HIDE DEF S
<1>3. Hiding'
  BY <1>2, SettingsStay
<1>4. DialogsHold'
  BY <1>2, DialogsStay DEF AppInv, AppTyped
<1>5. DOMAIN visible \subseteq Cal
  BY DEF AppInv, AppTyped
<1> QED BY <1>1, <1>2, <1>3, <1>4, <1>5, LookKeeps

LEMMA MultipleBelow ==
  ASSUME NEW m \in Nat \ {0}, NEW q \in Int, NEW f \in Int, m * q <= f
  PROVE  m * q <= f - (f % m)
<1> DEFINE e == f \div m
<1>1. e \in Int /\ f = (m * e) + (f % m) /\ f % m \in 0 .. m - 1
  BY Divided, RemainderIn
<1> HIDE DEF e
<1>2. m * e \in Int /\ m * q \in Int
  BY <1>1, SMT
<1>3. ASSUME e < q PROVE FALSE
  <2>1. e + 1 <= q
    BY <1>1, <1>3
  <2>2. m * (e + 1) <= m * q
    BY <1>1, <2>1, SMT
  <2>3. m * (e + 1) = m * e + m
    BY <1>1, SMT
  <2> QED BY <1>1, <1>2, <2>2, <2>3
<1>4. q <= e
  BY <1>1, <1>3
<1>5. m * q <= m * e
  BY <1>1, <1>4, SMT
<1> QED BY <1>1, <1>2, <1>5

LEMMA ProductOfThree ==
  ASSUME NEW l \in Int, NEW m \in Int, NEW n \in Int
  PROVE  m * n \in Int /\ l * (m * n) = (l * m) * n
  BY SMT

\* The first day of a year is the first of a month.
LEMMA YearFirst ==
  ASSUME NEW a \in Int, NEW f \in Int, a - (a % YearDays) <= f
  PROVE  a - (a % YearDays) <= f - (f % MonthDays)
<1> DEFINE q == YearMonths * (a \div YearDays)
<1>1. YearMonths \in Nat \ {0} /\ MonthDays \in Nat \ {0} /\ YearDays \in Nat \ {0} /\ YearDays = MonthDays * YearMonths
  BY CalAppAssumption, Lengths DEF YearDays
<1>2. a \div YearDays \in Int /\ a = (YearDays * (a \div YearDays)) + (a % YearDays) /\ a % YearDays \in 0 .. YearDays - 1
  BY <1>1, Divided, RemainderIn
<1>3. q \in Int /\ MonthDays * q = YearDays * (a \div YearDays)
  <2> DEFINE e == a \div YearDays
  <2>1. e \in Int
    BY <1>2
  <2> HIDE DEF e
  <2>2. YearMonths * e \in Int /\ MonthDays * (YearMonths * e) = (MonthDays * YearMonths) * e
    BY <1>1, <2>1, ProductOfThree
  <2> QED BY <1>1, <2>2 DEF e
<1>4. a - (a % YearDays) = MonthDays * q
  BY <1>1, <1>2, <1>3
<1> HIDE DEF q
<1> QED BY <1>1, <1>3, <1>4, MultipleBelow

LEMMA DaysAreNear ==
  ASSUME NEW p \in Pages, NEW d \in Int,
         \/ p.view = "Year" /\ \E k \in {-4, -1, 1, 4} : d = AddMonths(p.focus, k)
         \/ p.view # "Year" /\ d \in {p.focus - 1, p.focus + 1}
         \/ p.view = "Month" /\ d \in {p.focus - WeekDays, p.focus + WeekDays}
  PROVE  Near(p, d, 4 * Span(p))
<1>1. p \in Positions /\ OnPage(p, p.focus) /\ p.focus \in Int /\ p.view \in ViewNames /\ p.anchor \in Int
  BY DEF Pages, Positions
<1>2. /\ DisplayedRange(p)[1] \in Int /\ DisplayedRange(p)[2] \in Int
      /\ First(p) \in Int /\ Span(p) \in Nat \ {0}
      /\ p.view = "Month" => /\ First(p) - WeekDays < DisplayedRange(p)[1]
                             /\ DisplayedRange(p)[2] < First(p) + Span(p) + WeekDays
      /\ p.view # "Month" => DisplayedRange(p) = <<First(p), First(p) + Span(p)>>
  BY <1>1, PageCovers
<1>3. CASE p.view = "Year"
  <2>1. PICK k \in {-4, -1, 1, 4} : d = (p.focus - (p.focus % MonthDays)) + k * MonthDays
    BY <1>3 DEF AddMonths, StartOfMonth
  <2>2. First(p) = p.anchor - (p.anchor % YearDays) /\ Span(p) = YearDays
    BY <1>1, <1>3, FirstOf
  <2>3. First(p) <= p.focus /\ p.focus < First(p) + Span(p)
    BY <1>1, <1>2, <1>3 DEF OnPage
  <2>4. First(p) <= p.focus - (p.focus % MonthDays)
    BY <1>1, <2>2, <2>3, YearFirst
  <2>5. p.focus % MonthDays \in 0 .. MonthDays - 1
    BY <1>1, Lengths, RemainderIn
  <2>6. k * MonthDays \in Int /\ -4 * MonthDays <= k * MonthDays /\ k * MonthDays <= 4 * MonthDays
    BY Lengths
  <2>7. First(p) - 4 * Span(p) <= d /\ d < First(p) + Span(p) + 4 * Span(p)
    BY <1>1, <1>2, <2>1, <2>2, <2>3, <2>4, <2>5, <2>6, Lengths
  <2> QED BY <2>7 DEF Near
<1>4. CASE p.view = "Month"
  <2>1. Span(p) = MonthDays
    BY <1>1, <1>4, FirstOf
  <2>2. p.focus - WeekDays <= d /\ d <= p.focus + WeekDays
    BY <1>1, <1>4, Lengths
  <2>3. First(p) - WeekDays < p.focus /\ p.focus < First(p) + Span(p) + WeekDays
    BY <1>1, <1>2, <1>4, Lengths DEF OnPage
  <2>4. First(p) - 4 * Span(p) <= d /\ d < First(p) + Span(p) + 4 * Span(p)
    BY <1>1, <1>2, <2>1, <2>2, <2>3, Lengths
  <2> QED BY <2>4 DEF Near
<1>5. CASE p.view # "Year" /\ p.view # "Month"
  <2>1. First(p) <= p.focus /\ p.focus < First(p) + Span(p)
    BY <1>1, <1>2, <1>5 DEF OnPage
  <2>2. First(p) - 4 * Span(p) <= d /\ d < First(p) + Span(p) + 4 * Span(p)
    BY <1>1, <1>2, <1>5, <2>1
  <2> QED BY <2>2 DEF Near
<1> QED BY <1>3, <1>4, <1>5

LEMMA FocusedIsPage ==
  ASSUME NEW p \in Pages, NEW d \in Int, Near(p, d, 4 * Span(p))
  PROVE  SetFocusedDate(p, d) \in Pages
<1>1. p \in Positions
  BY DEF Pages
<1> DEFINE q == SetFocusedDate(p, d)
<1>2. q \in Positions /\ q.focus = d /\ OnPage(q, d)
  BY <1>1, FocusReached
<1> HIDE DEF q
<1>3. q \in Pages
  BY <1>2 DEF Pages
<1> QED BY <1>3 DEF q

LEMMA AnchoredIsPage ==
  ASSUME NEW p \in Positions, p.focus = p.anchor
  PROVE  p \in Pages
<1>1. /\ DisplayedRange(p)[1] \in Int /\ DisplayedRange(p)[2] \in Int /\ First(p) \in Int /\ Span(p) \in Nat \ {0}
      /\ First(p) <= p.anchor /\ p.anchor < First(p) + Span(p)
      /\ DisplayedRange(p)[1] <= First(p) /\ First(p) + Span(p) <= DisplayedRange(p)[2]
  BY PageCovers
<1>2. p.anchor \in Int
  BY DEF Positions
<1> QED BY <1>1, <1>2 DEF Pages, OnPage

LEMMA SwitchedIsPage ==
  ASSUME NEW p \in Pages, NEW v \in ViewNames
  PROVE  SwitchView(p, v) \in Pages
<1> DEFINE q == SwitchView(p, v)
<1>1. q \in Positions /\ q.focus = q.anchor
  BY DEF SwitchView, Pages, Positions
<1> HIDE DEF q
<1>2. q \in Pages
  BY <1>1, AnchoredIsPage
<1> QED BY <1>2 DEF q

LEMMA PushedIsPages ==
  ASSUME AppTyped, PushHistory
  PROVE  history' \in Seq(Pages)
<1>1. history \in Seq(Pages) /\ pos \in Pages
  BY DEF AppTyped
<1> DEFINE h == Append(history, pos)
<1>2. h \in Seq(Pages) /\ Len(h) = Len(history) + 1
  BY <1>1
<1> HIDE DEF h
<1>3. Tail(h) \in Seq(Pages)
  BY <1>1, <1>2
<1> QED BY <1>2, <1>3 DEF PushHistory, Pushed1, h

LEMMA KeyLeaves ==
  ASSUME Key
  PROVE  UNCHANGED <<cacheVars, dialog, settings>>
  BY DEF Key

LEMMA MovesKeep ==
  ASSUME AppInv, MoveKeys
  PROVE  AppInv'
<1>1. pos \in Pages /\ pos \in Positions /\ history \in Seq(Pages) /\ pos.focus \in Int /\ pos.anchor \in Int /\ pos.view \in ViewNames
  BY DEF AppInv, AppTyped, Pages, Positions
<1>2. CASE Horizontal
  <2>1. PICK k \in {-1, 1} :
          LET d == IF pos.view = "Year" THEN AddMonths(pos.focus, k) ELSE pos.focus + k
          IN d \in Days /\ Go(SetFocusedDate(pos, d))
    BY <1>2 DEF Horizontal
  <2> DEFINE d == IF pos.view = "Year" THEN AddMonths(pos.focus, k) ELSE pos.focus + k
             p == SetFocusedDate(pos, d)
  <2>2. d \in Int /\ Go(p)
    BY <2>1 DEF Days
  <2>3. Near(pos, d, 4 * Span(pos))
    <3>1. \/ pos.view = "Year" /\ d = AddMonths(pos.focus, k)
          \/ pos.view # "Year" /\ d \in {pos.focus - 1, pos.focus + 1}
      BY <1>1, <2>1
    <3> HIDE DEF d
    <3> QED BY <1>1, <2>2, <3>1, DaysAreNear
  <2> HIDE DEF d
  <2>4. p \in Pages
    BY <1>1, <2>2, <2>3, FocusedIsPage
  <2> HIDE DEF p
  <2> QED BY <1>1, <1>2, <2>2, <2>4, KeyLeaves, GoKeeps DEF Horizontal, Go
<1>3. CASE Vertical
  <2>1. PICK k \in {-1, 1} :
          IF pos.view \in Columnar
          THEN LET n == Cardinality(OnFocus(pos, loaded.rows, visible, declined))
                   c == pos.cursor + k
               IN Go([pos EXCEPT !.cursor = IF n = 0 THEN @ ELSE IF c < 0 THEN 0 ELSE IF c >= n THEN n - 1 ELSE c])
          ELSE LET d == IF pos.view = "Year" THEN AddMonths(pos.focus, 4 * k) ELSE pos.focus + WeekDays * k
               IN d \in Days /\ Go(SetFocusedDate(pos, d))
    BY <1>3 DEF Vertical
  <2>2. CASE pos.view \in Columnar
    <3> DEFINE n == Cardinality(OnFocus(pos, loaded.rows, visible, declined))
               c == pos.cursor + k
               at == IF n = 0 THEN pos.cursor ELSE IF c < 0 THEN 0 ELSE IF c >= n THEN n - 1 ELSE c
               p == [pos EXCEPT !.cursor = at]
    <3>1. Go(p)
      BY <2>1, <2>2
    <3>2. n \in Nat
      <4>1. OnFocus(pos, loaded.rows, visible, declined) \in SUBSET (1 .. lastId) /\ lastId \in Nat
        BY FocusIsLoaded DEF AppInv, AppTyped, IsRows
      <4>2. IsFiniteSet(1 .. lastId)
        BY <4>1, FS_Interval
      <4> QED BY <4>1, <4>2, FS_Subset, FS_CardinalityType
    <3> HIDE DEF n
    <3>3. at \in Nat
      BY <1>1, <3>2 DEF Positions
    <3> HIDE DEF at
    <3>4. p \in Positions /\ p.view = pos.view /\ p.anchor = pos.anchor /\ p.focus = pos.focus
      BY <1>1, <3>3 DEF Positions
    <3> HIDE DEF p
    <3>5. p \in Pages
      BY <1>1, <3>4 DEF Pages, OnPage, DisplayedRange
    <3> QED BY <1>1, <1>3, <3>1, <3>5, KeyLeaves, GoKeeps DEF Vertical, Go
  <2>3. CASE pos.view \notin Columnar
    <3> DEFINE d == IF pos.view = "Year" THEN AddMonths(pos.focus, 4 * k) ELSE pos.focus + WeekDays * k
               p == SetFocusedDate(pos, d)
    <3>1. d \in Int /\ Go(p)
      BY <2>1, <2>3 DEF Days
    <3>2. Near(pos, d, 4 * Span(pos))
      <4>1. pos.view = "Year" \/ pos.view = "Month"
        BY <1>1, <2>3 DEF ViewNames, Columnar
      <4>2. \/ pos.view = "Year" /\ \E m \in {-4, -1, 1, 4} : d = AddMonths(pos.focus, m)
            \/ pos.view = "Month" /\ d \in {pos.focus - WeekDays, pos.focus + WeekDays}
        <5>1. CASE pos.view = "Year"
          <6>1. d = AddMonths(pos.focus, 4 * k) /\ 4 * k \in {-4, 4}
            BY <5>1
          <6> QED BY <5>1, <6>1
        <5>2. CASE pos.view = "Month"
          BY <1>1, <5>2, Lengths
        <5> QED BY <4>1, <5>1, <5>2
      <4> HIDE DEF d
      <4> QED BY <1>1, <3>1, <4>2, DaysAreNear
    <3> HIDE DEF d
    <3>3. p \in Pages
      BY <1>1, <3>1, <3>2, FocusedIsPage
    <3> HIDE DEF p
    <3> QED BY <1>1, <1>3, <3>1, <3>3, KeyLeaves, GoKeeps DEF Vertical, Go
  <2> QED BY <2>2, <2>3
<1>4. CASE JumpPeriod
  <2>1. PICK k \in {-1, 1} : Go([Period(pos, k) EXCEPT !.focus = Period(pos, k).anchor, !.cursor = 0])
    BY <1>4 DEF JumpPeriod
  <2> DEFINE q == Period(pos, k)
             p == [q EXCEPT !.focus = q.anchor, !.cursor = 0]
  <2>2. q \in Positions
    BY <1>1, PeriodShifts
  <2>3. Go(p)
    BY <2>1
  <2> HIDE DEF q
  <2>4. p \in Positions /\ p.focus = p.anchor
    BY <2>2 DEF Positions
  <2> HIDE DEF p
  <2>5. p \in Pages
    BY <2>4, AnchoredIsPage
  <2> QED BY <1>1, <1>4, <2>3, <2>5, KeyLeaves, GoKeeps DEF JumpPeriod, Go
<1>5. CASE GotoToday
  <2> DEFINE p == [pos EXCEPT !.anchor = Today, !.focus = Today, !.cursor = 0]
  <2>0. Today \in Int
    BY CalAppAssumption
  <2>1. p \in Positions /\ p.focus = p.anchor
    BY <1>1, <2>0 DEF Positions
  <2>2. Go(p)
    BY <1>5 DEF GotoToday
  <2> HIDE DEF p
  <2>3. p \in Pages
    BY <2>1, AnchoredIsPage
  <2> QED BY <1>1, <1>5, <2>2, <2>3, KeyLeaves, GoKeeps DEF GotoToday, Go
<1>6. CASE StepView \/ ZoomIn
  <2>1. PICK v \in ViewNames : PushHistory /\ Go(SwitchView(pos, v)) /\ Key
    <3>1. CASE StepView
      <4>1. PICK n \in DOMAIN Views : PushHistory /\ Go(SwitchView(pos, Views[n])) /\ Key
        BY <3>1 DEF StepView
      <4>2. Views[n] \in ViewNames
        BY <4>1 DEF Views, ViewNames
      <4> QED BY <4>1, <4>2
    <3>2. CASE ZoomIn
      BY <1>1, <3>2 DEF ZoomIn, ViewNames
    <3> QED BY <1>6, <3>1, <3>2
  <2> DEFINE p == SwitchView(pos, v)
  <2>2. p \in Pages
    BY <1>1, SwitchedIsPage
  <2>3. history' \in Seq(Pages)
    BY <2>1, PushedIsPages DEF AppInv
  <2>4. Go(p)
    BY <2>1
  <2> HIDE DEF p
  <2> QED BY <2>1, <2>2, <2>3, <2>4, KeyLeaves, GoKeeps DEF Go
<1>7. CASE GoBack
  <2> DEFINE p == history[Len(history)]
  <2>1. p \in Pages /\ history' \in Seq(Pages)
    <3>1. history # <<>> /\ history' = SubSeq(history, 1, Len(history) - 1)
      BY <1>7 DEF GoBack
    <3>2. Len(history) \in 1 .. Len(history)
      BY <1>1, <3>1
    <3> QED BY <1>1, <3>1, <3>2
  <2>2. ReloadEvents(p) /\ Key
    BY <1>7 DEF GoBack
  <2> HIDE DEF p
  <2> QED BY <2>1, <2>2, KeyLeaves, GoKeeps
<1> QED BY <1>2, <1>3, <1>4, <1>5, <1>6, <1>7 DEF MoveKeys

LEMMA OnAppliedKeeps ==
  ASSUME AppInv, OnApplied
  PROVE  AppInv'
<1>1. ReloadEvents(pos) /\ pos \in Pages /\ UNCHANGED <<cacheVars, dialog, settings>> /\ history' \in Seq(Pages)
  BY DEF OnApplied, AppInv, AppTyped
<1> QED BY <1>1, GoKeeps

\* Enter in the invitations panel: the day of the invitation.
LEMMA JumpToInvitationKeeps ==
  ASSUME AppInv, JumpToInvitation
  PROVE  AppInv'
<1> DEFINE i == InvitationAt(invites)
           d == LocalDay(invites.list[i])
           p == [view |-> "Event", anchor |-> d, focus |-> d, cursor |-> 0]
           first == Refilter(p, loaded.rows, visible, declined, i)
           q == first.pos
           r == DisplayedRange(q)
           S == InRange(r[1], r[2])
<1>1. d \in Days /\ ReloadFrom(rows, S, q, visible, first.fid)
  BY DEF JumpToInvitation
<1>2. p \in Positions /\ p.focus = p.anchor
  BY <1>1 DEF Days, Positions, ViewNames
<1>3. lastId \in Nat /\ IsRows(loaded.rows, lastId)
  BY DEF AppInv, AppTyped
<1>4. q \in Positions /\ q.focus = q.anchor
  <2> HIDE DEF p, i
  <2>1. q \in Positions
    BY <1>2, <1>3, RefilterPlaces
  <2>2. q.focus = p.focus /\ q.anchor = p.anchor
    BY <1>2, <1>3, RefilterPlaces
  <2> QED BY <1>2, <2>1, <2>2
<1>5. S \in SUBSET DOMAIN rows
  BY InRangeIsRows
<1> HIDE DEF S
<1>6. q \in Pages
  <2> HIDE DEF q
  <2> QED BY <1>4, AnchoredIsPage
<1>7. UNCHANGED <<rows, offered, lastId, yank, visible, prefs, file, declined, hidden>> /\ mode' = "Browse" /\ PushHistory
  BY DEF JumpToInvitation, cacheVars, settings
<1>8. history' \in Seq(Pages)
  BY <1>7, PushedIsPages DEF AppInv
<1>9. DialogsHold' /\ Hiding' /\ DOMAIN visible \subseteq Cal
  BY <1>7, DialogsClose, SettingsStay DEF AppInv, AppTyped
<1> HIDE DEF q, first
<1> QED BY <1>1, <1>5, <1>6, <1>7, <1>8, <1>9, LookKeeps

-----------------------------------------------------------------------------
(* Settings. *)

\* set_calendars keeps a hidden calendar hidden, listed before or not.
LEMMA ListedHides ==
  ASSUME NEW cals \in SUBSET Cal, NEW known, known \in [DOMAIN known -> BOOLEAN],
         NEW saved, saved \in [DOMAIN saved -> BOOLEAN]
  PROVE  /\ Listed(cals, known, saved) \in [cals -> BOOLEAN]
         /\ \A c \in cals : /\ c \in DOMAIN known => Listed(cals, known, saved)[c] = known[c]
                            /\ c \notin DOMAIN known /\ c \in DOMAIN saved => Listed(cals, known, saved)[c] = saved[c]
  BY DEF Listed

LEMMA SetCalendarsHides ==
  ASSUME AppInv, visible' = SetCalendars, UNCHANGED <<prefs, file, hidden>>
  PROVE  Hiding' /\ DOMAIN visible' \subseteq Cal
<1>1. /\ offered \in SUBSET Cal
      /\ file = prefs /\ visible \in [DOMAIN visible -> BOOLEAN] /\ prefs \in [DOMAIN prefs -> BOOLEAN]
      /\ \A c \in hidden : c \in DOMAIN prefs /\ ~prefs[c] /\ (c \in DOMAIN visible => ~visible[c])
  BY DEF AppInv, AppTyped, Hiding
<1>2. /\ visible' \in [offered -> BOOLEAN]
      /\ \A c \in offered : /\ c \in DOMAIN visible => visible'[c] = visible[c]
                            /\ c \notin DOMAIN visible /\ c \in DOMAIN prefs => visible'[c] = prefs[c]
  BY <1>1, ListedHides DEF SetCalendars
<1>3. DOMAIN visible' = offered
  BY <1>2
<1>4. ASSUME NEW c \in hidden, c \in offered PROVE ~visible'[c]
  <2>1. CASE c \in DOMAIN visible
    BY <1>1, <1>2, <1>4, <2>1
  <2>2. CASE c \notin DOMAIN visible
    BY <1>1, <1>2, <1>4, <2>2
  <2> QED BY <2>1, <2>2
<1> QED BY <1>1, <1>2, <1>3, <1>4 DEF Hiding

LEMMA OnSyncedKeeps ==
  ASSUME AppInv, OnSynced \/ Periodic
  PROVE  AppInv'
<1> DEFINE r == DisplayedRange(pos)
           S == InRange(r[1], r[2])
<1>1. /\ visible' = SetCalendars /\ ReloadFrom(rows, S, pos, SetCalendars, focusId)
      /\ UNCHANGED <<rows, offered, lastId, history, mode, pending, draft, editor, yank, prefs, file, declined, hidden>>
  BY DEF OnSynced, Periodic, cacheVars, dialog
<1>2. S \in SUBSET DOMAIN rows
  BY InRangeIsRows
<1> HIDE DEF S
<1>3. pos \in Pages /\ history' \in Seq(Pages) /\ yank' \in Cal \cup {NoCal}
  BY <1>1 DEF AppInv, AppTyped
<1>4. Hiding' /\ DOMAIN SetCalendars \subseteq Cal
  BY <1>1, SetCalendarsHides
<1>5. DialogsHold'
  BY <1>1, <1>3, DialogsStay
<1> QED BY <1>1, <1>2, <1>3, <1>4, <1>5, LookKeeps

\* A step that changes what is shown of the rows on screen, and not the rows.
LEMMA RedrawnKeeps ==
  ASSUME AppInv, NEW vis, NEW dec, Show(pos, loaded.rows, vis, dec, focusId),
         visible' = vis, declined' = dec, DOMAIN vis \subseteq Cal, Hiding',
         UNCHANGED <<rows, offered, lastId, history, mode, pending, draft, editor, yank, loaded>>
  PROVE  AppInv'
<1>1. /\ lastId \in Nat /\ IsRows(loaded.rows, lastId) /\ pos \in Pages
      /\ loaded.range = DisplayedRange(pos) /\ yank' \in Cal \cup {NoCal}
  BY DEF AppInv, AppTyped, Placed
<1> DEFINE evs == loaded.rows
<1>2. loaded.range' = DisplayedRange(pos) /\ loaded.rows' = evs /\ IsRows(evs, lastId) /\ Show(pos, evs, vis, dec, focusId)
  BY <1>1
<1> HIDE DEF evs
<1>3. pos' \in Pages /\ Placed'
  BY <1>1, <1>2, ShowPlaces
<1>4. DialogsHold'
  BY <1>1, DialogsStay
<1>5. AppTyped'
  BY <1>3, <1>4 DEF AppInv, AppTyped, DialogsHold
<1>6. NamesHold'
  BY <1>4 DEF AppInv, NamesHold, DialogsHold
<1> QED BY <1>3, <1>5, <1>6 DEF AppInv

LEMMA TogglePanelKeeps ==
  ASSUME AppInv, TogglePanel
  PROVE  AppInv'
<1>1. PICK c \in DOMAIN visible :
        /\ visible' = [visible EXCEPT ![c] = ~@]
        /\ prefs' = [d \in DOMAIN prefs \cup {c} |-> IF d = c THEN visible'[c] ELSE prefs[d]]
        /\ hidden' = IF visible'[c] THEN hidden \ {c} ELSE hidden \cup {c}
        /\ Show(pos, loaded.rows, visible', declined, focusId)
  BY DEF TogglePanel
<1>2. /\ UNCHANGED <<rows, offered, lastId, history, mode, pending, draft, editor, yank, declined, loaded>>
      /\ file' = prefs'
  BY DEF TogglePanel, cacheVars, dialog
<1>3. /\ visible \in [DOMAIN visible -> BOOLEAN] /\ prefs \in [DOMAIN prefs -> BOOLEAN]
      /\ \A d \in hidden : d \in DOMAIN prefs /\ ~prefs[d] /\ (d \in DOMAIN visible => ~visible[d])
      /\ DOMAIN visible \subseteq Cal
  BY DEF AppInv, AppTyped, Hiding
<1>4. /\ visible' \in [DOMAIN visible -> BOOLEAN] /\ DOMAIN visible' = DOMAIN visible
      /\ \A d \in DOMAIN visible : d # c => visible'[d] = visible[d]
  BY <1>1, <1>3
<1>5. /\ prefs' \in [DOMAIN prefs' -> BOOLEAN] /\ DOMAIN prefs' = DOMAIN prefs \cup {c}
      /\ prefs'[c] = visible'[c] /\ \A d \in DOMAIN prefs : d # c => prefs'[d] = prefs[d]
  BY <1>1, <1>3, <1>4
<1>6. ASSUME NEW d \in hidden'
      PROVE  d \in DOMAIN prefs' /\ ~prefs'[d] /\ (d \in DOMAIN visible' => ~visible'[d])
  <2>1. CASE d = c
    <3>1. ~visible'[c]
      BY <1>1, <1>6, <2>1
    <3> QED BY <1>5, <2>1, <3>1
  <2>2. CASE d # c
    <3>1. d \in hidden
      BY <1>1, <1>6, <2>2
    <3> QED BY <1>3, <1>4, <1>5, <2>2, <3>1
  <2> QED BY <2>1, <2>2
<1>7. Hiding'
  BY <1>2, <1>4, <1>5, <1>6 DEF Hiding
<1>8. DOMAIN visible' \subseteq Cal
  BY <1>3, <1>4
<1> QED BY <1>1, <1>2, <1>7, <1>8, RedrawnKeeps

LEMMA ToggleDeclinedKeeps ==
  ASSUME AppInv, ToggleDeclined
  PROVE  AppInv'
<1>1. /\ declined' = ~declined /\ Show(pos, loaded.rows, visible, declined', focusId) /\ file' = prefs
      /\ UNCHANGED <<rows, offered, lastId, history, mode, pending, draft, editor, yank, visible, prefs, hidden, loaded>>
  BY DEF ToggleDeclined, cacheVars, dialog
<1>2. Hiding' /\ DOMAIN visible \subseteq Cal
  BY <1>1 DEF AppInv, AppTyped, Hiding
<1> QED BY <1>1, <1>2, RedrawnKeeps

-----------------------------------------------------------------------------
(* jacal started. *)

LEMMA StartPage == NewPos \in Pages
<1>1. Today \in Int
  BY CalAppAssumption
<1>2. NewPos \in Positions /\ NewPos.focus = NewPos.anchor
  BY <1>1 DEF NewPos, Positions, ViewNames
<1> HIDE DEF NewPos
<1> QED BY <1>2, AnchoredIsPage

LEMMA StartedLists ==
  ASSUME NEW rs, NEW cals \in SUBSET Cal, NEW saved, saved \in [DOMAIN saved -> BOOLEAN]
  PROVE  /\ Started(rs, cals, saved).visible \in [cals -> BOOLEAN]
         /\ \A c \in cals : c \in DOMAIN saved => Started(rs, cals, saved).visible[c] = saved[c]
<1>1. Started(rs, cals, saved).visible = Listed(cals, <<>>, saved)
  BY DEF Started
<1>2. DOMAIN <<>> = {}
  OBVIOUS
<1>3. Listed(cals, <<>>, saved) = [c \in cals |-> IF c \in DOMAIN saved THEN saved[c] ELSE TRUE]
  BY <1>2 DEF Listed
<1> QED BY <1>1, <1>3

LEMMA StartedRows ==
  ASSUME NEW n \in Nat, NEW rs, IsRows(rs, n), NEW cals, NEW saved,
         NEW shot, shot = Started(rs, cals, saved).loaded
  PROVE  /\ shot.range = DisplayedRange(NewPos)
         /\ IsRows(shot.rows, n) /\ DOMAIN shot.rows \subseteq DOMAIN rs
         /\ \A i \in DOMAIN shot.rows : shot.rows[i] = rs[i]
<1> DEFINE r == DisplayedRange(NewPos)
           D == {j \in DOMAIN rs : /\ rs[j].status # "delete" /\ rs[j].day < r[2] /\ LastDayOf(rs[j]) >= r[1]}
           evs == [i \in D |-> rs[i]]
<1>1. shot = [range |-> r, rows |-> evs]
  BY DEF Started
<1>2. IsRows(evs, n) /\ DOMAIN evs \subseteq DOMAIN rs /\ \A i \in DOMAIN evs : evs[i] = rs[i]
  BY DEF IsRows
<1> HIDE DEF evs, r
<1>3. shot.range = r /\ shot.rows = evs
  BY <1>1
<1> QED BY <1>2, <1>3 DEF r

\* Whatever is loaded, the cursor starts on the first event of the day.
LEMMA StartSelects ==
  ASSUME NEW n \in Nat, NEW evs, IsRows(evs, n), NEW vis, NEW dec,
         OnFocus(NewPos, evs, vis, dec) # {}
  PROVE  SelectedIn(NewPos, evs, vis, dec) # NoId
<1> DEFINE S == OnFocus(NewPos, evs, vis, dec)
<1>1. IsFiniteSet(1 .. n)
  BY FS_Interval
<1>2. S \in SUBSET (1 .. n)
  BY FocusIsLoaded DEF IsRows
<1>3. IsFiniteSet(S)
  BY <1>1, <1>2, FS_Subset
<1>4. Cardinality(S) \in Nat /\ Cardinality(S) # 0
  BY <1>3, FS_CardinalityType, FS_EmptySet
<1>5. NewPos.cursor = 0
  BY DEF NewPos
<1>6. NewPos.cursor \in 0 .. Cardinality(S) - 1
  BY <1>4, <1>5
<1> HIDE DEF S
<1> QED BY <1>6, SelectedThere DEF S

LEMMA AppInitInv == AppInit => AppInv
<1> SUFFICES ASSUME AppInit PROVE AppInv
  OBVIOUS
<1> DEFINE n == Len(Known)
           app == Started(rows, Cal, <<>>)
<1>1. Known \in Seq(KnownUid) /\ n \in Nat /\ DOMAIN Known = 1 .. n /\ \A i \in 1 .. n : Known[i] \in Uid
  BY CalAppAssumption DEF Uid
<1>2. IsRows(rows, n) /\ lastId = n
  <2>1. rows = [i \in 1 .. n |-> Row(Known[i])] /\ lastId = n
    BY <1>1 DEF AppInit
  <2>2. ASSUME NEW u \in Uid PROVE Row(u) \in RowSet
    BY CalAppAssumption DEF Row, RowSet
  <2>3. \A i \in 1 .. n : rows[i] \in RowSet
    BY <1>1, <2>1, <2>2
  <2> QED BY <2>1, <2>3 DEF IsRows
<1> HIDE DEF n
<1>3. /\ visible = app.visible /\ loaded = app.loaded /\ pos = NewPos /\ history = <<>> /\ mode = "Browse"
      /\ yank = NoCal /\ prefs = <<>> /\ file = <<>> /\ declined = TRUE /\ hidden = {} /\ offered = Cal
  BY DEF AppInit
<1>6. <<>> \in [DOMAIN <<>> -> BOOLEAN] /\ DOMAIN <<>> = {}
  OBVIOUS
<1>4. /\ loaded.range = DisplayedRange(NewPos)
      /\ IsRows(loaded.rows, n) /\ DOMAIN loaded.rows \subseteq DOMAIN rows
      /\ \A i \in DOMAIN loaded.rows : loaded.rows[i] = rows[i]
  BY <1>1, <1>2, <1>3, StartedRows
<1>5. OnFocus(NewPos, loaded.rows, visible, TRUE) # {} => SelectedIn(NewPos, loaded.rows, visible, TRUE) # NoId
  BY <1>1, <1>4, StartSelects
<1>7. visible \in [Cal -> BOOLEAN]
  BY <1>3, <1>6, StartedLists
<1> HIDE DEF app
<1>8. AppTyped
  BY <1>1, <1>2, <1>3, <1>4, <1>7, StartPage DEF AppTyped, FormOpen
<1>9. Placed
  BY <1>3, <1>4, <1>5 DEF Placed, Selected
<1>10. NamesHold
  BY <1>3, <1>4 DEF NamesHold
<1>11. Hiding
  BY <1>3, <1>6, <1>7 DEF Hiding
<1> QED BY <1>8, <1>9, <1>10, <1>11 DEF AppInv

LEMMA RestartKeeps ==
  ASSUME AppInv, Restart
  PROVE  AppInv'
<1> DEFINE app == Started(rows, offered, file)
<1>1. /\ visible' = app.visible /\ loaded' = app.loaded /\ pos' = NewPos /\ history' = <<>>
      /\ mode' = "Browse" /\ yank' = NoCal /\ prefs' = file
      /\ UNCHANGED <<rows, offered, lastId, pending, draft, editor, file, declined, hidden>>
  BY DEF Restart, cacheVars
<1>2. lastId \in Nat /\ IsRows(rows, lastId) /\ offered \in SUBSET Cal
  BY DEF AppInv, AppTyped
<1>3. /\ file = prefs /\ prefs \in [DOMAIN prefs -> BOOLEAN]
      /\ \A c \in hidden : c \in DOMAIN prefs /\ ~prefs[c]
  BY DEF AppInv, Hiding
<1>4. /\ loaded.range' = DisplayedRange(NewPos)
      /\ IsRows(loaded.rows', lastId) /\ DOMAIN loaded.rows' \subseteq DOMAIN rows
      /\ \A i \in DOMAIN loaded.rows' : loaded.rows'[i] = rows[i]
  <2> DEFINE shot == app.loaded
  <2>1. /\ shot.range = DisplayedRange(NewPos)
        /\ IsRows(shot.rows, lastId) /\ DOMAIN shot.rows \subseteq DOMAIN rows
        /\ \A i \in DOMAIN shot.rows : shot.rows[i] = rows[i]
    BY <1>2, StartedRows
  <2>2. loaded' = shot
    BY <1>1
  <2> HIDE DEF shot
  <2> QED BY <2>1, <2>2
<1>5. OnFocus(NewPos, loaded.rows', visible', declined) # {} => SelectedIn(NewPos, loaded.rows', visible', declined) # NoId
  BY <1>2, <1>4, StartSelects
<1>7. /\ visible' \in [offered -> BOOLEAN]
      /\ \A c \in offered : c \in DOMAIN prefs => visible'[c] = prefs[c]
  <2> DEFINE vis == app.visible
  <2>1. file \in [DOMAIN file -> BOOLEAN]
    BY <1>3
  <2>2. vis \in [offered -> BOOLEAN]
    BY <1>2, <2>1, StartedLists
  <2>3. \A c \in offered : c \in DOMAIN file => vis[c] = file[c]
    BY <1>2, <2>1, StartedLists, SMTT(30)
  <2>4. visible' = vis
    BY <1>1
  <2> HIDE DEF vis
  <2> QED BY <1>3, <2>2, <2>3, <2>4
<1> HIDE DEF app
<1>8. AppTyped'
  BY <1>1, <1>2, <1>4, <1>7, StartPage DEF AppTyped, FormOpen
<1>9. Placed'
  BY <1>1, <1>4, <1>5 DEF Placed, Selected
<1>10. NamesHold'
  BY <1>1, <1>4 DEF NamesHold
<1>11. Hiding'
  <2>1. DOMAIN visible' = offered
    BY <1>7
  <2>2. \A c \in hidden : c \in offered => ~visible'[c]
    BY <1>3, <1>7
  <2> QED BY <1>1, <1>3, <1>7, <2>1, <2>2 DEF Hiding
<1> QED BY <1>8, <1>9, <1>10, <1>11 DEF AppInv

LEMMA DialogsKeep ==
  ASSUME AppInv, Dialogs
  PROVE  AppInv'
  BY OpeningsKeep, PromptsKeep, BeginEditKeeps, NewFormsKeep, FormKeysKeep, CancelFormKeeps,
     BeginAttendeesForDraftKeeps, BeginAttendeesForSelectedKeeps, EditGuestsKeeps, FinishDraftGuestsKeeps,
     ConfirmDeleteKeeps, AnswersKeep, SubmitEditKeeps, SubmitCreateKeeps, FinishEventGuestsKeeps,
     JumpToInvitationKeeps, TogglePanelKeeps, ToggleDeclinedKeeps, RestartKeeps
     DEF Dialogs

LEMMA AppStutters ==
  ASSUME AppInv, UNCHANGED appVars
  PROVE  AppInv'
<1>1. UNCHANGED <<rows, offered, lastId, pos, history, mode, pending, draft, editor, yank, visible, prefs, file,
                  declined, hidden, loaded>>
  BY DEF appVars, cacheVars, screen, dialog, settings
<1>2. DialogsHold'
  BY <1>1, DialogsStay DEF AppInv, AppTyped
<1> QED BY <1>1, <1>2, StillKeeps

LEMMA AppNextInv == AppInv /\ [AppNext]_appVars => AppInv'
  BY BehindKeeps, OnSyncedKeeps, OnAppliedKeeps, MovesKeep, DialogsKeep, AppStutters DEF AppNext, Reloads

LEMMA AppAlways == AppSpec => []AppInv
  BY AppInitInv, AppNextInv, PTL DEF AppSpec

\* The day in focus is on screen with its events and the cursor on one, and no
\* calendar the user hid shows any.
LEMMA AppInvShows == AppInv => ScreenIsTrue
<1> SUFFICES ASSUME AppInv PROVE ScreenIsTrue
  OBVIOUS
<1>1. FocusShown
  BY DEF AppInv, AppTyped, Placed, Pages, OnPage, FocusShown
<1>2. HiddenStaysHidden
  BY DEF AppInv, Hiding, HiddenStaysHidden, Events, IsVisible
<1> QED BY <1>1, <1>2 DEF ScreenIsTrue

\* What the next key of jacal works on can be seen: the day in focus is on the
\* page, the page's rows are loaded, and the cursor is on an event of the day if
\* it has any; and no event of a hidden calendar is shown. So it stays whatever
\* jamaild changes meanwhile (set_focused_date, refilter, set_calendars).
THEOREM ScreenStaysTrue == AppSpec => []ScreenIsTrue
  BY AppAlways, AppInvShows, PTL

\* The step that closes a prompt, a form or the dialog changes no row but that
\* of the event it named when it was opened.
LEMMA ClosingStep ==
  ASSUME AppInv, AppNext, mode' # mode, mode \in {"ConfirmDelete", "Rsvp", "Edit", "Attendees"},
         NEW i \in DOMAIN rows, Changed(i)
  PROVE  rows[i].uid = Promised.name
<1>1. rows' # rows
  BY DEF Changed
<1>2. ~Jamaild /\ ~Reloads /\ ~MoveKeys
  BY DEF Jamaild, PullNew, PullMoved, PullGone, Pushed, CalendarGone, CalendarBack, Behind, dialog,
         Reloads, OnSynced, OnApplied, Periodic, MoveKeys, Horizontal, Vertical, JumpPeriod, GotoToday, StepView,
         ZoomIn, GoBack, Key
<1>3. ConfirmDelete \/ Answer \/ SubmitEdit \/ FinishEventGuests
  BY <1>1, <1>2 DEF AppNext, Dialogs, TogglePanel, ToggleDeclined, OpenPanel, ClosePanel, DropYank, Restart,
         BeginDelete, BeginRsvp, CancelPrompt, OpenInvitations, InvitationsMove, AnswerInvitation, JumpToInvitation,
         BeginCreate, BeginEdit, YankSelected, PasteYanked, CycleCalendar, TypeDate, CancelForm, SubmitCreate,
         BeginAttendeesForDraft, BeginAttendeesForSelected, EditGuests, FinishDraftGuests, InForm, Steady, cacheVars, dialog
<1>4. IsRows(rows, lastId)
  BY DEF AppInv, AppTyped
<1>5. CASE ConfirmDelete
  <2>1. mode = "ConfirmDelete" /\ Written(pending.id, MarkDeleted(pending.id))
    BY <1>5 DEF ConfirmDelete
  <2>2. i = pending.id
    BY <1>1, <1>4, <2>1 DEF Written, MarkDeleted, Without, Changed, IsRows
  <2> QED BY <2>1, <2>2 DEF AppInv, NamesHold, Means, Promised
<1>6. CASE Answer
  <2>1. mode = "Rsvp" /\ \E a \in Answers : Written(pending.id, Answered(pending.id, a))
    BY <1>6 DEF Answer
  <2>2. i = pending.id
    BY <1>1, <1>4, <2>1 DEF Written, Answered, Edited, Changed, IsRows
  <2> QED BY <2>1, <2>2 DEF AppInv, NamesHold, Means, Promised
<1>7. CASE SubmitEdit
  <2>1. mode = "Edit" /\ draft.id \in DOMAIN rows
    BY <1>7 DEF SubmitEdit
  <2>2. i = draft.id
    BY <1>4, <1>7 DEF SubmitEdit, Edited, Changed, IsRows
  <2> QED BY <2>1, <2>2 DEF AppInv, NamesHold, Means, Promised
<1>8. CASE FinishEventGuests
  <2>1. mode = "Attendees" /\ editor.back = "Browse"
    BY <1>8 DEF FinishEventGuests
  <2>2. i = editor.id
    BY <1>1, <1>4, <1>8 DEF FinishEventGuests, Written, Edited, Changed, IsRows
  <2> QED BY <2>1, <2>2 DEF AppInv, NamesHold, Means, Promised
<1> QED BY <1>3, <1>5, <1>6, <1>7, <1>8

\* The answer to a prompt, a saved form and the guest dialog of jacal change no
\* event but the one named when they were opened, whatever reloads moved or took
\* away meanwhile (take_pending_delete, take_pending_rsvp,
\* finish_attendee_editor of calapp.rs).
THEOREM ActsAsNamed == AppSpec => ActsOnWhatItNames
<1>1. AppInv /\ [AppNext]_appVars =>
        [(mode' # mode /\ mode \in {"ConfirmDelete", "Rsvp", "Edit", "Attendees"}) =>
           \A i \in DOMAIN rows : Changed(i) => rows[i].uid = Promised.name]_appVars
  BY ClosingStep
<1> QED BY <1>1, AppAlways, PTL DEF AppSpec, ActsOnWhatItNames
=============================================================================
