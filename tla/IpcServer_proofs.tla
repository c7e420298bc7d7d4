---------------------------- MODULE IpcServer_proofs ----------------------------
(***************************************************************************)
(* The streams of messages that the IPC server writes, for any clients,      *)
(* requests, events and sizes of the sockets: they are whole, in the order    *)
(* of what happened, answer each request once, and implement IpcStream.      *)
(***************************************************************************)
EXTENDS IpcServer, SequenceTheorems, FiniteSetTheorems, TLAPS

-----------------------------------------------------------------------------
(* Prefixes *)

LEMMA PrefixIs ==
    ASSUME NEW S, NEW s \in Seq(S), NEW t \in Seq(S)
    PROVE  IsPrefix(s, t) <=> Len(s) <= Len(t) /\ \A i \in 1 .. Len(s) : s[i] = t[i]
<1>1. Len(s) \in Nat /\ Len(t) \in Nat /\ \A i \in 1 .. Len(s) : s[i] \in S
  BY LenProperties, ElementOfSeq
<1>2. \A i \in 1 .. Len(t) : t[i] \in S
  BY ElementOfSeq
<1>3. CASE Len(s) <= Len(t)
  <2>1. SubSeq(s, 1, Len(s)) \in Seq(S) /\ Len(SubSeq(s, 1, Len(s))) = Len(s)
        /\ \A i \in 1 .. Len(s) : SubSeq(s, 1, Len(s))[i] = s[i]
    BY SubSeqFull
  <2>2. SubSeq(t, 1, Len(s)) \in Seq(S) /\ Len(SubSeq(t, 1, Len(s))) = Len(s)
        /\ \A i \in 1 .. Len(s) : SubSeq(t, 1, Len(s))[i] = t[i]
    <3>1. \A i \in 1 .. Len(s) : t[i] \in S
      BY <1>1, <1>2, <1>3
    <3>2. QED
      BY <1>1, <3>1, SubSeqProperties
  <2>3. SubSeq(s, 1, Len(s)) = SubSeq(t, 1, Len(s)) <=> \A i \in 1 .. Len(s) : s[i] = t[i]
    BY <2>1, <2>2, SeqEqual
  <2>4. QED
    BY <1>3, <2>3 DEF IsPrefix
<1>4. QED
  BY <1>3 DEF IsPrefix

LEMMA PrefixOfConcat ==
    ASSUME NEW S, NEW s \in Seq(S), NEW t \in Seq(S)
    PROVE  s \o t \in Seq(S) /\ IsPrefix(s, s \o t)
<1>1. Len(s) \in Nat /\ Len(t) \in Nat
  BY LenProperties
<1>2. /\ s \o t \in Seq(S) /\ Len(s \o t) = Len(s) + Len(t)
      /\ \A i \in 1 .. Len(s) + Len(t) : (s \o t)[i] = IF i <= Len(s) THEN s[i] ELSE t[i - Len(s)]
  BY ConcatProperties
<1>3. Len(s) <= Len(s \o t) /\ \A i \in 1 .. Len(s) : s[i] = (s \o t)[i]
  BY <1>1, <1>2
<1>4. QED
  BY <1>2, <1>3, PrefixIs

LEMMA PrefixSelf == ASSUME NEW S, NEW s \in Seq(S) PROVE IsPrefix(s, s)
  BY DEF IsPrefix

LEMMA PrefixTrans ==
    ASSUME NEW S, NEW s \in Seq(S), NEW t \in Seq(S), NEW u \in Seq(S), IsPrefix(s, t), IsPrefix(t, u)
    PROVE  IsPrefix(s, u)
<1>1. Len(s) \in Nat /\ Len(t) \in Nat /\ Len(u) \in Nat
  BY LenProperties
<1>2. /\ Len(s) <= Len(t) /\ \A i \in 1 .. Len(s) : s[i] = t[i]
      /\ Len(t) <= Len(u) /\ \A i \in 1 .. Len(t) : t[i] = u[i]
  BY PrefixIs
<1>3. QED
  BY <1>1, <1>2, PrefixIs

LEMMA PrefixAfter ==
    ASSUME NEW S, NEW s \in Seq(S), NEW t \in Seq(S), NEW u \in Seq(S), IsPrefix(t, u)
    PROVE  IsPrefix(s \o t, s \o u)
<1>1. Len(s) \in Nat /\ Len(t) \in Nat /\ Len(u) \in Nat
  BY LenProperties
<1>2. Len(t) <= Len(u) /\ \A i \in 1 .. Len(t) : t[i] = u[i]
  BY PrefixIs
<1>3. /\ s \o t \in Seq(S) /\ Len(s \o t) = Len(s) + Len(t)
      /\ \A i \in 1 .. Len(s) + Len(t) : (s \o t)[i] = IF i <= Len(s) THEN s[i] ELSE t[i - Len(s)]
  BY ConcatProperties
<1>4. /\ s \o u \in Seq(S) /\ Len(s \o u) = Len(s) + Len(u)
      /\ \A i \in 1 .. Len(s) + Len(u) : (s \o u)[i] = IF i <= Len(s) THEN s[i] ELSE u[i - Len(s)]
  BY ConcatProperties
<1>5. ASSUME NEW i \in 1 .. Len(s \o t) PROVE (s \o t)[i] = (s \o u)[i]
  <2>1. CASE i <= Len(s)
    BY <1>1, <1>2, <1>3, <1>4, <2>1
  <2>2. CASE ~(i <= Len(s))
    <3>1. i - Len(s) \in 1 .. Len(t)
      BY <1>1, <1>3, <2>2
    <3>2. QED
      BY <1>1, <1>2, <1>3, <1>4, <2>2, <3>1
  <2>3. QED
    BY <2>1, <2>2
<1>6. Len(s \o t) <= Len(s \o u)
  BY <1>1, <1>2, <1>3, <1>4
<1>7. QED
  BY <1>3, <1>4, <1>5, <1>6, PrefixIs

-----------------------------------------------------------------------------
(* Messages and connections *)

EventNames == {"workspace", "window", "output", "mode", "binding", "barconfig_update", "tick", "shutdown"}
Kinds == {"workspace", "window", "output", "mode", "binding", "barconfig_update", "tick", "first_tick",
          "restart", "exit", "tree", "workspaces", "outputs", "marks", "version", "bar_config",
          "binding_modes", "config", "binding_state", "aiwr_status", "subscribe", "subscribe_failed",
          "send_tick", "sync", "sync_failed", "command"}
Ats == UNION {[P -> Nat] : P \in SUBSET Parts}
Msgs == [kind : Kinds, at : Ats]
Piece == [msg : Msgs, part : {1, 2}]
Conns == [events : SUBSET EventNames, firstTick : BOOLEAN, buffer : Seq(Piece), writing : BOOLEAN,
          timer : BOOLEAN, sock : Seq(Piece), link : {"none", "backlog", "open", "hup", "eof", "closed"}]

Way(k) == k.sock \o k.buffer

\* The write callback and the kill timer run while the buffer holds something.
ConnOK(k) ==
    /\ k \in Conns
    /\ Len(k.sock) <= Room
    /\ k.link # "hup" => (k.writing <=> k.buffer # <<>>)
    /\ k.timer <=> k.writing

\* All that a write changes
SameSide(k, p) == p.events = k.events /\ p.firstTick = k.firstTick /\ p.link = k.link

LEMMA PiecesOf ==
    ASSUME NEW m \in Msgs
    PROVE  /\ Pieces(m) \in Seq(Piece) /\ Len(Pieces(m)) = 2
           /\ Pieces(m)[1] = [msg |-> m, part |-> 1] /\ Pieces(m)[2] = [msg |-> m, part |-> 2]
  BY DEF Pieces, Piece

LEMMA PiecesJoin ==
    \A s, t \in Seq(Piece) :
        /\ s \o t \in Seq(Piece) /\ Len(s) \in Nat /\ Len(s \o t) = Len(s) + Len(t)
        /\ \A u \in Seq(Piece) : (s \o t) \o u = s \o (t \o u)
<1> SUFFICES ASSUME NEW s \in Seq(Piece), NEW t \in Seq(Piece)
             PROVE  /\ s \o t \in Seq(Piece) /\ Len(s) \in Nat /\ Len(s \o t) = Len(s) + Len(t)
                    /\ \A u \in Seq(Piece) : (s \o t) \o u = s \o (t \o u)
  OBVIOUS
<1> QED
  BY ConcatProperties, ConcatAssociative, LenProperties

LEMMA NoConnOK == ConnOK(NoConn) /\ Way(NoConn) = <<>>
<1>1. <<>> \in Seq(Piece) /\ Len(<<>>) = 0
  OBVIOUS
<1>2. NoConn \in Conns
  BY <1>1 DEF NoConn, Conns
<1>3. QED
  BY <1>1, <1>2, IpcAssumption DEF ConnOK, NoConn, Way

LEMMA PushKeeps ==
    ASSUME NEW k \in Conns, Len(k.sock) <= Room, k.link = "hup" => ConnOK(k)
    PROVE  /\ ConnOK(PushPending(k)) /\ SameSide(k, PushPending(k))
           /\ Way(PushPending(k)) = Way(k)
<1>1. CASE k.link = "hup"
  BY <1>1 DEF PushPending, SameSide
<1>2. CASE k.link # "hup"
  <2> DEFINE n == Written(k)
             rest == SubSeq(k.buffer, n + 1, Len(k.buffer))
             done == SubSeq(k.buffer, 1, n)
  <2>1. k.buffer \in Seq(Piece) /\ k.sock \in Seq(Piece)
    BY DEF Conns
  <2>2. Len(k.sock) \in Nat /\ Len(k.buffer) \in Nat
    BY <2>1, LenProperties
  <2>3. n \in 0 .. Len(k.buffer) /\ Len(k.sock) + n <= Room
    <3>1. Room \in Nat
      BY IpcAssumption
    <3>2. \A r, a, b \in Nat : a <= r =>
             LET x == IF r - a < b THEN r - a ELSE b IN x \in 0 .. b /\ a + x <= r
      OBVIOUS
    <3>3. QED
      BY <2>2, <3>1, <3>2, Zenon DEF Written
  <2> HIDE DEF n
  <2>4. \A i \in 1 .. Len(k.buffer) : k.buffer[i] \in Piece
    BY <2>1, ElementOfSeq
  <2>5. done \in Seq(Piece) /\ Len(done) = n
    <3>1. \A i \in 1 .. n : k.buffer[i] \in Piece
      BY <2>2, <2>3, <2>4
    <3>2. QED
      BY <2>2, <2>3, <3>1, SubSeqProperties
  <2>6. rest \in Seq(Piece)
    <3>1. \A i \in n + 1 .. Len(k.buffer) : k.buffer[i] \in Piece
      BY <2>2, <2>3, <2>4
    <3>2. QED
      BY <2>2, <2>3, <3>1, SubSeqProperties
  <2>7. done \o rest = k.buffer
    <3>1. 1 \in 1 .. Len(k.buffer) + 1 /\ n \in 1 - 1 .. Len(k.buffer) /\ Len(k.buffer) \in n .. Len(k.buffer)
      BY <2>2, <2>3
    <3>2. done \o rest = SubSeq(k.buffer, 1, Len(k.buffer))
      BY <2>1, <3>1, ConcatAdjacentSubSeq
    <3>3. QED
      BY <2>1, <3>2, SubSeqFull
  <2> HIDE DEF rest, done
  <2>8. k.sock \o done \in Seq(Piece) /\ Len(k.sock \o done) = Len(k.sock) + n
    BY <2>1, <2>5, ConcatProperties
  <2>9. PushPending(k) = [k EXCEPT !.sock = k.sock \o done, !.buffer = rest,
                                   !.writing = rest # <<>>, !.timer = rest # <<>>]
    BY <1>2 DEF PushPending, n, rest, done
  <2> DEFINE p == PushPending(k)
  <2>10. /\ p \in Conns /\ p.sock = k.sock \o done /\ p.buffer = rest
         /\ p.writing = (rest # <<>>) /\ p.timer = (rest # <<>>) /\ SameSide(k, p)
    BY <2>6, <2>8, <2>9 DEF Conns, SameSide
  <2>11. Way(p) = Way(k)
    <3>1. (k.sock \o done) \o rest = k.sock \o (done \o rest)
      BY <2>1, <2>5, <2>6, PiecesJoin, ZenonT(30)
    <3>2. QED
      BY <2>7, <2>10, <3>1 DEF Way
  <2>12. QED
    BY <2>3, <2>8, <2>10, <2>11 DEF ConnOK
<1>3. QED
  BY <1>1, <1>2

LEMMA SendGrows ==
    ASSUME NEW k, ConnOK(k), NEW m \in Msgs
    PROVE  /\ ConnOK(SendTo(k, m)) /\ SameSide(k, SendTo(k, m))
           /\ Way(SendTo(k, m)) = Way(k) \o Pieces(m)
<1> DEFINE longer == [k EXCEPT !.buffer = @ \o Pieces(m)]
<1>1. k \in Conns /\ k.buffer \in Seq(Piece) /\ k.sock \in Seq(Piece) /\ Pieces(m) \in Seq(Piece)
  BY PiecesOf DEF ConnOK, Conns
<1>2. k.buffer \o Pieces(m) \in Seq(Piece) /\ k.buffer \o Pieces(m) # <<>>
  <2>1. k.buffer \o Pieces(m) \in Seq(Piece) /\ Len(k.buffer \o Pieces(m)) = Len(k.buffer) + 2
    BY <1>1, PiecesOf, PiecesJoin, Zenon
  <2>2. Len(k.buffer) \in Nat
    BY <1>1, LenProperties
  <2>3. Len(k.buffer \o Pieces(m)) # 0
    BY <2>1, <2>2
  <2>4. QED
    BY <2>1, <2>3
<1>3. /\ longer \in Conns /\ longer.buffer = k.buffer \o Pieces(m) /\ longer.sock = k.sock
      /\ longer.writing = k.writing /\ longer.timer = k.timer /\ SameSide(k, longer)
  BY <1>1, <1>2 DEF Conns, SameSide
<1>4. Way(longer) = Way(k) \o Pieces(m)
  <2>1. (k.sock \o k.buffer) \o Pieces(m) = k.sock \o (k.buffer \o Pieces(m))
    BY <1>1, PiecesJoin, Zenon
  <2>2. QED
    BY <1>3, <2>1 DEF Way
<1> HIDE DEF longer
<1>5. CASE k.buffer = <<>>
  <2>1. SendTo(k, m) = PushPending(longer)
    BY <1>5 DEF SendTo, longer
  <2>2. Len(longer.sock) <= Room /\ (longer.link = "hup" => ConnOK(longer))
    BY <1>3 DEF ConnOK, SameSide
  <2>3. QED
    BY <1>3, <1>4, <2>1, <2>2, PushKeeps DEF SameSide
<1>6. CASE k.buffer # <<>>
  <2>1. SendTo(k, m) = longer
    BY <1>6 DEF SendTo, longer
  <2>2. ConnOK(longer)
    BY <1>2, <1>3, <1>6 DEF ConnOK, SameSide
  <2>3. QED
    BY <1>3, <1>4, <2>1, <2>2
<1>7. QED
  BY <1>5, <1>6
-----------------------------------------------------------------------------
(* Streams *)

\* A message that tells the state w of the world
Fresh(m, w) == m \in Msgs /\ \A p \in DOMAIN m.at : p \in Parts /\ m.at[p] = w[p]
Later(w, x) == w \in [Parts -> Nat] /\ x \in [Parts -> Nat] /\ \A p \in Parts : w[p] <= x[p]

Alternates(s) ==
    /\ Len(s) % 2 = 0
    /\ \A i \in 1 .. Len(s) : /\ s[i].part = 1 <=> i % 2 = 1
                              /\ s[i].part = 2 => s[i - 1].msg = s[i].msg

Chron(s, w) ==
    /\ \A i \in 1 .. Len(s) : \A p \in DOMAIN s[i].msg.at : p \in Parts /\ s[i].msg.at[p] <= w[p]
    /\ \A i, j \in 1 .. Len(s) : i < j =>
          \A p \in DOMAIN s[i].msg.at \cap DOMAIN s[j].msg.at : s[i].msg.at[p] <= s[j].msg.at[p]

Begins(s, kind) == {i \in 1 .. Len(s) : s[i].part = 1 /\ s[i].msg.kind = kind}
Ticks(s) ==
    /\ \A i, j \in Begins(s, "first_tick") : i = j
    /\ \A i \in Begins(s, "tick") : \E j \in Begins(s, "first_tick") \cup Begins(s, "subscribe_failed") : j < i

\* t is s with the message m after it
Follows(s, m, t) ==
    /\ s \in Seq(Piece) /\ t \in Seq(Piece) /\ Len(s) \in Nat /\ Len(t) = Len(s) + 2
    /\ \A i \in 1 .. Len(s) : t[i] = s[i]
    /\ t[Len(s) + 1] = [msg |-> m, part |-> 1] /\ t[Len(s) + 2] = [msg |-> m, part |-> 2]

LEMMA MessageFollows ==
    ASSUME NEW s \in Seq(Piece), NEW m \in Msgs
    PROVE  Follows(s, m, s \o Pieces(m))
<1>1. Pieces(m) \in Seq(Piece) /\ Len(s) \in Nat
  BY PiecesOf, LenProperties
<1>2. /\ s \o Pieces(m) \in Seq(Piece) /\ Len(s \o Pieces(m)) = Len(s) + Len(Pieces(m))
      /\ \A i \in 1 .. Len(s) + Len(Pieces(m)) :
            (s \o Pieces(m))[i] = IF i <= Len(s) THEN s[i] ELSE Pieces(m)[i - Len(s)]
  BY <1>1, ConcatProperties
<1>3. \A i \in 1 .. Len(s) + 2 :
         (s \o Pieces(m))[i] = IF i <= Len(s) THEN s[i] ELSE Pieces(m)[i - Len(s)]
  BY <1>2, PiecesOf
<1> DEFINE t == s \o Pieces(m)
           n == Len(s)
<1>4. \A i \in 1 .. n + 2 : t[i] = IF i <= n THEN s[i] ELSE Pieces(m)[i - n]
  BY <1>3
<1>5. n \in Nat
  BY <1>1
<1> HIDE DEF t, n
<1>6. (\A i \in 1 .. n : t[i] = s[i]) /\ t[n + 1] = Pieces(m)[1] /\ t[n + 2] = Pieces(m)[2]
  <2>1. n + 1 \in 1 .. n + 2 /\ n + 2 \in 1 .. n + 2 /\ ~(n + 1 <= n) /\ ~(n + 2 <= n)
        /\ (n + 1) - n = 1 /\ (n + 2) - n = 2
    BY <1>5
  <2>2. \A i \in 1 .. n : i \in 1 .. n + 2 /\ i <= n
    BY <1>5
  <2>3. QED
    BY <1>4, <2>1, <2>2
<1>7. QED
  BY <1>1, <1>2, <1>6, PiecesOf DEF Follows, t, n

LEMMA PieceFields == \A p \in Piece : p.part \in {1, 2} /\ p.msg \in Msgs
  BY DEF Piece
LEMMA AtFields == \A m \in Msgs : \A p \in DOMAIN m.at : p \in Parts /\ m.at[p] \in Nat
<1> SUFFICES ASSUME NEW m \in Msgs PROVE \A p \in DOMAIN m.at : p \in Parts /\ m.at[p] \in Nat
  OBVIOUS
<1>1. PICK P \in SUBSET Parts : m.at \in [P -> Nat]
  BY DEF Msgs, Ats
<1>2. QED
  BY <1>1

\* What an index of the longer stream is
LEMMA FollowsAt ==
    ASSUME NEW s, NEW m, NEW t, Follows(s, m, t), NEW i \in 1 .. Len(t)
    PROVE  \/ i \in 1 .. Len(s) /\ t[i] = s[i]
           \/ i = Len(s) + 1 /\ t[i] = [msg |-> m, part |-> 1]
           \/ i = Len(s) + 2 /\ t[i] = [msg |-> m, part |-> 2]
<1> DEFINE n == Len(s)
<1>1. n \in Nat /\ i \in 1 .. n + 2
  BY DEF Follows
<1>2. i \in 1 .. n \/ i = n + 1 \/ i = n + 2
  <2> HIDE DEF n
  <2> QED
    BY <1>1
<1>3. QED
  BY <1>2 DEF Follows

LEMMA FollowsAlternates ==
    ASSUME NEW s, NEW m, NEW t, Follows(s, m, t), Alternates(s)
    PROVE  Alternates(t)
<1> DEFINE n == Len(s)
<1>1. n \in Nat /\ n % 2 = 0 /\ Len(t) = n + 2
  BY DEF Follows, Alternates
<1>2. (n + 2) % 2 = 0 /\ (n + 1) % 2 = 1
  <2> HIDE DEF n
  <2> QED
    BY <1>1
<1>3. ASSUME NEW i \in 1 .. Len(t)
      PROVE  (t[i].part = 1 <=> i % 2 = 1) /\ (t[i].part = 2 => t[i - 1].msg = t[i].msg)
  <2>1. CASE i \in 1 .. n /\ t[i] = s[i]
    <3>1. (s[i].part = 1 <=> i % 2 = 1) /\ (s[i].part = 2 => s[i - 1].msg = s[i].msg)
      BY <2>1 DEF Alternates
    <3>2. s[i].part = 2 => i - 1 \in 1 .. n
      <4>1. i = 1 => s[i].part = 1
        BY <3>1
      <4> HIDE DEF n
      <4>2. i # 1 => i - 1 \in 1 .. n
        BY <1>1, <2>1
      <4>3. QED
        BY <4>1, <4>2
    <3>3. s[i].part = 2 => t[i - 1] = s[i - 1]
      BY <3>2 DEF Follows
    <3>4. QED
      BY <2>1, <3>1, <3>3
  <2>2. CASE i = n + 1 /\ t[i] = [msg |-> m, part |-> 1]
    BY <1>2, <2>2
  <2>3. CASE i = n + 2 /\ t[i] = [msg |-> m, part |-> 2]
    <3>1. t[n + 1] = [msg |-> m, part |-> 1]
      BY DEF Follows
    <3>2. i - 1 = n + 1
      <4> HIDE DEF n
      <4> QED
        BY <1>1, <2>3
    <3>3. QED
      BY <1>2, <2>3, <3>1, <3>2
  <2>4. QED
    BY <2>1, <2>2, <2>3, FollowsAt
<1>4. QED
  BY <1>1, <1>2, <1>3 DEF Alternates

LEMMA FollowsChron ==
    ASSUME NEW s, NEW m, NEW t, Follows(s, m, t), NEW w, Fresh(m, w), w \in [Parts -> Nat], Chron(s, w)
    PROVE  Chron(t, w)
<1>1. \A i \in 1 .. Len(t) : \/ i \in 1 .. Len(s) /\ t[i].msg = s[i].msg
                             \/ i > Len(s) /\ t[i].msg = m
  <2> SUFFICES ASSUME NEW i \in 1 .. Len(t)
               PROVE  \/ i \in 1 .. Len(s) /\ t[i].msg = s[i].msg
                      \/ i > Len(s) /\ t[i].msg = m
    OBVIOUS
  <2>1. \A n \in Nat : n + 1 > n /\ n + 2 > n
    OBVIOUS
  <2>2. Len(s) + 1 > Len(s) /\ Len(s) + 2 > Len(s)
    BY <2>1 DEF Follows
  <2>3. \/ i \in 1 .. Len(s) /\ t[i] = s[i]
        \/ i = Len(s) + 1 /\ t[i] = [msg |-> m, part |-> 1]
        \/ i = Len(s) + 2 /\ t[i] = [msg |-> m, part |-> 2]
    BY FollowsAt
  <2>4. QED
    BY <2>2, <2>3
<1>2. Len(s) \in Nat /\ Len(t) = Len(s) + 2
  BY DEF Follows
<1>3. \A p \in DOMAIN m.at : p \in Parts /\ m.at[p] = w[p] /\ w[p] \in Nat
  BY DEF Fresh
<1>4. \A i \in 1 .. Len(t) : \A p \in DOMAIN t[i].msg.at : p \in Parts /\ t[i].msg.at[p] <= w[p]
  BY <1>1, <1>3 DEF Chron
<1>5. ASSUME NEW i \in 1 .. Len(t), NEW j \in 1 .. Len(t), i < j,
             NEW p \in DOMAIN t[i].msg.at \cap DOMAIN t[j].msg.at
      PROVE  t[i].msg.at[p] <= t[j].msg.at[p]
  <2>1. CASE t[j].msg = m
    <3>1. t[j].msg.at[p] = w[p]
      BY <1>3, <1>5, <2>1
    <3>2. QED
      BY <1>4, <1>5, <3>1
  <2>2. CASE j \in 1 .. Len(s) /\ t[j].msg = s[j].msg
    <3>1. i \in 1 .. Len(s)
      BY <1>2, <1>5, <2>2
    <3>2. t[i].msg = s[i].msg
      BY <1>1, <1>2, <3>1
    <3>3. QED
      BY <1>5, <2>2, <3>1, <3>2 DEF Chron
  <2>3. QED
    BY <1>1, <2>1, <2>2
<1>6. QED
  BY <1>4, <1>5 DEF Chron

LEMMA LaterChron ==
    ASSUME NEW s \in Seq(Piece), NEW w, NEW x, Later(w, x), Chron(s, w)
    PROVE  Chron(s, x)
<1>1. ASSUME NEW i \in 1 .. Len(s), NEW p \in DOMAIN s[i].msg.at
      PROVE  p \in Parts /\ s[i].msg.at[p] <= x[p]
  <2>1. s[i].msg \in Msgs
    BY ElementOfSeq, PieceFields
  <2>2. p \in Parts /\ s[i].msg.at[p] <= w[p] /\ s[i].msg.at[p] \in Nat
    BY <2>1, AtFields DEF Chron
  <2>3. w[p] \in Nat /\ x[p] \in Nat /\ w[p] <= x[p]
    BY <2>2 DEF Later
  <2>4. \A a, b, c \in Nat : a <= b /\ b <= c => a <= c
    OBVIOUS
  <2>5. QED
    BY <2>2, <2>3, <2>4
<1>2. QED
  BY <1>1 DEF Chron

LEMMA FollowsBegins ==
    ASSUME NEW s, NEW m, NEW t, Follows(s, m, t), NEW kind
    PROVE  Begins(t, kind) = IF m.kind = kind THEN Begins(s, kind) \cup {Len(s) + 1} ELSE Begins(s, kind)
<1> DEFINE n == Len(s)
<1>1. n \in Nat /\ Len(t) = n + 2
  BY DEF Follows
<1>2. n + 1 \in 1 .. Len(t) /\ (\A i \in 1 .. n : i \in 1 .. Len(t) /\ i # n + 1)
  <2> HIDE DEF n
  <2> QED
    BY <1>1
<1>3. \A i \in 1 .. n : t[i] = s[i]
  BY DEF Follows
<1>4. t[n + 1] = [msg |-> m, part |-> 1]
  BY DEF Follows
<1>5. \A i \in 1 .. Len(t) : \/ i \in 1 .. n
                             \/ i = n + 1
                             \/ t[i].part = 2
  <2> SUFFICES ASSUME NEW i \in 1 .. Len(t) PROVE i \in 1 .. n \/ i = n + 1 \/ t[i].part = 2
    OBVIOUS
  <2>1. \/ i \in 1 .. Len(s) /\ t[i] = s[i]
        \/ i = Len(s) + 1 /\ t[i] = [msg |-> m, part |-> 1]
        \/ i = Len(s) + 2 /\ t[i] = [msg |-> m, part |-> 2]
    BY FollowsAt
  <2>2. QED
    BY <2>1
<1>6. ASSUME NEW i PROVE i \in Begins(t, kind) <=> i \in Begins(s, kind) \/ (m.kind = kind /\ i = n + 1)
  BY <1>2, <1>3, <1>4, <1>5 DEF Begins
<1>7. QED
  BY <1>6

LEMMA FollowsTicks ==
    ASSUME NEW s, NEW m, NEW t, Follows(s, m, t), Ticks(s),
           m.kind = "first_tick" => Begins(s, "first_tick") = {},
           m.kind = "tick" => Begins(s, "first_tick") \cup Begins(s, "subscribe_failed") # {}
    PROVE  Ticks(t)
<1>1. \A kind : Begins(s, kind) \subseteq Begins(t, kind)
  BY FollowsBegins
<1>2. ASSUME NEW i \in Begins(t, "first_tick"), NEW j \in Begins(t, "first_tick")
      PROVE  i = j
  BY FollowsBegins DEF Ticks
<1>3. ASSUME NEW i \in Begins(t, "tick")
      PROVE  \E j \in Begins(t, "first_tick") \cup Begins(t, "subscribe_failed") : j < i
  <2>1. CASE i \in Begins(s, "tick")
    BY <1>1, <2>1 DEF Ticks
  <2>2. CASE i \notin Begins(s, "tick")
    <3>1. m.kind = "tick" /\ i = Len(s) + 1
      BY <2>2, FollowsBegins
    <3>2. PICK j \in Begins(s, "first_tick") \cup Begins(s, "subscribe_failed") : TRUE
      BY <3>1
    <3>3. j \in 1 .. Len(s) /\ Len(s) \in Nat
      BY DEF Begins, Follows
    <3>4. \A n \in Nat : \A x \in 1 .. n : x < n + 1
      OBVIOUS
    <3>5. j < i
      BY <3>1, <3>3, <3>4
    <3>6. QED
      BY <1>1, <3>2, <3>5
  <2>3. QED
    BY <2>1, <2>2
<1>4. QED
  BY <1>2, <1>3 DEF Ticks

\* What is cut off at the end of a stream does not matter.
LEMMA CutStream ==
    ASSUME NEW s \in Seq(Piece), NEW t \in Seq(Piece), IsPrefix(s, t)
    PROVE  /\ Ticks(t) => Ticks(s)
           /\ \A w : Chron(t, w) => Chron(s, w)
<1>1. Len(s) \in Nat /\ Len(t) \in Nat /\ Len(s) <= Len(t) /\ \A i \in 1 .. Len(s) : s[i] = t[i]
  BY PrefixIs, LenProperties
<1>2. \A a, b \in Nat : a <= b => \A i \in 1 .. a : i \in 1 .. b
  OBVIOUS
<1>3. \A i \in 1 .. Len(s) : i \in 1 .. Len(t)
  BY <1>1, <1>2
<1>4. \A w : Chron(t, w) => Chron(s, w)
  BY <1>1, <1>3 DEF Chron
<1>5. \A kind : Begins(s, kind) = {i \in Begins(t, kind) : i \in 1 .. Len(s)}
  BY <1>1, <1>3 DEF Begins
<1>6. ASSUME Ticks(t), NEW i \in Begins(s, "tick")
      PROVE  \E j \in Begins(s, "first_tick") \cup Begins(s, "subscribe_failed") : j < i
  <2>1. PICK j \in Begins(t, "first_tick") \cup Begins(t, "subscribe_failed") : j < i
    BY <1>5, <1>6 DEF Ticks
  <2>2. i \in 1 .. Len(s) /\ j \in 1 .. Len(t)
    BY <1>5 DEF Begins
  <2>3. \A a, b \in Nat : \A x \in 1 .. a, y \in 1 .. b : y < x => y \in 1 .. a
    OBVIOUS
  <2>4. j \in 1 .. Len(s)
    BY <1>1, <2>1, <2>2, <2>3
  <2>5. QED
    BY <1>5, <2>1, <2>4
<1>7. ASSUME Ticks(t) PROVE Ticks(s)
  <2>1. \A i, j \in Begins(s, "first_tick") : i = j
    BY <1>5, <1>7 DEF Ticks
  <2>2. QED
    BY <1>6, <1>7, <2>1 DEF Ticks
<1>8. QED
  BY <1>4, <1>7
-----------------------------------------------------------------------------
(* What a client that is linked may rely on, when it has read g and i3 is    *)
(* in state w of the world; whole says that no restart carried it over.      *)

Core(k, g, w, whole) ==
    /\ ConnOK(k) /\ k.link \in {"open", "hup"} /\ g \in Seq(Piece)
    /\ Chron(g \o Way(k), w)
    /\ whole => Alternates(g \o Way(k)) /\ Ticks(g \o Way(k))

\* The first tick was sent, and who waits for ticks was told or refused.
TickKnown(k, g) ==
    /\ k.firstTick <=> Begins(g \o Way(k), "first_tick") # {}
    /\ "tick" \in k.events => k.firstTick \/ Begins(g \o Way(k), "subscribe_failed") # {}

Live(k, g, w, whole) == Core(k, g, w, whole) /\ (whole => TickKnown(k, g))

LEMMA WayIsSeq == ASSUME NEW k \in Conns PROVE Way(k) \in Seq(Piece)
  BY PiecesJoin DEF Conns, Way

\* A first tick is the first, and a tick comes to who was told or refused.
Timely(k, g, m) ==
    /\ m.kind = "first_tick" => Begins(g \o Way(k), "first_tick") = {}
    /\ m.kind = "tick" =>
          Begins(g \o Way(k), "first_tick") \cup Begins(g \o Way(k), "subscribe_failed") # {}

\* The connection p has the message m after those of k.
Begun(k, p, g, m) ==
    \A kind : Begins(g \o Way(p), kind) =
        IF m.kind = kind THEN Begins(g \o Way(k), kind) \cup {Len(g \o Way(k)) + 1}
        ELSE Begins(g \o Way(k), kind)

LEMMA SendCore ==
    ASSUME NEW k, NEW g, NEW w \in [Parts -> Nat], NEW whole, NEW m,
           Core(k, g, w, whole), Fresh(m, w), whole => Timely(k, g, m)
    PROVE  /\ Core(SendTo(k, m), g, w, whole) /\ SameSide(k, SendTo(k, m))
           /\ IsPrefix(Way(k), Way(SendTo(k, m))) /\ Begun(k, SendTo(k, m), g, m)
<1> DEFINE p == SendTo(k, m)
           s == g \o Way(k)
           t == g \o Way(p)
<1>1. ConnOK(k) /\ k \in Conns /\ g \in Seq(Piece) /\ m \in Msgs
  BY DEF Core, ConnOK, Fresh
<1>2. ConnOK(p) /\ SameSide(k, p) /\ Way(p) = Way(k) \o Pieces(m)
  BY <1>1, SendGrows
<1> HIDE DEF p
<1>3. Way(k) \in Seq(Piece) /\ Pieces(m) \in Seq(Piece)
  BY <1>1, WayIsSeq, PiecesOf
<1>4. t = s \o Pieces(m) /\ s \in Seq(Piece)
  BY <1>1, <1>2, <1>3, PiecesJoin, SMTT(40)
<1>5. Follows(s, m, t)
  <2>1. Follows(s, m, s \o Pieces(m))
    BY <1>1, <1>4, MessageFollows
  <2>2. QED
    BY <1>4, <2>1
<1>6. IsPrefix(Way(k), Way(p))
  BY <1>2, <1>3, PrefixOfConcat
<1>7. Chron(t, w)
  BY <1>5, FollowsChron DEF Core
<1>8. \A kind : Begins(t, kind) = IF m.kind = kind THEN Begins(s, kind) \cup {Len(s) + 1} ELSE Begins(s, kind)
  <2> HIDE DEF s, t
  <2> QED
    BY <1>5, FollowsBegins
<1>9. whole => Alternates(t) /\ Ticks(t)
  BY <1>5, FollowsAlternates, FollowsTicks DEF Core, Timely
<1>10. Core(p, g, w, whole)
  BY <1>1, <1>2, <1>7, <1>9 DEF Core, SameSide
<1>11. QED
  BY <1>2, <1>6, <1>8, <1>10 DEF p, Begun

LEMMA SendLive ==
    ASSUME NEW k, NEW g, NEW w \in [Parts -> Nat], NEW whole, NEW m,
           Live(k, g, w, whole), Fresh(m, w), m.kind # "first_tick",
           m.kind = "tick" => "tick" \in k.events
    PROVE  /\ Live(SendTo(k, m), g, w, whole)
           /\ IsPrefix(Way(k), Way(SendTo(k, m)))
           /\ SendTo(k, m).events = k.events
<1> DEFINE p == SendTo(k, m)
           s == g \o Way(k)
           t == g \o Way(p)
<1>1. whole => Timely(k, g, m)
  BY DEF Live, TickKnown, Timely
<1>2. Core(p, g, w, whole) /\ SameSide(k, p) /\ IsPrefix(Way(k), Way(p)) /\ Begun(k, p, g, m)
  <2>1. Core(k, g, w, whole)
    BY DEF Live
  <2>2. QED
    BY <1>1, <2>1, SendCore
<1> HIDE DEF p
<1>3. /\ Begins(t, "first_tick") = Begins(s, "first_tick")
      /\ Begins(s, "subscribe_failed") \subseteq Begins(t, "subscribe_failed")
  BY <1>2 DEF Begun
<1>4. whole => TickKnown(p, g)
  BY <1>2, <1>3 DEF Live, TickKnown, SameSide
<1>5. QED
  BY <1>2, <1>4 DEF Live, SameSide, p

\* The subscriptions and the flag of a connection are not on its way.
LEMMA SideKeeps ==
    ASSUME NEW k, ConnOK(k), NEW E \in SUBSET EventNames
    PROVE  /\ ConnOK([k EXCEPT !.events = E]) /\ Way([k EXCEPT !.events = E]) = Way(k)
           /\ [k EXCEPT !.events = E].firstTick = k.firstTick /\ [k EXCEPT !.events = E].link = k.link
           /\ [k EXCEPT !.events = E].events = E
           /\ ConnOK([k EXCEPT !.firstTick = TRUE]) /\ Way([k EXCEPT !.firstTick = TRUE]) = Way(k)
           /\ [k EXCEPT !.firstTick = TRUE].events = k.events /\ [k EXCEPT !.firstTick = TRUE].link = k.link
           /\ [k EXCEPT !.firstTick = TRUE].firstTick = TRUE
  BY DEF ConnOK, Conns, Way

LEMMA PrefixLink ==
    ASSUME NEW k \in Conns, NEW p \in Conns, NEW q \in Conns,
           IsPrefix(Way(k), Way(p)), IsPrefix(Way(p), Way(q))
    PROVE  IsPrefix(Way(k), Way(q))
  BY WayIsSeq, PrefixTrans

LEMMA CoreSide ==
    ASSUME NEW k, NEW g, NEW w, NEW whole, Core(k, g, w, whole), NEW E \in SUBSET EventNames
    PROVE  Core([k EXCEPT !.events = E], g, w, whole) /\ Core([k EXCEPT !.firstTick = TRUE], g, w, whole)
  BY SideKeeps DEF Core

Subscribed(k, events, parses) ==
    LET added == AddSubscriptions(k, events)
        replied == SendTo(added, Message(IF parses THEN "subscribe" ELSE "subscribe_failed", Nothing))
        first == parses /\ ~added.firstTick /\ "tick" \in added.events
    IN IF first THEN SendTo([replied EXCEPT !.firstTick = TRUE], FirstTick) ELSE replied

LEMMA EmptyNews ==
    ASSUME NEW w, NEW kind \in Kinds
    PROVE  Fresh(Message(kind, Nothing), w) /\ Message(kind, Nothing).kind = kind
<1>1. Nothing \in [{} -> Nat] /\ DOMAIN Nothing = {}
  BY DEF Nothing
<1>2. Nothing \in Ats
  BY <1>1 DEF Ats
<1>3. QED
  BY <1>1, <1>2 DEF Message, Fresh, Msgs

LEMMA SubscribedLive ==
    ASSUME NEW k, NEW g, NEW w \in [Parts -> Nat], NEW whole, Live(k, g, w, whole),
           NEW events \in SUBSET EventNames, NEW parses \in BOOLEAN
    PROVE  /\ Live(Subscribed(k, events, parses), g, w, whole)
           /\ IsPrefix(Way(k), Way(Subscribed(k, events, parses)))
<1> DEFINE E == k.events \cup events
           added == [k EXCEPT !.events = E]
           m == Message(IF parses THEN "subscribe" ELSE "subscribe_failed", Nothing)
           replied == SendTo(added, m)
<1>1. E \in SUBSET EventNames /\ ConnOK(k) /\ k \in Conns
  BY DEF Live, Core, ConnOK, Conns
<1>2. AddSubscriptions(k, events) = added
  BY DEF AddSubscriptions
<1>3. /\ Core(added, g, w, whole) /\ Way(added) = Way(k) /\ added.firstTick = k.firstTick
      /\ added.events = E /\ added.link = k.link
  BY <1>1, CoreSide, SideKeeps DEF Live
<1>4. Fresh(m, w) /\ m.kind = IF parses THEN "subscribe" ELSE "subscribe_failed"
  <2>1. "subscribe" \in Kinds /\ "subscribe_failed" \in Kinds
    BY DEF Kinds
  <2>2. \A kind \in Kinds : Fresh(Message(kind, Nothing), w) /\ Message(kind, Nothing).kind = kind
    BY EmptyNews
  <2>3. QED
    BY <2>1, <2>2, Zenon
<1> HIDE DEF added, m, E
<1>5. Timely(added, g, m)
  BY <1>4 DEF Timely
<1>6. /\ Core(replied, g, w, whole) /\ SameSide(added, replied)
      /\ IsPrefix(Way(added), Way(replied)) /\ Begun(added, replied, g, m)
  BY <1>3, <1>4, <1>5, SendCore
<1>7. Subscribed(k, events, parses) =
         IF parses /\ ~added.firstTick /\ "tick" \in added.events
         THEN SendTo([replied EXCEPT !.firstTick = TRUE], FirstTick) ELSE replied
  BY <1>2 DEF Subscribed, m
<1> HIDE DEF replied
<1>8. CASE ~parses
  <2>1. /\ Begins(g \o Way(replied), "first_tick") = Begins(g \o Way(k), "first_tick")
        /\ Begins(g \o Way(replied), "subscribe_failed") # {}
    BY <1>3, <1>4, <1>6, <1>8 DEF Begun
  <2>2. whole => TickKnown(replied, g)
    BY <1>3, <1>6, <2>1 DEF Live, TickKnown, SameSide
  <2>3. QED
    BY <1>3, <1>6, <1>7, <1>8, <2>2 DEF Live
<1>9. CASE parses /\ (added.firstTick \/ "tick" \notin added.events)
  <2>1. /\ Begins(g \o Way(replied), "first_tick") = Begins(g \o Way(k), "first_tick")
        /\ Begins(g \o Way(replied), "subscribe_failed") = Begins(g \o Way(k), "subscribe_failed")
    BY <1>3, <1>4, <1>6, <1>9 DEF Begun
  <2>2. whole => TickKnown(replied, g)
    BY <1>3, <1>6, <1>9, <2>1 DEF Live, TickKnown, SameSide
  <2>3. QED
    BY <1>3, <1>6, <1>7, <1>9, <2>2 DEF Live
<1>10. CASE parses /\ ~added.firstTick /\ "tick" \in added.events
  <2> DEFINE r == [replied EXCEPT !.firstTick = TRUE]
             p == SendTo(r, FirstTick)
  <2>1. ConnOK(replied)
    BY <1>6 DEF Core
  <2>2. Core(r, g, w, whole) /\ Way(r) = Way(replied) /\ r.firstTick = TRUE
    BY <1>1, <1>6, <2>1, CoreSide, SideKeeps
  <2> HIDE DEF r
  <2>3. Fresh(FirstTick, w) /\ FirstTick.kind = "first_tick"
    <3>1. "first_tick" \in Kinds
      BY DEF Kinds
    <3>2. QED
      BY <3>1, EmptyNews, Zenon DEF FirstTick
  <2>4. Begins(g \o Way(r), "first_tick") = Begins(g \o Way(k), "first_tick")
    BY <1>3, <1>4, <1>6, <1>10, <2>2 DEF Begun
  <2>5. whole => Timely(r, g, FirstTick)
    BY <1>3, <1>10, <2>3, <2>4 DEF Timely, Live, TickKnown
  <2>6. Core(p, g, w, whole) /\ SameSide(r, p) /\ IsPrefix(Way(r), Way(p)) /\ Begun(r, p, g, FirstTick)
    BY <2>2, <2>3, <2>5, SendCore
  <2> HIDE DEF p
  <2>7. Begins(g \o Way(p), "first_tick") # {} /\ p.firstTick
    BY <2>2, <2>3, <2>6 DEF Begun, SameSide
  <2>8. whole => TickKnown(p, g)
    BY <2>7 DEF TickKnown
  <2>9. IsPrefix(Way(k), Way(p))
    <3>1. k \in Conns /\ replied \in Conns /\ p \in Conns
      BY <1>1, <2>1, <2>6 DEF Core, ConnOK
    <3>2. QED
      BY <1>3, <1>6, <2>2, <2>6, <3>1, PrefixLink
  <2>10. QED
    BY <1>7, <1>10, <2>6, <2>8, <2>9 DEF Live, p, r
<1>11. QED
  BY <1>8, <1>9, <1>10

-----------------------------------------------------------------------------
(* What i3 says of itself is as new as what it is made from. *)

NewsAt(a, w) == a \in Ats /\ \A p \in DOMAIN a : p \in Parts /\ a[p] = w[p]

LEMMA NewsFresh ==
    ASSUME NEW a, NEW w, NewsAt(a, w), NEW kind \in Kinds
    PROVE  Fresh(Message(kind, a), w) /\ Message(kind, a).kind = kind
  BY DEF NewsAt, Fresh, Msgs, Message

LEMMA DumpsAreNews ==
    ASSUME NEW w \in [Parts -> Nat]
    PROVE  /\ NewsAt(NodeOf(w), w) /\ NewsAt(OutputsOf(w), w) /\ NewsAt(BarConfigOf(w), w)
           /\ NewsAt(BindingOf(w), w) /\ NewsAt(ModeOf(w), w) /\ NewsAt(Nothing, w)
           /\ NewsAt([config |-> w.config], w)
           /\ NewsAt([config |-> w.config, tree |-> w.tree], w)
           /\ NewsAt([config |-> w.config, mode |-> w.mode], w)
<1>1. w.tree \in Nat /\ w.outputs \in Nat /\ w.config \in Nat /\ w.mode \in Nat
  BY DEF Parts
<1>2. \A P \in SUBSET Parts : \A a \in [P -> Nat] : a \in Ats
  BY DEF Ats
<1>3. {"tree"} \in SUBSET Parts /\ {"outputs", "tree"} \in SUBSET Parts /\ {"config"} \in SUBSET Parts
      /\ {"mode"} \in SUBSET Parts /\ {"config", "tree"} \in SUBSET Parts /\ {"config", "mode"} \in SUBSET Parts
  BY DEF Parts
<1>4. NewsAt(NodeOf(w), w)
  <2>1. NodeOf(w) \in [{"tree"} -> Nat] /\ DOMAIN NodeOf(w) = {"tree"} /\ NodeOf(w)["tree"] = w["tree"]
    BY <1>1 DEF NodeOf
  <2>2. QED
    BY <1>2, <1>3, <2>1 DEF NewsAt
<1>5. NewsAt(OutputsOf(w), w)
  <2>1. /\ OutputsOf(w) \in [{"outputs", "tree"} -> Nat] /\ DOMAIN OutputsOf(w) = {"outputs", "tree"}
        /\ OutputsOf(w)["tree"] = w["tree"] /\ OutputsOf(w)["outputs"] = w["outputs"]
    BY <1>1 DEF OutputsOf
  <2>2. QED
    BY <1>2, <1>3, <2>1 DEF NewsAt
<1>6. NewsAt(BarConfigOf(w), w) /\ NewsAt(BindingOf(w), w) /\ NewsAt([config |-> w.config], w)
  <2>1. /\ [config |-> w.config] \in [{"config"} -> Nat]
        /\ DOMAIN [config |-> w.config] = {"config"} /\ [config |-> w.config]["config"] = w["config"]
    BY <1>1
  <2>2. QED
    BY <1>2, <1>3, <2>1 DEF NewsAt, BarConfigOf, BindingOf
<1>7. NewsAt(ModeOf(w), w)
  <2>1. ModeOf(w) \in [{"mode"} -> Nat] /\ DOMAIN ModeOf(w) = {"mode"} /\ ModeOf(w)["mode"] = w["mode"]
    BY <1>1 DEF ModeOf
  <2>2. QED
    BY <1>2, <1>3, <2>1 DEF NewsAt
<1>8. NewsAt(Nothing, w)
  BY <1>2 DEF NewsAt, Nothing
<1>9. NewsAt([config |-> w.config, tree |-> w.tree], w)
  <2> DEFINE a == [config |-> w.config, tree |-> w.tree]
  <2>1. /\ a \in [{"config", "tree"} -> Nat] /\ DOMAIN a = {"config", "tree"}
        /\ a["tree"] = w["tree"] /\ a["config"] = w["config"]
    BY <1>1
  <2>2. QED
    BY <1>2, <1>3, <2>1 DEF NewsAt
<1>10. NewsAt([config |-> w.config, mode |-> w.mode], w)
  <2> DEFINE a == [config |-> w.config, mode |-> w.mode]
  <2>1. /\ a \in [{"config", "mode"} -> Nat] /\ DOMAIN a = {"config", "mode"}
        /\ a["mode"] = w["mode"] /\ a["config"] = w["config"]
    BY <1>1
  <2>2. QED
    BY <1>2, <1>3, <2>1 DEF NewsAt
<1>11. QED
  BY <1>4, <1>5, <1>6, <1>7, <1>8, <1>9, <1>10

-----------------------------------------------------------------------------
(* Messages to the clients, in state w of the world *)

TellsAll(ks, w) ==
    /\ ks \in [Clients -> Conns]
    /\ \A d \in clients : Live(ks[d], got[d], w, NeverCarried(d)) /\ IsPrefix(Way(conn[d]), Way(ks[d]))
    /\ \A d \in Clients \ clients : ks[d] = conn[d]

Typed ==
    /\ clients \subseteq Clients /\ conn \in [Clients -> Conns]
    /\ world \in [Parts -> Nat] /\ got \in [Clients -> Seq(Piece)]

LEMMA EventTells ==
    ASSUME Typed, NEW w \in [Parts -> Nat], NEW ks, TellsAll(ks, w), NEW event, NEW m,
           Fresh(m, w), m.kind # "first_tick", m.kind = "tick" => event = "tick"
    PROVE  TellsAll(SendEvent(ks, event, m), w)
<1> DEFINE new == SendEvent(ks, event, m)
<1>1. \A d \in Clients : new[d] = IF d \in clients /\ event \in ks[d].events THEN SendTo(ks[d], m) ELSE ks[d]
  BY DEF SendEvent
<1>2. ASSUME NEW d \in clients
      PROVE  /\ new[d] \in Conns /\ Live(new[d], got[d], w, NeverCarried(d))
             /\ IsPrefix(Way(conn[d]), Way(new[d]))
  <2>1. d \in Clients /\ Live(ks[d], got[d], w, NeverCarried(d)) /\ IsPrefix(Way(conn[d]), Way(ks[d]))
        /\ ks[d] \in Conns /\ conn[d] \in Conns
    BY DEF TellsAll, Typed
  <2>2. CASE event \in ks[d].events
    <3>1. Live(SendTo(ks[d], m), got[d], w, NeverCarried(d)) /\ IsPrefix(Way(ks[d]), Way(SendTo(ks[d], m)))
      BY <2>1, <2>2, SendLive
    <3>2. SendTo(ks[d], m) \in Conns
      BY <3>1 DEF Live, Core, ConnOK
    <3>3. new[d] = SendTo(ks[d], m)
      BY <1>1, <2>1, <2>2
    <3>4. QED
      BY <2>1, <3>1, <3>2, <3>3, PrefixLink
  <2>3. CASE event \notin ks[d].events
    BY <1>1, <2>1, <2>3
  <2>4. QED
    BY <2>2, <2>3
<1>3. \A d \in Clients \ clients : new[d] = conn[d]
  BY <1>1 DEF TellsAll
<1>4. new \in [Clients -> Conns]
  <2>1. \A d \in Clients : new[d] \in Conns
    BY <1>2, <1>3 DEF Typed
  <2>2. new = [d \in Clients |-> new[d]]
    BY DEF SendEvent
  <2> HIDE DEF new
  <2>3. QED
    BY <2>1, <2>2
<1>5. QED
  BY <1>2, <1>3, <1>4 DEF TellsAll

\* One client gets another connection, live and ahead of the old one.
LEMMA OneTells ==
    ASSUME Typed, NEW w, NEW ks, TellsAll(ks, w), NEW c \in clients, NEW k,
           Live(k, got[c], w, NeverCarried(c)), IsPrefix(Way(ks[c]), Way(k))
    PROVE  TellsAll([ks EXCEPT ![c] = k], w)
<1>1. k \in Conns /\ c \in Clients /\ conn[c] \in Conns /\ ks[c] \in Conns
  BY DEF Live, Core, ConnOK, Typed, TellsAll
<1>2. IsPrefix(Way(conn[c]), Way(k))
  BY <1>1, PrefixLink DEF TellsAll
<1>3. QED
  BY <1>1, <1>2 DEF TellsAll

LEMMA ReplyTells ==
    ASSUME Typed, NEW w \in [Parts -> Nat], NEW ks, TellsAll(ks, w), NEW c \in clients, NEW m,
           Fresh(m, w), m.kind \notin {"first_tick", "tick"}
    PROVE  TellsAll([ks EXCEPT ![c] = SendTo(@, m)], w)
<1>1. Live(ks[c], got[c], w, NeverCarried(c)) /\ ks \in [Clients -> Conns] /\ c \in Clients
  BY DEF TellsAll, Typed
<1>2. Live(SendTo(ks[c], m), got[c], w, NeverCarried(c)) /\ IsPrefix(Way(ks[c]), Way(SendTo(ks[c], m)))
  BY <1>1, SendLive
<1>3. TellsAll([ks EXCEPT ![c] = SendTo(ks[c], m)], w)
  BY <1>2, OneTells
<1>4. [ks EXCEPT ![c] = SendTo(@, m)] = [ks EXCEPT ![c] = SendTo(ks[c], m)]
  BY <1>1
<1>5. QED
  BY <1>3, <1>4

LEMMA HandledTells ==
    ASSUME Typed, TellsAll(conn, world), NEW c \in clients, NEW request \in QuietAsks
    PROVE  TellsAll(Handled(c, request), world)
<1> DEFINE ReplyKinds == Kinds \ {"first_tick", "tick"}
<1>1. world \in [Parts -> Nat] /\ c \in Clients
  BY DEF Typed
<1>2. ASSUME NEW kind \in ReplyKinds, NEW a, NewsAt(a, world)
      PROVE  TellsAll(Reply(c, Message(kind, a)), world)
  <2>1. Fresh(Message(kind, a), world) /\ Message(kind, a).kind = kind
    BY <1>2, NewsFresh
  <2>2. Message(kind, a).kind \notin {"first_tick", "tick"}
    BY <2>1
  <2>3. TellsAll([conn EXCEPT ![c] = SendTo(@, Message(kind, a))], world)
    BY <1>1, <2>1, <2>2, ReplyTells
  <2>4. QED
    BY <2>3 DEF Reply
<1>3. {"tree", "workspaces", "outputs", "marks", "version", "bar_config", "binding_modes", "config",
       "binding_state", "aiwr_status", "send_tick", "sync", "sync_failed"} \subseteq ReplyKinds
  BY DEF Kinds
<1> HIDE DEF ReplyKinds
<1>4. CASE request \in {"get_tree", "get_workspaces", "get_outputs", "get_marks"}
  <2>1. /\ TellsAll(GetTree(c), world) /\ TellsAll(GetWorkspaces(c), world)
        /\ TellsAll(GetOutputs(c), world) /\ TellsAll(GetMarks(c), world)
    BY <1>1, <1>2, <1>3, DumpsAreNews DEF GetTree, GetWorkspaces, GetOutputs, GetMarks
  <2>2. QED
    BY <1>4, <2>1 DEF Handled
<1>5. CASE request \in {"get_version", "get_bar_config", "get_config", "get_aiwr_status"}
  <2>1. /\ TellsAll(GetVersion(c), world) /\ TellsAll(GetBarConfig(c), world)
        /\ TellsAll(GetConfig(c), world) /\ TellsAll(GetAiwrStatus(c), world)
    BY <1>1, <1>2, <1>3, DumpsAreNews DEF GetVersion, GetBarConfig, GetConfig, GetAiwrStatus
  <2>2. QED
    BY <1>5, <2>1 DEF Handled
<1>6. CASE request \in {"get_binding_modes", "get_binding_state"}
  <2>1. TellsAll(GetBindingModes(c), world) /\ TellsAll(GetBindingState(c), world)
    BY <1>1, <1>2, <1>3, DumpsAreNews DEF GetBindingModes, GetBindingState
  <2>2. QED
    BY <1>6, <2>1 DEF Handled
<1>7. CASE request \in {"sync", "sync_broken"}
  <2>1. TellsAll(Sync(c, TRUE), world) /\ TellsAll(Sync(c, FALSE), world)
    BY <1>1, <1>2, <1>3, DumpsAreNews DEF Sync
  <2>2. QED
    BY <1>7, <2>1 DEF Handled
<1>8. ASSUME NEW events \in SUBSET EventNames, NEW parses \in BOOLEAN
      PROVE  TellsAll(Subscribe(c, events, parses), world)
  <2> DEFINE k == Subscribed(conn[c], events, parses)
  <2>1. Live(conn[c], got[c], world, NeverCarried(c))
    BY DEF TellsAll
  <2>2. Live(k, got[c], world, NeverCarried(c)) /\ IsPrefix(Way(conn[c]), Way(k))
    BY <1>1, <2>1, SubscribedLive
  <2>3. TellsAll([conn EXCEPT ![c] = k], world)
    <3> HIDE DEF k
    <3> QED
      BY <2>2, OneTells
  <2>4. Subscribe(c, events, parses) = [conn EXCEPT ![c] = k]
    BY DEF Subscribe, Subscribed
  <2>5. QED
    BY <2>3, <2>4
<1>9. CASE request \in {"subscribe_tree", "subscribe_tick", "subscribe_broken"}
  <2>1. /\ {"workspace", "window", "shutdown"} \in SUBSET EventNames
        /\ {"tick", "output"} \in SUBSET EventNames /\ {"tick"} \in SUBSET EventNames
    BY DEF EventNames
  <2>2. /\ TellsAll(Subscribe(c, {"workspace", "window", "shutdown"}, TRUE), world)
        /\ TellsAll(Subscribe(c, {"tick", "output"}, TRUE), world)
        /\ TellsAll(Subscribe(c, {"tick"}, FALSE), world)
    BY <1>8, <2>1
  <2>3. QED
    BY <1>9, <2>2 DEF Handled
<1>10. CASE request = "send_tick"
  <2>1. "tick" \in Kinds /\ "send_tick" \in Kinds
    BY DEF Kinds
  <2>2. Fresh(TickEvent, world) /\ TickEvent.kind = "tick"
    BY <2>1, EmptyNews, Zenon DEF TickEvent
  <2>3. Fresh(Message("send_tick", Nothing), world) /\ Message("send_tick", Nothing).kind = "send_tick"
    BY <2>1, EmptyNews, Zenon
  <2> DEFINE told == SendEvent(conn, "tick", TickEvent)
  <2>4. TellsAll(told, world)
    BY <1>1, <2>2, EventTells
  <2> HIDE DEF told
  <2>5. TellsAll([told EXCEPT ![c] = SendTo(@, Message("send_tick", Nothing))], world)
    BY <1>1, <2>3, <2>4, ReplyTells
  <2>6. QED
    BY <1>10, <2>5 DEF Handled, SendTick, told
<1>11. CASE request = "unknown_type"
  BY <1>11 DEF Handled
<1>12. QED
  BY <1>4, <1>5, <1>6, <1>7, <1>9, <1>10, <1>11 DEF QuietAsks

LEMMA EventMessages ==
    ASSUME NEW w \in [Parts -> Nat], NEW event \in DOMAIN EventOf
    PROVE  Fresh(EventMessage(w)[event], w) /\ EventMessage(w)[event].kind \notin {"first_tick", "tick"}
<1>1. {"workspace", "window", "output", "mode", "binding", "barconfig_update"} \subseteq Kinds
  BY DEF Kinds
<1>2. event \in {"workspace", "window", "output", "mode", "binding", "barconfig_update"}
  BY DEF EventOf
<1>3. \A kind \in {"workspace", "window", "output", "mode", "binding", "barconfig_update"} : \A a :
         NewsAt(a, w) => Fresh(Message(kind, a), w) /\ Message(kind, a).kind \notin {"first_tick", "tick"}
  BY <1>1, NewsFresh
<1> DEFINE OK(m) == Fresh(m, w) /\ m.kind \notin {"first_tick", "tick"}
<1>4. OK(WorkspaceEvent(w)) /\ OK(WindowEvent(w))
  BY <1>3, DumpsAreNews, Zenon DEF WorkspaceEvent, WindowEvent
<1>5. OK(OutputEvent(w)) /\ OK(ModeEvent(w))
  BY <1>3, DumpsAreNews, Zenon DEF OutputEvent, ModeEvent
<1>6. OK(BindingEvent(w)) /\ OK(BarconfigUpdateEvent(w))
  BY <1>3, DumpsAreNews, Zenon DEF BindingEvent, BarconfigUpdateEvent
<1>7. EventMessage(w)[event] \in {WorkspaceEvent(w), WindowEvent(w), OutputEvent(w), ModeEvent(w),
                                  BindingEvent(w), BarconfigUpdateEvent(w)}
  BY <1>2 DEF EventMessage
<1> HIDE DEF OK
<1>8. OK(EventMessage(w)[event])
  BY <1>4, <1>5, <1>6, <1>7
<1>9. QED
  BY <1>8 DEF OK

-----------------------------------------------------------------------------
(* The invariant *)

\* The connection k of a client that has read g
Side(k, g, w, whole, linked) ==
    /\ ConnOK(k) /\ g \in Seq(Piece)
    /\ Chron(g \o Way(k), w)
    /\ whole => Ticks(g \o Way(k))
    /\ linked => Live(k, g, w, whole)
    /\ ~linked => k = [NoConn EXCEPT !.sock = k.sock, !.link = k.link]
    /\ k.link \in {"none", "backlog"} => g = <<>> /\ Way(k) = <<>>

ClientOK(c) == Side(conn[c], got[c], world, NeverCarried(c), c \in clients)

ConnInv == Typed /\ \A c \in Clients : ClientOK(c)

RestInv ==
    /\ up \in {"running", "exec", "exited"} /\ carried \in Clients \cup {None} /\ busy \in clients \cup {None}
    /\ ask \in [Clients -> Seq(QuietAsks \cup CommandAsks)]
    /\ asked \in [Clients -> Seq(QuietAsks \cup CommandAsks)]
    /\ up # "running" => clients = {}
    /\ up = "exec" => /\ carried \in Clients /\ conn[carried].link \in {"open", "hup"}
                      /\ ~NeverCarried(carried)

IpcInv == ConnInv /\ RestInv

LEMMA LiveLater ==
    ASSUME NEW k, NEW g, NEW w, NEW x, NEW whole, NEW still, Live(k, g, w, whole), Later(w, x),
           still => whole
    PROVE  Live(k, g, x, still)
<1>1. k \in Conns /\ g \in Seq(Piece)
  BY DEF Live, Core, ConnOK
<1>2. Way(k) \in Seq(Piece)
  BY <1>1, WayIsSeq
<1>3. g \o Way(k) \in Seq(Piece)
  BY <1>1, <1>2, PiecesJoin
<1>4. Chron(g \o Way(k), x)
  BY <1>3, LaterChron DEF Live, Core
<1>5. QED
  BY <1>4 DEF Live, Core

LEMMA SideLater ==
    ASSUME NEW k, NEW g, NEW w, NEW x, NEW whole, NEW still, NEW linked, Side(k, g, w, whole, linked),
           Later(w, x), still => whole
    PROVE  Side(k, g, x, still, linked)
<1>1. k \in Conns /\ g \in Seq(Piece)
  BY DEF Side, ConnOK
<1>2. Way(k) \in Seq(Piece)
  BY <1>1, WayIsSeq
<1>3. g \o Way(k) \in Seq(Piece)
  BY <1>1, <1>2, PiecesJoin
<1>4. Chron(g \o Way(k), x)
  BY <1>3, LaterChron DEF Side
<1>5. linked => Live(k, g, x, still)
  BY LiveLater DEF Side
<1>6. QED
  BY <1>4, <1>5 DEF Side

LEMMA SameWorld == ASSUME NEW w \in [Parts -> Nat] PROVE Later(w, w)
  BY DEF Later

\* A live connection, linked
LEMMA LiveSide ==
    ASSUME NEW k, NEW g, NEW w, NEW whole, Live(k, g, w, whole)
    PROVE  Side(k, g, w, whole, TRUE)
  BY DEF Live, Core, Side

LEMMA FreedCuts ==
    ASSUME NEW k, ConnOK(k), k.link \in {"open", "hup"}, NEW kept \in BOOLEAN
    PROVE  /\ Freed(k, kept) = [NoConn EXCEPT !.sock = Freed(k, kept).sock, !.link = Freed(k, kept).link]
           /\ Freed(k, kept).link \in {"open", "hup", "eof", "closed"}
           /\ kept => Freed(k, kept).link = k.link
           /\ Freed(k, kept).sock \in {k.sock, <<>>}
           /\ Way(Freed(k, kept)) \in Seq(Piece) /\ Way(k) \in Seq(Piece)
           /\ IsPrefix(Way(Freed(k, kept)), Way(k))
<1> DEFINE f == Freed(k, kept)
<1>1. k \in Conns /\ k.sock \in Seq(Piece) /\ k.buffer \in Seq(Piece)
  BY DEF ConnOK, Conns
<1>2. /\ f = [NoConn EXCEPT !.sock = f.sock, !.link = f.link] /\ f.sock \in {k.sock, <<>>}
      /\ f.link \in {"open", "hup", "eof", "closed"} /\ (kept => f.link = k.link)
      /\ f.buffer = <<>>
  BY <1>1 DEF Freed, NoConn
<1>3. <<>> \in Seq(Piece)
  OBVIOUS
<1> HIDE DEF f
<1>4. Way(f) = f.sock
  BY <1>1, <1>2, <1>3, ConcatEmptySeq DEF Way
<1>5. Way(k) \in Seq(Piece) /\ IsPrefix(k.sock, Way(k)) /\ IsPrefix(<<>>, Way(k))
  <2>1. Way(k) \in Seq(Piece) /\ <<>> \o Way(k) = Way(k) /\ Way(k) = k.sock \o k.buffer
    BY <1>1, WayIsSeq, ConcatEmptySeq DEF Way
  <2>2. IsPrefix(<<>>, Way(k))
    <3>1. IsPrefix(<<>>, <<>> \o Way(k))
      BY <1>3, <2>1, PrefixOfConcat
    <3>2. QED
      BY <2>1, <3>1
  <2>3. QED
    BY <1>1, <2>1, <2>2, PrefixOfConcat
<1>6. Way(f) \in Seq(Piece) /\ IsPrefix(Way(f), Way(k))
  BY <1>1, <1>2, <1>3, <1>4, <1>5
<1>7. QED
  BY <1>2, <1>5, <1>6 DEF f

LEMMA FreedSide ==
    ASSUME NEW k, NEW g, NEW w, NEW whole, Live(k, g, w, whole), NEW kept \in BOOLEAN
    PROVE  /\ Side(Freed(k, kept), g, w, whole, FALSE)
           /\ Freed(k, kept).link \notin {"none", "backlog"}
           /\ kept => Freed(k, kept).link = k.link
<1>1. k \in Conns /\ ConnOK(k) /\ k.sock \in Seq(Piece) /\ g \in Seq(Piece) /\ k.link \in {"open", "hup"}
  BY DEF Live, Core, ConnOK, Conns
<1> DEFINE f == Freed(k, kept)
<1>2. /\ f = [NoConn EXCEPT !.sock = f.sock, !.link = f.link] /\ f.sock \in {k.sock, <<>>}
      /\ f.link \in {"open", "hup", "eof", "closed"} /\ (kept => f.link = k.link)
      /\ Way(f) \in Seq(Piece) /\ Way(k) \in Seq(Piece) /\ IsPrefix(Way(f), Way(k))
  BY <1>1, FreedCuts
<1> HIDE DEF f
<1>3. f.buffer = <<>> /\ f.writing = FALSE /\ f.timer = FALSE /\ f.events = {} /\ f.firstTick = FALSE
  BY <1>2 DEF NoConn
<1>4. ConnOK(f)
  <2>1. <<>> \in Seq(Piece) /\ Len(<<>>) = 0 /\ Room \in Nat
    BY IpcAssumption
  <2>2. f \in Conns
    BY <1>1, <1>2, <1>3, <2>1 DEF Conns, NoConn, EventNames
  <2>3. Len(f.sock) <= Room
    BY <1>1, <1>2, <2>1 DEF ConnOK
  <2>4. QED
    BY <1>3, <2>2, <2>3 DEF ConnOK
<1>5. IsPrefix(g \o Way(f), g \o Way(k)) /\ g \o Way(f) \in Seq(Piece) /\ g \o Way(k) \in Seq(Piece)
  BY <1>1, <1>2, PrefixAfter, PiecesJoin
<1>6. Chron(g \o Way(f), w) /\ (whole => Ticks(g \o Way(f)))
  BY <1>5, CutStream DEF Live, Core
<1>7. QED
  BY <1>1, <1>2, <1>4, <1>6 DEF Side, f

-----------------------------------------------------------------------------
(* Steps *)

LEMMA BaseTells ==
    ASSUME ConnInv, NEW w, Later(world, w)
    PROVE  TellsAll(conn, w)
<1>1. ASSUME NEW d \in clients PROVE Live(conn[d], got[d], w, NeverCarried(d)) /\ IsPrefix(Way(conn[d]), Way(conn[d]))
  <2>1. d \in Clients /\ conn[d] \in Conns
    BY DEF ConnInv, Typed
  <2>2. Live(conn[d], got[d], world, NeverCarried(d))
    BY <2>1 DEF ConnInv, ClientOK, Side
  <2>3. QED
    BY <2>1, <2>2, LiveLater, WayIsSeq, PrefixSelf
<1>2. QED
  BY <1>1 DEF TellsAll, ConnInv, Typed

LEMMA ToldStep ==
    ASSUME ConnInv, NEW w, NEW ks, TellsAll(ks, w), Later(world, w),
           conn' = ks, world' = w, UNCHANGED <<clients, got>>,
           \A d \in Clients : NeverCarried(d)' => NeverCarried(d)
    PROVE  ConnInv'
<1>1. Typed'
  BY DEF ConnInv, Typed, TellsAll, Later
<1>2. ASSUME NEW d \in Clients PROVE ClientOK(d)'
  <2>1. Later(w, w) /\ w \in [Parts -> Nat]
    BY SameWorld DEF Later
  <2>2. CASE d \in clients
    <3>1. Live(ks[d], got[d], w, NeverCarried(d))
      BY <2>2 DEF TellsAll
    <3>2. Live(ks[d], got[d], w, NeverCarried(d)')
      BY <2>1, <3>1, LiveLater
    <3>3. QED
      BY <2>2, <3>2, LiveSide DEF ClientOK
  <2>3. CASE d \notin clients
    <3>1. Side(conn[d], got[d], world, NeverCarried(d), FALSE) /\ ks[d] = conn[d]
      BY <2>3 DEF ConnInv, ClientOK, TellsAll, Side
    <3>2. Side(ks[d], got[d], w, NeverCarried(d)', FALSE)
      BY <3>1, SideLater
    <3>3. QED
      BY <2>3, <3>2 DEF ClientOK, Side
  <2>4. QED
    BY <2>2, <2>3
<1>3. QED
  BY <1>1, <1>2 DEF ConnInv

LEMMA OneStep ==
    ASSUME ConnInv, NEW c \in Clients, NEW k, NEW g,
           conn' = [conn EXCEPT ![c] = k], got' = [got EXCEPT ![c] = g],
           UNCHANGED <<world, asked>>, clients' \subseteq Clients,
           \A d \in Clients \ {c} : d \in clients' <=> d \in clients,
           Side(k, g, world, NeverCarried(c), c \in clients')
    PROVE  ConnInv'
<1>1. Typed'
  BY DEF ConnInv, Typed, Side, ConnOK
<1>2. ASSUME NEW d \in Clients PROVE ClientOK(d)'
  <2>1. NeverCarried(d)' = NeverCarried(d)
    BY DEF NeverCarried
  <2>2. CASE d = c
    <3>1. conn'[d] = k /\ got'[d] = g
      BY <2>2 DEF ConnInv, Typed
    <3>2. QED
      BY <2>1, <2>2, <3>1 DEF ClientOK
  <2>3. CASE d # c
    <3>1. conn'[d] = conn[d] /\ got'[d] = got[d] /\ (d \in clients') = (d \in clients)
      BY <2>3 DEF ConnInv, Typed
    <3>2. ClientOK(d)
      BY DEF ConnInv
    <3>3. QED
      BY <2>1, <3>1, <3>2 DEF ClientOK
  <2>4. QED
    BY <2>2, <2>3
<1>3. QED
  BY <1>1, <1>2 DEF ConnInv

\* What is on the way to a client is only added to while it is linked.
Moves ==
    /\ clients' \subseteq clients /\ UNCHANGED got
    /\ \A c \in Clients : /\ c \in clients' => IsPrefix(Way(conn[c]), Way(conn'[c]))
                          /\ c \notin clients => Way(conn'[c]) = Way(conn[c])

LEMMA TellMoves ==
    ASSUME NEW ks, NEW w, TellsAll(ks, w), conn' = ks, UNCHANGED <<clients, got>>
    PROVE  Moves
  BY DEF TellsAll, Moves

\* The connections after a shutdown
LEMMA ShutdownStep ==
    ASSUME ConnInv, NEW reason \in {"restart", "exit"}, NEW exempt,
           conn' = Shutdown(conn, reason, exempt), clients' = {}, UNCHANGED <<world, got>>,
           \A d \in Clients : NeverCarried(d)' => NeverCarried(d)
    PROVE  /\ ConnInv' /\ Moves
           /\ exempt \in clients => conn'[exempt].link \in {"open", "hup"}
<1> DEFINE told == SendEvent(conn, "shutdown", ShutdownEvent(reason))
<1>1. world \in [Parts -> Nat] /\ clients \subseteq Clients /\ Later(world, world) /\ Typed
  BY SameWorld DEF ConnInv, Typed
<1>2. reason \in Kinds
  BY DEF Kinds
<1>3. Fresh(ShutdownEvent(reason), world) /\ ShutdownEvent(reason).kind = reason
  BY <1>2, EmptyNews, Zenon DEF ShutdownEvent
<1>4. TellsAll(told, world)
  <2>1. TellsAll(conn, world)
    BY <1>1, BaseTells
  <2>2. ShutdownEvent(reason).kind \notin {"first_tick", "tick"}
    BY <1>3
  <2> HIDE DEF told
  <2>3. QED
    BY <1>1, <1>3, <2>1, <2>2, EventTells DEF told
<1> HIDE DEF told
<1>5. \A c \in Clients : conn'[c] = IF c \in clients THEN Freed(told[c], c = exempt)
                                   ELSE IF told[c].link = "backlog" THEN Freed(told[c], FALSE) ELSE told[c]
  BY DEF Shutdown, told
<1>6. ASSUME NEW c \in Clients
      PROVE  /\ Side(conn'[c], got[c], world, NeverCarried(c), FALSE)
             /\ c \in clients /\ c = exempt => conn'[c].link \in {"open", "hup"}
             /\ c \notin clients => Way(conn'[c]) = Way(conn[c])
  <2>1. CASE c \in clients
    <3>1. Live(told[c], got[c], world, NeverCarried(c))
      BY <1>4, <2>1 DEF TellsAll
    <3>2. /\ Side(Freed(told[c], c = exempt), got[c], world, NeverCarried(c), FALSE)
          /\ (c = exempt) => Freed(told[c], c = exempt).link = told[c].link
      BY <3>1, FreedSide
    <3>3. told[c].link \in {"open", "hup"}
      BY <3>1 DEF Live, Core
    <3>4. QED
      BY <1>5, <2>1, <3>2, <3>3
  <2>2. CASE c \notin clients /\ conn[c].link = "backlog"
    <3>1. Side(conn[c], got[c], world, NeverCarried(c), FALSE) /\ told[c] = conn[c]
      BY <1>4, <2>2 DEF TellsAll, ConnInv, ClientOK, Side
    <3>2. conn'[c] = [NoConn EXCEPT !.sock = conn[c].sock, !.link = "eof"]
      BY <1>5, <2>2, <3>1 DEF Freed
    <3>3. conn[c] \in Conns /\ conn[c] = [NoConn EXCEPT !.sock = conn[c].sock, !.link = "backlog"]
      BY <2>2, <3>1 DEF Side, ConnOK
    <3>4. conn'[c] = [conn[c] EXCEPT !.link = "eof"]
      BY <3>2, <3>3 DEF NoConn
    <3>5. /\ conn'[c] \in Conns /\ conn'[c].link = "eof" /\ conn'[c].sock = conn[c].sock
          /\ conn'[c].buffer = conn[c].buffer /\ conn'[c].writing = conn[c].writing
          /\ conn'[c].timer = conn[c].timer
      BY <3>3, <3>4 DEF Conns
    <3>6. ConnOK(conn'[c]) /\ Way(conn'[c]) = Way(conn[c])
      BY <2>2, <3>1, <3>5 DEF ConnOK, Way, Side
    <3>7. QED
      BY <2>2, <3>1, <3>2, <3>5, <3>6 DEF Side
  <2>3. CASE c \notin clients /\ conn[c].link # "backlog"
    <3>1. Side(conn[c], got[c], world, NeverCarried(c), FALSE) /\ told[c] = conn[c]
      BY <1>4, <2>3 DEF TellsAll, ConnInv, ClientOK, Side
    <3>2. QED
      BY <1>5, <2>3, <3>1
  <2>4. QED
    BY <2>1, <2>2, <2>3
<1>7. conn' \in [Clients -> Conns]
  <2>1. \A c \in Clients : conn'[c] \in Conns
    BY <1>6 DEF Side, ConnOK
  <2>2. conn' = [c \in Clients |-> conn'[c]]
    BY DEF Shutdown
  <2>3. QED
    BY <2>1, <2>2
<1>8. Typed'
  BY <1>1, <1>7 DEF Typed
<1>9. \A c \in Clients : ClientOK(c)'
  <2> SUFFICES ASSUME NEW c \in Clients PROVE ClientOK(c)'
    OBVIOUS
  <2>1. Side(conn'[c], got[c], world, NeverCarried(c)', FALSE)
    BY <1>1, <1>6, SideLater
  <2>2. QED
    BY <2>1 DEF ClientOK, Side
<1>10. Moves
  BY <1>6 DEF Moves
<1>11. QED
  BY <1>1, <1>6, <1>8, <1>9, <1>10 DEF ConnInv

LEMMA HandleStep ==
    ASSUME IpcInv, up = "running", NEW c \in clients, NEW request, Handle(c, request), UNCHANGED got,
           \A d \in Clients : NeverCarried(d)' => NeverCarried(d),
           request = "restart" => ~NeverCarried(c)'
    PROVE  /\ ConnInv' /\ Moves
           /\ up' \in {"running", "exec", "exited"} /\ carried' \in Clients \cup {None}
           /\ up' # "running" => clients' = {}
           /\ up' = "exec" => /\ carried' \in Clients /\ conn'[carried'].link \in {"open", "hup"}
                              /\ ~NeverCarried(carried)'
<1>1. ConnInv /\ Typed /\ clients \subseteq Clients /\ world \in [Parts -> Nat] /\ Later(world, world)
      /\ carried \in Clients \cup {None}
  BY SameWorld DEF IpcInv, RestInv, ConnInv, Typed
<1>2. TellsAll(conn, world)
  BY <1>1, BaseTells
<1>3. ASSUME NEW w, NEW ks, TellsAll(ks, w), Later(world, w), conn' = ks, world' = w,
             UNCHANGED <<up, carried, clients>>
      PROVE  /\ ConnInv' /\ Moves /\ up' = "running" /\ carried' \in Clients \cup {None}
  <2>1. ConnInv'
    BY <1>1, <1>3, ToldStep
  <2>2. Moves
    BY <1>3, TellMoves
  <2>3. QED
    BY <1>1, <1>3, <2>1, <2>2
<1>4. CASE AnswerQuietly(c, request)
  <2>1. TellsAll(Handled(c, request), world)
    BY <1>1, <1>2, <1>4, HandledTells DEF AnswerQuietly
  <2>2. QED
    BY <1>1, <1>3, <1>4, <2>1 DEF AnswerQuietly
<1>5. CASE RunCommand(c, request)
  <2> DEFINE event == IF request = "reload" THEN "barconfig_update" ELSE "workspace"
             part == EventOf[event]
             m == Message("command", Nothing)
  <2>1. event \in DOMAIN EventOf /\ part \in Parts
    BY DEF EventOf, Parts
  <2>2. "command" \in Kinds
    BY DEF Kinds
  <2>3. \A w : Fresh(m, w) /\ m.kind = "command"
    BY <2>2, EmptyNews, Zenon
  <2>4. m.kind \notin {"first_tick", "tick"}
    BY <2>3
  <2> HIDE DEF event, part, m
  <2>5. CASE world[part] < MaxVersion
    <3> DEFINE w == [world EXCEPT ![part] = @ + 1]
               told == SendEvent(conn, event, EventMessage(w)[event])
               ks == [told EXCEPT ![c] = SendTo(@, m)]
    <3>1. world' = w /\ UNCHANGED <<up, carried, clients>>
      BY <1>5, <2>5 DEF RunCommand, part, event
    <3>2. conn' = [SendEvent(conn, event, EventMessage(world')[event]) EXCEPT ![c] = SendTo(@, m)]
      BY <1>5, <2>5 DEF RunCommand, part, event, m
    <3>3. Later(world, w) /\ w \in [Parts -> Nat]
      BY <1>1, <2>1 DEF Later
    <3> HIDE DEF w
    <3>4. TellsAll(conn, w)
      BY <1>1, <3>3, BaseTells
    <3>5. Fresh(EventMessage(w)[event], w) /\ EventMessage(w)[event].kind \notin {"first_tick", "tick"}
      BY <2>1, <3>3, EventMessages
    <3>6. TellsAll(told, w)
      BY <1>1, <3>3, <3>4, <3>5, EventTells
    <3> HIDE DEF told
    <3>7. TellsAll(ks, w)
      BY <1>1, <2>3, <2>4, <3>3, <3>6, ReplyTells
    <3>8. conn' = ks
      BY <3>1, <3>2 DEF told
    <3> HIDE DEF ks
    <3>9. QED
      BY <1>3, <3>1, <3>3, <3>7, <3>8
  <2>6. CASE ~(world[part] < MaxVersion)
    <3>1. TellsAll(Reply(c, m), world)
      BY <1>1, <1>2, <2>3, <2>4, ReplyTells DEF Reply
    <3>2. conn' = Reply(c, m) /\ UNCHANGED <<up, carried, clients, world>>
      BY <1>5, <2>6 DEF RunCommand, part, event, m
    <3>3. QED
      BY <1>1, <1>3, <3>1, <3>2
  <2>7. QED
    BY <2>5, <2>6
<1>6. CASE Restart(c, request)
  <2>1. /\ conn' = Shutdown(conn, "restart", c) /\ clients' = {} /\ UNCHANGED <<world, got>>
        /\ up' = "exec" /\ carried' = c /\ request = "restart"
    BY <1>6 DEF Restart
  <2>2. ConnInv' /\ Moves /\ conn'[c].link \in {"open", "hup"}
    BY <1>1, <2>1, ShutdownStep
  <2>3. ~NeverCarried(carried)'
    BY <2>1 DEF NeverCarried
  <2>4. QED
    BY <1>1, <2>1, <2>2, <2>3
<1>7. CASE Exit(c, request)
  <2>1. /\ conn' = Shutdown(conn, "exit", None) /\ clients' = {} /\ UNCHANGED <<world, got>>
        /\ up' = "exited" /\ carried' = carried
    BY <1>7 DEF Exit
  <2>2. ConnInv' /\ Moves
    BY <1>1, <2>1, ShutdownStep
  <2>3. QED
    BY <1>1, <2>1, <2>2
<1>8. QED
  BY <1>3, <1>4, <1>5, <1>6, <1>7 DEF Handle

LEMMA EmptyStream ==
    ASSUME NEW w
    PROVE  /\ <<>> \in Seq(Piece) /\ <<>> \o <<>> = <<>>
           /\ Alternates(<<>>) /\ Ticks(<<>>) /\ Chron(<<>>, w)
           /\ \A kind : Begins(<<>>, kind) = {}
<1>1. Len(<<>>) = 0 /\ 0 % 2 = 0 /\ \A i : i \notin 1 .. 0
  OBVIOUS
<1>2. \A kind : Begins(<<>>, kind) = {}
  BY <1>1 DEF Begins
<1>3. <<>> \in Seq(Piece)
  OBVIOUS
<1>4. QED
  BY <1>1, <1>2, <1>3, ConcatEmptySeq DEF Alternates, Ticks, Chron

LEMMA AcceptStep ==
    ASSUME IpcInv, NEW c \in Clients, Accept(c)
    PROVE  /\ IpcInv' /\ UNCHANGED got
           /\ c \notin clients /\ clients' = clients \cup {c}
           /\ \A d \in Clients : Way(conn'[d]) = Way(conn[d])
<1> DEFINE k == conn[c]
           p == [k EXCEPT !.link = "open"]
<1>1. ConnInv /\ Typed /\ clients \subseteq Clients
  BY DEF IpcInv, RestInv, ConnInv, Typed
<1>2. k.link = "backlog" /\ conn' = [conn EXCEPT ![c] = p] /\ conn \in [Clients -> Conns]
  BY <1>1 DEF Accept, Typed
<1>3. Side(k, got[c], world, NeverCarried(c), c \in clients)
  BY DEF IpcInv, ConnInv, ClientOK
<1>4. c \notin clients
  BY <1>2, <1>3 DEF Side, Live, Core
<1>5. /\ got[c] = <<>> /\ Way(k) = <<>> /\ ConnOK(k) /\ k \in Conns
      /\ k = [NoConn EXCEPT !.sock = k.sock, !.link = k.link]
  BY <1>2, <1>3, <1>4 DEF Side, ConnOK
<1>6. k.events = {} /\ k.firstTick = FALSE
  BY <1>5 DEF NoConn
<1>7. /\ p \in Conns /\ p.link = "open" /\ p.sock = k.sock /\ p.buffer = k.buffer
      /\ p.writing = k.writing /\ p.timer = k.timer /\ p.events = {} /\ p.firstTick = FALSE
  BY <1>5, <1>6 DEF Conns
<1>8. ConnOK(p) /\ Way(p) = Way(k)
  BY <1>2, <1>5, <1>7 DEF ConnOK, Way
<1> HIDE DEF p
<1>9. Live(p, got[c], world, NeverCarried(c))
  <2>1. got[c] \o Way(p) = <<>>
    BY <1>5, <1>8, EmptyStream
  <2>2. Core(p, got[c], world, NeverCarried(c))
    BY <1>5, <1>7, <1>8, <2>1, EmptyStream DEF Core
  <2>3. TickKnown(p, got[c])
    BY <1>7, <2>1, EmptyStream DEF TickKnown
  <2>4. QED
    BY <2>2, <2>3 DEF Live
<1>10. Side(p, got[c], world, NeverCarried(c), TRUE)
  BY <1>9, LiveSide
<1>11. clients' = clients \cup {c} /\ UNCHANGED <<up, carried, busy, world, ask, asked, got>> /\ up = "running"
       /\ busy = None
  BY DEF Accept
<1>12. ConnInv'
  <2>1. got' = [got EXCEPT ![c] = got[c]]
    BY <1>1, <1>11 DEF Typed
  <2>2. Side(p, got[c], world, NeverCarried(c), c \in clients')
    BY <1>10, <1>11 DEF Side
  <2>3. QED
    BY <1>1, <1>2, <1>11, <2>1, <2>2, OneStep
<1>13. IpcInv'
  BY <1>11, <1>12 DEF IpcInv, RestInv, NeverCarried
<1>14. \A d \in Clients : Way(conn'[d]) = Way(conn[d])
  BY <1>2, <1>8
<1>15. QED
  BY <1>4, <1>11, <1>13, <1>14

LEMMA AskedMore ==
    ASSUME asked \in [Clients -> Seq(QuietAsks \cup CommandAsks)], NEW c \in Clients,
           NEW r \in QuietAsks \cup CommandAsks, asked' = [asked EXCEPT ![c] = Append(@, r)]
    PROVE  /\ asked' \in [Clients -> Seq(QuietAsks \cup CommandAsks)]
           /\ \A d \in Clients : NeverCarried(d)' => NeverCarried(d)
           /\ r = "restart" => ~NeverCarried(c)'
<1> DEFINE A == QuietAsks \cup CommandAsks
           s == asked[c]
           t == Append(s, r)
<1> HIDE DEF A
<1>1. s \in Seq(A) /\ r \in A
  BY DEF A
<1>2. /\ t \in Seq(A) /\ Len(t) = Len(s) + 1 /\ t[Len(s) + 1] = r /\ Len(s) \in Nat
      /\ \A i \in 1 .. Len(s) : t[i] = s[i]
  BY <1>1, AppendProperties, LenProperties
<1>3. DOMAIN s = 1 .. Len(s) /\ DOMAIN t = 1 .. Len(t)
  BY <1>1, <1>2, LenProperties
<1> HIDE DEF t, s
<1>4. \A i \in 1 .. Len(s) : i \in 1 .. Len(t)
  BY <1>2
<1>5. Len(s) + 1 \in 1 .. Len(t)
  BY <1>2
<1>6. (\A i \in DOMAIN s : i \in DOMAIN t /\ t[i] = s[i]) /\ r \in Range(t)
  BY <1>2, <1>3, <1>4, <1>5 DEF Range
<1>7. \A x : x \in Range(s) => x \in Range(t)
  BY <1>6 DEF Range
<1>8. asked' = [asked EXCEPT ![c] = t]
  BY DEF t, s
<1>9. asked' \in [Clients -> Seq(A)]
  BY <1>2, <1>8 DEF A
<1>10. ASSUME NEW d \in Clients PROVE NeverCarried(d)' => NeverCarried(d)
  <2>1. CASE d = c
    BY <1>7, <1>8, <2>1 DEF NeverCarried, s
  <2>2. CASE d # c
    BY <1>8, <2>2 DEF NeverCarried
  <2>3. QED
    BY <2>1, <2>2
<1>11. r = "restart" => ~NeverCarried(c)'
  BY <1>6, <1>8 DEF NeverCarried
<1>12. QED
  BY <1>9, <1>10, <1>11 DEF A

\* What the rest of the invariant asks of a step of the running process
LEMMA RestStep ==
    ASSUME RestInv, up = "running", busy' \in clients' \cup {None},
           ask' \in [Clients -> Seq(QuietAsks \cup CommandAsks)],
           asked' \in [Clients -> Seq(QuietAsks \cup CommandAsks)],
           up' \in {"running", "exec", "exited"}, carried' \in Clients \cup {None},
           up' # "running" => clients' = {},
           up' = "exec" => /\ carried' \in Clients /\ conn'[carried'].link \in {"open", "hup"}
                           /\ ~NeverCarried(carried)'
    PROVE  RestInv'
  BY DEF RestInv

LEMMA ReceiveMessageStep ==
    ASSUME IpcInv, NEW c \in Clients, ReceiveMessage(c)
    PROVE  IpcInv' /\ Moves
<1> DEFINE A == QuietAsks \cup CommandAsks
           r == Head(ask[c])
<1>1. /\ ConnInv /\ RestInv /\ Typed /\ ask \in [Clients -> Seq(A)] /\ asked \in [Clients -> Seq(A)]
      /\ clients \subseteq Clients /\ carried \in Clients \cup {None}
  BY DEF IpcInv, RestInv, ConnInv, Typed
<1>2. up = "running" /\ busy = None /\ c \in clients /\ ask[c] # <<>> /\ UNCHANGED got
  BY DEF ReceiveMessage
<1> HIDE DEF A
<1>3. r \in A /\ Tail(ask[c]) \in Seq(A)
  BY <1>1, <1>2, HeadTailProperties
<1>4. ask' = [ask EXCEPT ![c] = Tail(ask[c])]
  BY DEF ReceiveMessage
<1>5. ask' \in [Clients -> Seq(A)]
  BY <1>1, <1>3, <1>4
<1>6. asked' = [asked EXCEPT ![c] = Append(@, r)]
  BY DEF ReceiveMessage
<1> HIDE DEF r
<1>7. /\ asked' \in [Clients -> Seq(A)]
      /\ \A d \in Clients : NeverCarried(d)' => NeverCarried(d)
      /\ r = "restart" => ~NeverCarried(c)'
  BY <1>1, <1>3, <1>6, AskedMore DEF A
<1>8. CASE r = "slow"
  <2>1. busy' = c /\ UNCHANGED <<up, carried, clients, conn, world>>
    BY <1>8 DEF ReceiveMessage, r
  <2>2. world \in [Parts -> Nat]
    BY <1>1 DEF Typed
  <2>3. TellsAll(conn, world) /\ Later(world, world)
    BY <1>1, <2>2, BaseTells, SameWorld
  <2>4. ConnInv' /\ Moves
    BY <1>1, <1>2, <1>7, <2>1, <2>3, ToldStep, TellMoves
  <2>5. RestInv'
    BY <1>1, <1>2, <1>5, <1>7, <2>1, RestStep DEF A
  <2>6. QED
    BY <2>4, <2>5 DEF IpcInv
<1>9. CASE r # "slow"
  <2>1. Handle(c, r) /\ busy' = busy
    BY <1>9 DEF ReceiveMessage, r
  <2>2. /\ ConnInv' /\ Moves
        /\ up' \in {"running", "exec", "exited"} /\ carried' \in Clients \cup {None}
        /\ up' # "running" => clients' = {}
        /\ up' = "exec" => /\ carried' \in Clients /\ conn'[carried'].link \in {"open", "hup"}
                           /\ ~NeverCarried(carried)'
    BY <1>2, <1>7, <2>1, HandleStep
  <2>3. RestInv'
    BY <1>1, <1>2, <1>5, <1>7, <2>1, <2>2, RestStep DEF A
  <2>4. QED
    BY <2>2, <2>3 DEF IpcInv
<1>10. QED
  BY <1>8, <1>9

LEMMA ReceivePayloadStep ==
    ASSUME IpcInv, NEW c \in Clients, ReceivePayload(c)
    PROVE  IpcInv' /\ Moves
<1>1. RestInv /\ c # None
  BY IpcAssumption DEF IpcInv
<1>2. /\ up = "running" /\ c \in clients /\ Handle(c, "run_command") /\ busy' = None
      /\ UNCHANGED <<ask, asked, got>>
  BY <1>1 DEF ReceivePayload, RestInv
<1>3. \A d : NeverCarried(d)' = NeverCarried(d)
  BY <1>2 DEF NeverCarried
<1>4. /\ ConnInv' /\ Moves
      /\ up' \in {"running", "exec", "exited"} /\ carried' \in Clients \cup {None}
      /\ up' # "running" => clients' = {}
      /\ up' = "exec" => /\ carried' \in Clients /\ conn'[carried'].link \in {"open", "hup"}
                         /\ ~NeverCarried(carried)'
  BY <1>2, <1>3, HandleStep
<1>5. ask' \in [Clients -> Seq(QuietAsks \cup CommandAsks)] /\ asked' \in [Clients -> Seq(QuietAsks \cup CommandAsks)]
  BY <1>1, <1>2 DEF RestInv
<1>6. RestInv'
  BY <1>1, <1>2, <1>4, <1>5, RestStep
<1>7. QED
  BY <1>4, <1>6 DEF IpcInv

LEMMA FreeClientStep ==
    ASSUME IpcInv, NEW c \in clients, FreeClient(c), up = "running", busy' = None, busy \in {c, None},
           UNCHANGED <<up, carried, world, ask, asked, got>>
    PROVE  IpcInv' /\ Moves
<1>1. ConnInv /\ RestInv /\ Typed /\ clients \subseteq Clients /\ c \in Clients
  BY DEF IpcInv, ConnInv, Typed
<1>2. Live(conn[c], got[c], world, NeverCarried(c))
  BY <1>1 DEF ConnInv, ClientOK, Side
<1> DEFINE f == Freed(conn[c], FALSE)
<1>3. Side(f, got[c], world, NeverCarried(c), FALSE)
  BY <1>2, FreedSide
<1>4. conn' = [conn EXCEPT ![c] = f] /\ clients' = clients \ {c}
  BY DEF FreeClient
<1> HIDE DEF f
<1>5. ConnInv'
  <2>1. Side(f, got[c], world, NeverCarried(c), c \in clients')
    BY <1>3, <1>4 DEF Side
  <2>2. got' = [got EXCEPT ![c] = got[c]]
    BY <1>1 DEF Typed
  <2>3. QED
    BY <1>1, <1>4, <2>1, <2>2, OneStep
<1>6. RestInv'
  BY <1>1 DEF RestInv
<1>7. \A d \in Clients : d # c => conn'[d] = conn[d] /\ conn[d] \in Conns
  BY <1>1, <1>4 DEF Typed
<1>8. Moves
  BY <1>4, <1>7, WayIsSeq, PrefixSelf DEF Moves
<1>9. QED
  BY <1>5, <1>6, <1>8 DEF IpcInv

LEMMA EofStep ==
    ASSUME IpcInv, NEW c \in Clients, ReceiveEof(c)
    PROVE  IpcInv' /\ Moves
  BY FreeClientStep DEF ReceiveEof

LEMMA TimeoutStep ==
    ASSUME IpcInv, NEW c \in Clients, Timeout(c)
    PROVE  IpcInv' /\ Moves
  BY FreeClientStep DEF Timeout

\* Nothing is added to a stream, nothing of it is lost and nobody comes or goes.
Rests == UNCHANGED <<clients, got>> /\ \A c \in Clients : Way(conn'[c]) = Way(conn[c])

\* The connection of one client changes, not what is on the way to it.
LEMMA SideStep ==
    ASSUME IpcInv, NEW c \in Clients, NEW k, conn' = [conn EXCEPT ![c] = k],
           UNCHANGED <<clients, got, world, asked>>, Way(k) = Way(conn[c]),
           Side(k, got[c], world, NeverCarried(c), c \in clients)
    PROVE  ConnInv' /\ Rests
<1>1. ConnInv /\ Typed /\ clients \subseteq Clients
  BY DEF IpcInv, ConnInv, Typed
<1>2. got' = [got EXCEPT ![c] = got[c]]
  BY <1>1 DEF Typed
<1>3. Side(k, got[c], world, NeverCarried(c), c \in clients')
  OBVIOUS
<1>4. ConnInv'
  BY <1>1, <1>2, <1>3, OneStep
<1>5. QED
  BY <1>1, <1>4 DEF Rests, Typed

LEMMA WriteableStep ==
    ASSUME IpcInv, NEW c \in Clients, Writeable(c)
    PROVE  IpcInv' /\ Rests
<1> DEFINE k == conn[c]
           p == PushPending(k)
<1>1. ConnInv /\ RestInv /\ Typed /\ c \in clients
  BY DEF IpcInv, ConnInv, Writeable
<1>2. Live(k, got[c], world, NeverCarried(c))
  BY <1>1 DEF ConnInv, ClientOK, Side
<1>3. ConnOK(k) /\ k \in Conns /\ Len(k.sock) <= Room
  BY <1>2 DEF Live, Core, ConnOK
<1>4. ConnOK(p) /\ SameSide(k, p) /\ Way(p) = Way(k)
  BY <1>3, PushKeeps
<1> HIDE DEF p
<1>5. Live(p, got[c], world, NeverCarried(c))
  BY <1>2, <1>4 DEF Live, Core, TickKnown, SameSide
<1>6. Side(p, got[c], world, NeverCarried(c), c \in clients)
  BY <1>1, <1>5, LiveSide DEF Side
<1>7. conn' = [conn EXCEPT ![c] = p]
  BY DEF Writeable, p
<1>8. ConnInv' /\ Rests
  BY <1>4, <1>6, <1>7, SideStep DEF Writeable
<1>9. RestInv'
  BY <1>1 DEF RestInv, Writeable, NeverCarried
<1>10. QED
  BY <1>8, <1>9 DEF IpcInv

LEMMA ConnectStep ==
    ASSUME IpcInv, NEW c \in Clients, Connect(c)
    PROVE  IpcInv' /\ Rests
<1> DEFINE k == conn[c]
           p == [k EXCEPT !.link = "backlog"]
<1>1. ConnInv /\ RestInv /\ Typed /\ up = "running" /\ k.link = "none" /\ k \in Conns
  BY DEF IpcInv, ConnInv, Typed, Connect
<1>2. Side(k, got[c], world, NeverCarried(c), c \in clients)
  BY <1>1 DEF ConnInv, ClientOK
<1>3. c \notin clients
  BY <1>1, <1>2 DEF Side, Live, Core
<1>4. /\ p \in Conns /\ p.link = "backlog" /\ p.sock = k.sock /\ p.buffer = k.buffer
      /\ p.writing = k.writing /\ p.timer = k.timer
  BY <1>1 DEF Conns
<1>5. p = [NoConn EXCEPT !.sock = p.sock, !.link = p.link]
  <2>1. k = [NoConn EXCEPT !.sock = k.sock, !.link = k.link]
    BY <1>2, <1>3 DEF Side
  <2>2. QED
    BY <1>4, <2>1 DEF NoConn
<1>6. ConnOK(p) /\ Way(p) = Way(k)
  BY <1>1, <1>2, <1>4 DEF ConnOK, Way, Side
<1>7. conn' = [conn EXCEPT ![c] = p]
  BY DEF Connect
<1> HIDE DEF p
<1>8. Side(p, got[c], world, NeverCarried(c), c \in clients)
  BY <1>1, <1>2, <1>3, <1>5, <1>6 DEF Side
<1>9. ConnInv' /\ Rests
  BY <1>6, <1>7, <1>8, SideStep DEF Connect
<1>10. RestInv'
  BY <1>1 DEF RestInv, Connect
<1>11. QED
  BY <1>9, <1>10 DEF IpcInv

LEMMA HangUpStep ==
    ASSUME IpcInv, NEW c \in Clients, HangUp(c)
    PROVE  IpcInv' /\ Rests
<1> DEFINE k == conn[c]
           p == [k EXCEPT !.link = "hup"]
<1>1. ConnInv /\ RestInv /\ Typed /\ k.link = "open" /\ k \in Conns /\ conn \in [Clients -> Conns]
  BY DEF IpcInv, ConnInv, Typed, HangUp
<1>2. Side(k, got[c], world, NeverCarried(c), c \in clients)
  BY <1>1 DEF ConnInv, ClientOK
<1>3. /\ p \in Conns /\ p.link = "hup" /\ p.sock = k.sock /\ p.buffer = k.buffer
      /\ p.writing = k.writing /\ p.timer = k.timer /\ p.events = k.events /\ p.firstTick = k.firstTick
  BY <1>1 DEF Conns
<1>4. c \notin clients => p = [NoConn EXCEPT !.sock = p.sock, !.link = p.link]
  <2>1. c \notin clients => k = [NoConn EXCEPT !.sock = k.sock, !.link = k.link]
    BY <1>2 DEF Side
  <2>2. QED
    BY <1>3, <2>1 DEF NoConn
<1>5. ConnOK(p) /\ Way(p) = Way(k)
  BY <1>2, <1>3 DEF ConnOK, Way, Side
<1>6. conn' = [conn EXCEPT ![c] = p]
  BY DEF HangUp
<1>7. conn'[c].link = "hup" /\ \A d \in Clients : d # c => conn'[d] = conn[d]
  BY <1>1, <1>3, <1>6
<1> HIDE DEF p
<1>8. c \in clients => Live(p, got[c], world, NeverCarried(c))
  BY <1>2, <1>3, <1>5 DEF Side, Live, Core, TickKnown
<1>9. Side(p, got[c], world, NeverCarried(c), c \in clients)
  BY <1>2, <1>3, <1>4, <1>5, <1>8 DEF Side
<1>10. ConnInv' /\ Rests
  BY <1>5, <1>6, <1>9, SideStep DEF HangUp
<1>11. RestInv'
  BY <1>1, <1>7 DEF RestInv, HangUp, NeverCarried
<1>12. QED
  BY <1>10, <1>11 DEF IpcInv

LEMMA AskStep ==
    ASSUME IpcInv, NEW c \in Clients, NEW request \in Asks[c], Ask(c, request)
    PROVE  IpcInv' /\ Rests
<1> DEFINE A == QuietAsks \cup CommandAsks
<1>1. ConnInv /\ RestInv /\ ask \in [Clients -> Seq(A)] /\ asked \in [Clients -> Seq(A)] /\ request \in A
  BY IpcAssumption DEF IpcInv, RestInv
<1> HIDE DEF A
<1>2. Append(ask[c], request) \in Seq(A)
  BY <1>1, AppendProperties
<1>3. ask' = [ask EXCEPT ![c] = Append(ask[c], request)] /\ UNCHANGED <<up, carried, busy, clients, conn, world, asked, got>>
  BY DEF Ask
<1>4. ask' \in [Clients -> Seq(A)]
  BY <1>1, <1>2, <1>3
<1>5. RestInv'
  BY <1>1, <1>3, <1>4 DEF RestInv, NeverCarried, A
<1>6. ConnInv'
  BY <1>1, <1>3 DEF ConnInv, Typed, ClientOK, NeverCarried
<1>7. QED
  BY <1>3, <1>5, <1>6 DEF IpcInv, Rests

LEMMA StateChangesStep ==
    ASSUME IpcInv, NEW event \in Events, StateChanges(event)
    PROVE  IpcInv' /\ Moves
<1> DEFINE part == EventOf[event]
           w == [world EXCEPT ![part] = @ + 1]
           ks == SendEvent(conn, event, EventMessage(w)[event])
<1>1. ConnInv /\ RestInv /\ Typed /\ world \in [Parts -> Nat] /\ event \in DOMAIN EventOf
  BY IpcAssumption DEF IpcInv, ConnInv, Typed
<1>2. part \in Parts
  BY <1>1 DEF EventOf, Parts
<1> HIDE DEF part
<1>3. Later(world, w) /\ w \in [Parts -> Nat]
  BY <1>1, <1>2 DEF Later
<1>4. world' = w /\ UNCHANGED <<up, carried, busy, clients, ask, asked, got>>
  BY DEF StateChanges, part
<1>5. conn' = SendEvent(conn, event, EventMessage(world')[event])
  BY DEF StateChanges
<1> HIDE DEF w
<1>6. TellsAll(conn, w)
  BY <1>1, <1>3, BaseTells
<1>7. Fresh(EventMessage(w)[event], w) /\ EventMessage(w)[event].kind \notin {"first_tick", "tick"}
  BY <1>1, <1>3, EventMessages
<1>8. TellsAll(ks, w)
  BY <1>1, <1>3, <1>6, <1>7, EventTells
<1>9. conn' = ks
  BY <1>4, <1>5
<1> HIDE DEF ks
<1>10. ConnInv' /\ Moves
  <2>1. \A d \in Clients : NeverCarried(d)' => NeverCarried(d)
    BY <1>4 DEF NeverCarried
  <2>2. QED
    BY <1>1, <1>3, <1>4, <1>8, <1>9, <2>1, ToldStep, TellMoves
<1>11. up = "running"
  BY DEF StateChanges
<1>12. RestInv'
  BY <1>1, <1>4, <1>11 DEF RestInv
<1>13. QED
  BY <1>10, <1>12 DEF IpcInv

LEMMA StartAgainStep ==
    ASSUME IpcInv, StartAgain
    PROVE  /\ IpcInv' /\ UNCHANGED got /\ carried \in Clients /\ clients = {} /\ clients' = {carried}
           /\ IsPrefix(Way(conn[carried]), Way(conn'[carried]))
           /\ \A d \in Clients \ {carried} : conn'[d] = conn[d]
<1> DEFINE c == carried
           k == conn[c]
           m == Message("command", Nothing)
           q == SendTo(k, m)
           p == PushPending(q)
<1>1. ConnInv /\ RestInv /\ Typed /\ world \in [Parts -> Nat] /\ up = "exec"
  BY DEF IpcInv, ConnInv, Typed, StartAgain
<1>2. c \in Clients /\ k.link \in {"open", "hup"} /\ ~NeverCarried(c) /\ clients = {} /\ busy = None
  BY <1>1 DEF RestInv
<1>3. Side(k, got[c], world, NeverCarried(c), c \in clients)
  BY <1>1, <1>2 DEF ConnInv, ClientOK
<1>4. Core(k, got[c], world, FALSE)
  BY <1>2, <1>3 DEF Side, Core
<1>5. Fresh(m, world)
  <2>1. "command" \in Kinds
    BY DEF Kinds
  <2>2. QED
    BY <2>1, EmptyNews, Zenon
<1>6. Core(q, got[c], world, FALSE) /\ SameSide(k, q) /\ IsPrefix(Way(k), Way(q))
  <2> HIDE DEF m
  <2>1. FALSE => Timely(k, got[c], m)
    OBVIOUS
  <2>2. QED
    BY <1>1, <1>4, <1>5, <2>1, SendCore
<1> HIDE DEF q
<1>7. ConnOK(q) /\ q \in Conns /\ Len(q.sock) <= Room
  BY <1>6 DEF Core, ConnOK
<1>8. ConnOK(p) /\ SameSide(q, p) /\ Way(p) = Way(q)
  BY <1>7, PushKeeps
<1> HIDE DEF p
<1>9. Live(p, got[c], world, FALSE)
  BY <1>6, <1>8 DEF Live, Core, SameSide
<1>10. conn' = [conn EXCEPT ![c] = p] /\ clients' = {c} /\ up' = "running"
       /\ UNCHANGED <<carried, busy, world, ask, asked, got>>
  BY DEF StartAgain, p, q, m
<1>11. Typed /\ conn \in [Clients -> Conns]
  BY <1>1 DEF Typed
<1>12. ConnInv'
  <2>1. got' = [got EXCEPT ![c] = got[c]]
    BY <1>1, <1>10 DEF Typed
  <2>2. Side(p, got[c], world, NeverCarried(c), c \in clients')
    <3>1. Side(p, got[c], world, FALSE, TRUE)
      BY <1>9, LiveSide
    <3>2. QED
      BY <1>2, <1>9, <1>10, <3>1 DEF Side, Live, Core
  <2>3. \A d \in Clients \ {c} : d \in clients' <=> d \in clients
    BY <1>2, <1>10
  <2>4. QED
    BY <1>1, <1>2, <1>10, <2>1, <2>2, <2>3, OneStep
<1>13. RestInv'
  BY <1>1, <1>2, <1>10 DEF RestInv
<1>14. IsPrefix(Way(conn[c]), Way(conn'[c])) /\ \A d \in Clients \ {c} : conn'[d] = conn[d]
  BY <1>2, <1>6, <1>8, <1>10, <1>11
<1>15. QED
  BY <1>2, <1>10, <1>12, <1>13, <1>14 DEF IpcInv

\* The client takes the first piece of its socket.
LEMMA ReadStep ==
    ASSUME IpcInv, NEW c \in Clients, Read(c)
    PROVE  /\ IpcInv' /\ UNCHANGED clients
           /\ got[c] \in Seq(Piece) /\ Way(conn[c]) \in Seq(Piece) /\ Way(conn[c]) # <<>>
           /\ got' = [got EXCEPT ![c] = Append(@, Head(Way(conn[c])))]
           /\ got'[c] \o Way(conn'[c]) = got[c] \o Way(conn[c])
           /\ \A d \in Clients \ {c} : conn'[d] = conn[d]
<1> DEFINE k == conn[c]
           g == got[c]
           h == Head(k.sock)
           p == [k EXCEPT !.sock = Tail(k.sock)]
<1>1. ConnInv /\ RestInv /\ Typed /\ k \in Conns /\ g \in Seq(Piece) /\ clients \subseteq Clients
      /\ conn \in [Clients -> Conns] /\ got \in [Clients -> Seq(Piece)]
  BY DEF IpcInv, ConnInv, Typed
<1>2. Side(k, g, world, NeverCarried(c), c \in clients)
  BY <1>1 DEF ConnInv, ClientOK
<1>3. k.sock # <<>> /\ k.sock \in Seq(Piece) /\ k.buffer \in Seq(Piece)
  BY <1>1 DEF Read, Conns
<1>4. h \in Piece /\ Tail(k.sock) \in Seq(Piece) /\ Len(Tail(k.sock)) = Len(k.sock) - 1
  BY <1>3, HeadTailProperties
<1>5. conn' = [conn EXCEPT ![c] = p] /\ got' = [got EXCEPT ![c] = Append(g, h)]
      /\ UNCHANGED <<up, carried, busy, clients, world, ask, asked>>
  BY DEF Read
<1>6. <<h>> \in Seq(Piece) /\ <<h>> \o Tail(k.sock) = k.sock
  <2>1. <<h>> \in Seq(Piece) /\ Len(<<h>>) = 1 /\ <<h>>[1] = h
    BY <1>4
  <2>2. Len(k.sock) \in Nat /\ Len(k.sock) # 0
    BY <1>3, LenProperties, EmptySeq
  <2> DEFINE n == Len(k.sock)
             t == Tail(k.sock)
             s == <<h>> \o t
  <2>3. s \in Seq(Piece) /\ Len(s) = 1 + Len(t)
        /\ \A i \in 1 .. 1 + Len(t) : s[i] = IF i <= 1 THEN <<h>>[i] ELSE t[i - 1]
    BY <1>4, <2>1, ConcatProperties
  <2>4. \A i \in 1 .. Len(t) : t[i] = k.sock[i + 1]
    BY <1>3, HeadTailProperties
  <2>5. h = k.sock[1]
    BY <1>3
  <2>6. Len(t) = n - 1 /\ n \in Nat /\ n # 0
    BY <1>4, <2>2
  <2> HIDE DEF n, t, s, h
  <2>7. ASSUME NEW i \in 1 .. n PROVE s[i] = k.sock[i]
    <3>1. CASE i = 1
      BY <2>1, <2>3, <2>5, <2>6, <3>1
    <3>2. CASE i # 1
      <4>1. i - 1 \in 1 .. Len(t) /\ ~(i <= 1) /\ i \in 1 .. 1 + Len(t) /\ (i - 1) + 1 = i
        BY <2>6, <3>2
      <4>2. QED
        BY <2>3, <2>4, <4>1
    <3>3. QED
      BY <3>1, <3>2
  <2>8. Len(s) = n
    BY <2>3, <2>6
  <2>9. s = k.sock
    BY <1>3, <2>3, <2>7, <2>8, SeqEqual DEF n
  <2>10. QED
    BY <2>1, <2>9 DEF s, t
<1> HIDE DEF h
<1>7. /\ p \in Conns /\ p.sock = Tail(k.sock) /\ p.buffer = k.buffer /\ p.writing = k.writing
      /\ p.timer = k.timer /\ p.events = k.events /\ p.firstTick = k.firstTick /\ p.link = k.link
  BY <1>1, <1>4 DEF Conns
<1> HIDE DEF p
<1>8. Append(g, h) \in Seq(Piece) /\ Append(g, h) = g \o <<h>>
  BY <1>1, <1>4, AppendIsConcat, AppendProperties
<1>9. Way(k) = <<h>> \o Way(p) /\ Way(p) \in Seq(Piece) /\ Way(k) \in Seq(Piece)
  <2>1. Way(p) \in Seq(Piece) /\ Way(k) \in Seq(Piece)
    BY <1>1, <1>7, WayIsSeq
  <2>2. (<<h>> \o Tail(k.sock)) \o k.buffer = <<h>> \o (Tail(k.sock) \o k.buffer)
    BY <1>3, <1>4, <1>6, PiecesJoin, Zenon
  <2>3. k.sock \o k.buffer = <<h>> \o (p.sock \o p.buffer)
    BY <1>6, <1>7, <2>2, Zenon
  <2>4. QED
    BY <2>1, <2>3 DEF Way
<1>10. Append(g, h) \o Way(p) = g \o Way(k)
  BY <1>1, <1>6, <1>8, <1>9, PiecesJoin
<1>11. Way(k) # <<>> /\ Head(Way(k)) = h
  <2>1. /\ Len(<<h>> \o Way(p)) = 1 + Len(Way(p))
        /\ \A i \in 1 .. 1 + Len(Way(p)) :
              (<<h>> \o Way(p))[i] = IF i <= 1 THEN <<h>>[i] ELSE Way(p)[i - 1]
    BY <1>6, <1>9, ConcatProperties
  <2>2. Len(Way(p)) \in Nat
    BY <1>9, LenProperties
  <2>3. 1 \in 1 .. 1 + Len(Way(p)) /\ 1 + Len(Way(p)) # 0
    BY <2>2
  <2>4. Way(k)[1] = h /\ Len(Way(k)) # 0
    BY <1>9, <2>1, <2>3
  <2>5. Way(k) # <<>>
    BY <2>4
  <2>6. QED
    BY <1>9, <2>4, <2>5
<1>12. ConnOK(p)
  <2>1. ConnOK(k) /\ Room \in Nat
    BY <1>2, IpcAssumption DEF Side
  <2>2. Len(k.sock) \in Nat
    BY <1>3, LenProperties
  <2>3. Len(p.sock) <= Room
    BY <1>4, <1>7, <2>1, <2>2 DEF ConnOK
  <2>4. QED
    BY <1>7, <2>1, <2>3 DEF ConnOK
<1>13. k.link \notin {"none", "backlog"}
  BY <1>2, <1>11 DEF Side
<1>14. c \in clients => Live(p, Append(g, h), world, NeverCarried(c))
  BY <1>2, <1>7, <1>8, <1>10, <1>12 DEF Side, Live, Core, TickKnown
<1>15. c \notin clients => p = [NoConn EXCEPT !.sock = p.sock, !.link = p.link]
  <2>1. c \notin clients => k = [NoConn EXCEPT !.sock = k.sock, !.link = k.link]
    BY <1>2 DEF Side
  <2>2. QED
    BY <1>7, <2>1 DEF NoConn, p
<1>16. Side(p, Append(g, h), world, NeverCarried(c), c \in clients')
  BY <1>2, <1>5, <1>7, <1>8, <1>10, <1>12, <1>13, <1>14, <1>15 DEF Side
<1>17. ConnInv'
  BY <1>1, <1>5, <1>16, OneStep
<1>18. conn'[c] = p /\ got'[c] = Append(g, h) /\ \A d \in Clients \ {c} : conn'[d] = conn[d]
  BY <1>1, <1>5
<1>19. RestInv'
  BY <1>1, <1>5, <1>7, <1>18 DEF RestInv, NeverCarried
<1>20. QED
  BY <1>1, <1>5, <1>9, <1>10, <1>11, <1>17, <1>18, <1>19 DEF IpcInv

LEMMA InitHolds == IpcInit => IpcInv
<1> SUFFICES ASSUME IpcInit PROVE IpcInv
  OBVIOUS
<1> USE DEF IpcInit
<1>1. ConnOK(NoConn) /\ Way(NoConn) = <<>> /\ NoConn \in Conns
  BY NoConnOK DEF ConnOK
<1>2. <<>> \in Seq(Piece) /\ <<>> \o <<>> = <<>> /\ Ticks(<<>>) /\ Chron(<<>>, world)
  BY EmptyStream
<1>3. NoConn = [NoConn EXCEPT !.sock = NoConn.sock, !.link = NoConn.link]
  BY DEF NoConn
<1>4. Typed
  BY <1>1, <1>2 DEF Typed
<1>5. ASSUME NEW c \in Clients PROVE ClientOK(c)
  <2>1. conn[c] = NoConn /\ got[c] = <<>> /\ c \notin clients
    OBVIOUS
  <2>2. Side(NoConn, <<>>, world, NeverCarried(c), FALSE)
    BY <1>1, <1>2, <1>3 DEF Side
  <2>3. (c \in clients) = FALSE
    BY <2>1
  <2>4. QED
    BY <2>1, <2>2, <2>3 DEF ClientOK
<1>6. <<>> \in Seq(QuietAsks \cup CommandAsks)
  OBVIOUS
<1>7. RestInv
  BY <1>6 DEF RestInv
<1>8. QED
  BY <1>4, <1>5, <1>7 DEF IpcInv, ConnInv

\* A step that changes nothing
LEMMA Stutters ==
    ASSUME IpcInv, UNCHANGED ipcVars
    PROVE  IpcInv' /\ Rests
<1> USE DEF ipcVars
<1>1. Rests
  BY DEF Rests, Way
<1>2. Typed'
  BY DEF IpcInv, ConnInv, Typed
<1>3. \A c \in Clients : ClientOK(c)'
  BY DEF IpcInv, ConnInv, ClientOK, NeverCarried
<1>4. RestInv'
  BY DEF IpcInv, RestInv, NeverCarried
<1>5. QED
  BY <1>1, <1>2, <1>3, <1>4 DEF IpcInv, ConnInv

\* Each step that is not one of those that link a client or let one read
LEMMA OtherSteps ==
    ASSUME IpcInv, [IpcNext]_ipcVars
    PROVE  \/ IpcInv' /\ (Moves \/ Rests)
           \/ \E c \in Clients : Accept(c) \/ Read(c)
           \/ StartAgain
<1>1. CASE UNCHANGED ipcVars
  BY <1>1, Stutters
<1>2. ASSUME NEW c \in Clients, ServerStep(c)
      PROVE  (IpcInv' /\ (Moves \/ Rests)) \/ Accept(c)
  BY <1>2, ReceiveMessageStep, ReceivePayloadStep, EofStep, WriteableStep, TimeoutStep DEF ServerStep
<1>3. ASSUME NEW c \in Clients, ClientStep(c)
      PROVE  (IpcInv' /\ (Moves \/ Rests)) \/ Read(c)
  BY <1>3, ConnectStep, HangUpStep, AskStep DEF ClientStep
<1>4. ASSUME NEW event \in Events, StateChanges(event)
      PROVE  IpcInv' /\ Moves
  BY <1>4, StateChangesStep
<1>5. QED
  BY <1>1, <1>2, <1>3, <1>4 DEF IpcNext

LEMMA InvHolds == IpcInv /\ [IpcNext]_ipcVars => IpcInv'
<1> SUFFICES ASSUME IpcInv, [IpcNext]_ipcVars PROVE IpcInv'
  OBVIOUS
<1>1. CASE \E c \in Clients : Accept(c) \/ Read(c)
  BY <1>1, AcceptStep, ReadStep
<1>2. CASE StartAgain
  BY <1>2, StartAgainStep
<1>3. QED
  BY <1>1, <1>2, OtherSteps

LEMMA InvAlways == IpcSpec => []IpcInv
<1>1. IpcInit => IpcInv
  BY InitHolds
<1>2. IpcInv /\ [IpcNext]_ipcVars => IpcInv'
  BY InvHolds
<1>3. QED
  BY <1>1, <1>2, PTL DEF IpcSpec

-----------------------------------------------------------------------------
(* What the clients may rely on *)

LEMMA StreamIs ==
    ASSUME IpcInv, NEW c \in Clients
    PROVE  /\ Stream(c) = got[c] \o Way(conn[c]) /\ Stream(c) \in Seq(Piece)
           /\ got[c] \in Seq(Piece) /\ Way(conn[c]) \in Seq(Piece)
           /\ DOMAIN Stream(c) = 1 .. Len(Stream(c)) /\ Len(Stream(c)) \in Nat
<1>1. got[c] \in Seq(Piece) /\ conn[c] \in Conns
  BY DEF IpcInv, ConnInv, Typed
<1>2. Way(conn[c]) \in Seq(Piece)
  BY <1>1, WayIsSeq
<1>3. Stream(c) = got[c] \o Way(conn[c])
  BY DEF Stream, OnTheWay, Way
<1>4. got[c] \o Way(conn[c]) \in Seq(Piece)
  BY <1>1, <1>2, PiecesJoin, Zenon
<1>5. QED
  BY <1>1, <1>2, <1>3, <1>4, LenProperties

LEMMA InvTypeOK == IpcInv => IpcTypeOK
<1> SUFFICES ASSUME IpcInv PROVE IpcTypeOK
  OBVIOUS
<1>1. /\ up \in {"running", "exec", "exited"} /\ carried \in Clients \cup {None}
      /\ busy \in Clients \cup {None} /\ clients \subseteq Clients
  BY DEF IpcInv, ConnInv, Typed, RestInv
<1>2. ASSUME NEW c \in Clients
      PROVE  /\ Len(conn[c].sock) <= Room
             /\ c \in clients => conn[c].link \in {"open", "hup"}
             /\ c \notin clients => conn[c] = [NoConn EXCEPT !.sock = conn[c].sock, !.link = conn[c].link]
             /\ conn[c].link # "hup" => (conn[c].writing <=> conn[c].buffer # <<>>)
             /\ conn[c].timer <=> conn[c].writing
  <2>1. Side(conn[c], got[c], world, NeverCarried(c), c \in clients)
    BY DEF IpcInv, ConnInv, ClientOK
  <2>2. ConnOK(conn[c])
    BY <2>1 DEF Side
  <2>3. c \in clients => conn[c].link \in {"open", "hup"}
    BY <2>1 DEF Side, Live, Core
  <2>4. c \notin clients => conn[c] = [NoConn EXCEPT !.sock = conn[c].sock, !.link = conn[c].link]
    BY <2>1 DEF Side
  <2>5. QED
    BY <2>2, <2>3, <2>4 DEF ConnOK
<1>3. QED
  BY <1>1, <1>2 DEF IpcTypeOK

LEMMA InvWhole == IpcInv => MessagesAreWhole
<1> SUFFICES ASSUME IpcInv, NEW c \in Clients, NeverCarried(c), c \in clients,
                    NEW i \in DOMAIN Stream(c)
             PROVE  /\ Stream(c)[i].part = 1 <=> i % 2 = 1
                    /\ Stream(c)[i].part = 2 => Stream(c)[i - 1].msg = Stream(c)[i].msg
  BY DEF MessagesAreWhole
<1>1. Side(conn[c], got[c], world, NeverCarried(c), c \in clients)
  BY DEF IpcInv, ConnInv, ClientOK
<1>2. Alternates(Stream(c))
  BY <1>1, StreamIs DEF Side, Live, Core
<1>3. QED
  BY <1>2, StreamIs DEF Alternates

LEMMA InvChronological == IpcInv => Chronological
<1> SUFFICES ASSUME IpcInv, NEW c \in Clients,
                    NEW i \in DOMAIN Stream(c), NEW j \in DOMAIN Stream(c), i < j,
                    NEW p \in DOMAIN Stream(c)[i].msg.at \cap DOMAIN Stream(c)[j].msg.at
             PROVE  Stream(c)[i].msg.at[p] <= Stream(c)[j].msg.at[p]
  BY DEF Chronological
<1>1. Side(conn[c], got[c], world, NeverCarried(c), c \in clients)
  BY DEF IpcInv, ConnInv, ClientOK
<1>2. Chron(Stream(c), world)
  BY <1>1, StreamIs DEF Side
<1>3. QED
  BY <1>2, StreamIs DEF Chron

LEMMA AtMostOne ==
    ASSUME NEW T, \A i, j \in T : i = j
    PROVE  Cardinality(T) <= 1
<1>1. CASE T = {}
  BY <1>1, FS_EmptySet
<1>2. CASE T # {}
  <2>1. PICK i \in T : TRUE
    BY <1>2
  <2>2. T = {i}
    BY <2>1
  <2>3. Cardinality(T) = 1
    BY <2>2, FS_Singleton
  <2>4. QED
    BY <2>3
<1>3. QED
  BY <1>1, <1>2

LEMMA InvFirstTick == IpcInv => FirstTickFirst
<1> SUFFICES ASSUME IpcInv, NEW c \in Clients, NeverCarried(c)
             PROVE  LET s == Stream(c)
                        Starts(kind) == {i \in DOMAIN s : s[i].part = 1 /\ s[i].msg.kind = kind}
                    IN  /\ Cardinality(Starts("first_tick")) <= 1
                        /\ Starts("subscribe_failed") = {} =>
                              \A i \in Starts("tick") : \E j \in Starts("first_tick") : j < i
  BY DEF FirstTickFirst
<1> DEFINE s == Stream(c)
           Starts(kind) == {i \in DOMAIN s : s[i].part = 1 /\ s[i].msg.kind = kind}
<1>1. \A kind : Starts(kind) = Begins(s, kind)
  BY StreamIs DEF Begins
<1>2. Side(conn[c], got[c], world, NeverCarried(c), c \in clients)
  BY DEF IpcInv, ConnInv, ClientOK
<1>3. Ticks(s)
  BY <1>2, StreamIs DEF Side
<1> HIDE DEF Starts
<1>4. Cardinality(Starts("first_tick")) <= 1
  BY <1>1, <1>3, AtMostOne DEF Ticks
<1>5. Starts("subscribe_failed") = {} =>
         \A i \in Starts("tick") : \E j \in Starts("first_tick") : j < i
  BY <1>1, <1>3 DEF Ticks
<1>6. QED
  BY <1>4, <1>5 DEF Starts

-----------------------------------------------------------------------------
(* Requests and their replies *)

Reqs == QuietAsks \cup CommandAsks

\* The stream s answers each of the requests that call for a reply.
Answered(s, requests) ==
    \E answer \in [RepliesOn(s) -> Answerable(requests)] :
        /\ Answers(answer, s, requests)
        /\ \A k \in Answerable(requests) : \E i \in RepliesOn(s) : answer[i] = k

LEMMA ReplyKinds ==
    /\ DOMAIN ReplyKind = {"get_tree", "get_workspaces", "get_outputs", "get_marks", "get_version",
                           "get_bar_config", "get_binding_modes", "get_config", "get_binding_state",
                           "get_aiwr_status", "subscribe_tree", "subscribe_tick", "subscribe_broken", "slow",
                           "send_tick", "sync", "sync_broken", "run_command", "reload", "restart"}
    /\ \A r \in DOMAIN ReplyKind : r \in Reqs /\ ReplyKind[r] \notin EventKinds
  BY DEF ReplyKind, EventKinds, EventOf, Reqs, QuietAsks, CommandAsks

LEMMA RepliesFollow ==
    ASSUME NEW s, NEW m, NEW t, Follows(s, m, t)
    PROVE  /\ RepliesOn(t) = IF m.kind \in EventKinds THEN RepliesOn(s) ELSE RepliesOn(s) \cup {Len(s) + 1}
           /\ \A i \in RepliesOn(s) : i \in 1 .. Len(s) /\ t[i] = s[i]
           /\ Len(s) \in Nat /\ t[Len(s) + 1].msg = m
<1> DEFINE n == Len(s)
<1>1. /\ n \in Nat /\ Len(t) = n + 2 /\ DOMAIN s = 1 .. n /\ DOMAIN t = 1 .. n + 2
      /\ \A i \in 1 .. n : t[i] = s[i]
      /\ t[n + 1] = [msg |-> m, part |-> 1] /\ t[n + 2] = [msg |-> m, part |-> 2]
  BY LenProperties DEF Follows
<1> HIDE DEF n
<1>2. t[n + 1].part = 1 /\ t[n + 1].msg = m /\ t[n + 2].part = 2
  BY <1>1
<1>3. \A i : i \in 1 .. n + 2 <=> i \in 1 .. n \/ i = n + 1 \/ i = n + 2
  BY <1>1
<1>4. n + 1 \notin 1 .. n
  BY <1>1
<1>5. \A i : i \in RepliesOn(t) <=> i \in RepliesOn(s) \/ (i = n + 1 /\ m.kind \notin EventKinds)
  BY <1>1, <1>2, <1>3, <1>4 DEF RepliesOn
<1>6. \A i \in RepliesOn(s) : i \in 1 .. n /\ t[i] = s[i]
  BY <1>1 DEF RepliesOn
<1>7. QED
  BY <1>1, <1>2, <1>5, <1>6 DEF n

LEMMA EventAnswers ==
    ASSUME NEW s, NEW m, NEW t, Follows(s, m, t), m.kind \in EventKinds, NEW a, Answered(s, a)
    PROVE  Answered(t, a)
<1>1. RepliesOn(t) = RepliesOn(s) /\ \A i \in RepliesOn(s) : t[i] = s[i]
  BY RepliesFollow
<1>2. PICK f \in [RepliesOn(s) -> Answerable(a)] :
         Answers(f, s, a) /\ \A k \in Answerable(a) : \E i \in RepliesOn(s) : f[i] = k
  BY DEF Answered
<1>3. Answers(f, t, a)
  BY <1>1, <1>2 DEF Answers
<1>4. QED
  BY <1>1, <1>2, <1>3 DEF Answered

LEMMA AppendsTo ==
    ASSUME NEW a \in Seq(Reqs), NEW r \in Reqs
    PROVE  /\ Append(a, r) \in Seq(Reqs) /\ Len(a) \in Nat /\ Append(a, r)[Len(a) + 1] = r
           /\ \A k \in Answerable(a) : k \in 1 .. Len(a) /\ Append(a, r)[k] = a[k]
           /\ Answerable(Append(a, r)) = IF r \in DOMAIN ReplyKind THEN Answerable(a) \cup {Len(a) + 1}
                                         ELSE Answerable(a)
<1> DEFINE n == Len(a)
           b == Append(a, r)
<1>1. /\ b \in Seq(Reqs) /\ Len(b) = n + 1 /\ b[n + 1] = r /\ n \in Nat
      /\ \A k \in 1 .. n : b[k] = a[k]
  BY AppendProperties, LenProperties
<1>2. DOMAIN a = 1 .. n /\ DOMAIN b = 1 .. n + 1
  BY <1>1, LenProperties
<1> HIDE DEF n, b
<1>3. \A k : k \in 1 .. n + 1 <=> k \in 1 .. n \/ k = n + 1
  BY <1>1
<1>4. n + 1 \notin 1 .. n
  BY <1>1
<1>5. \A k : k \in Answerable(b) <=> k \in Answerable(a) \/ (k = n + 1 /\ r \in DOMAIN ReplyKind)
  BY <1>1, <1>2, <1>3, <1>4 DEF Answerable
<1>6. \A k \in Answerable(a) : k \in 1 .. n /\ b[k] = a[k]
  BY <1>1, <1>2 DEF Answerable
<1>7. QED
  BY <1>1, <1>5, <1>6 DEF n, b

LEMMA UnansweredAnswers ==
    ASSUME NEW s, NEW a \in Seq(Reqs), NEW r \in Reqs, r \notin DOMAIN ReplyKind, Answered(s, a)
    PROVE  Answered(s, Append(a, r))
<1> DEFINE b == Append(a, r)
<1>1. Answerable(b) = Answerable(a) /\ \A k \in Answerable(a) : b[k] = a[k]
  BY AppendsTo
<1> HIDE DEF b
<1>2. PICK f \in [RepliesOn(s) -> Answerable(a)] :
         Answers(f, s, a) /\ \A k \in Answerable(a) : \E i \in RepliesOn(s) : f[i] = k
  BY DEF Answered
<1>3. Answers(f, s, b)
  <2>1. \A i \in RepliesOn(s) : f[i] \in Answerable(a)
    BY <1>2
  <2>2. QED
    BY <1>1, <1>2, <2>1 DEF Answers
<1>4. QED
  BY <1>1, <1>2, <1>3 DEF Answered, b

LEMMA ReplyAnswers ==
    ASSUME NEW s, NEW m, NEW t, Follows(s, m, t), NEW a \in Seq(Reqs), Answered(s, a),
           NEW r \in DOMAIN ReplyKind, ReplyKind[r] = m.kind
    PROVE  Answered(t, Append(a, r))
<1> DEFINE n == Len(s)
           l == Len(a)
           b == Append(a, r)
<1>1. r \in Reqs /\ m.kind \notin EventKinds
  BY ReplyKinds
<1>2. /\ RepliesOn(t) = RepliesOn(s) \cup {n + 1} /\ n \in Nat /\ t[n + 1].msg = m
      /\ \A i \in RepliesOn(s) : i \in 1 .. n /\ t[i] = s[i]
  BY <1>1, RepliesFollow
<1>3. /\ Answerable(b) = Answerable(a) \cup {l + 1} /\ l \in Nat /\ b[l + 1] = r
      /\ \A k \in Answerable(a) : k \in 1 .. l /\ b[k] = a[k]
  BY <1>1, AppendsTo
<1> HIDE DEF n, l, b
<1>4. PICK f \in [RepliesOn(s) -> Answerable(a)] :
         Answers(f, s, a) /\ \A k \in Answerable(a) : \E i \in RepliesOn(s) : f[i] = k
  BY DEF Answered
<1> DEFINE h == [i \in RepliesOn(t) |-> IF i = n + 1 THEN l + 1 ELSE f[i]]
<1>5. /\ h \in [RepliesOn(t) -> Answerable(b)] /\ n + 1 \in RepliesOn(t) /\ h[n + 1] = l + 1
      /\ \A i \in RepliesOn(s) : i # n + 1 /\ i < n + 1 /\ i \in Nat /\ i \in RepliesOn(t)
                                 /\ h[i] = f[i] /\ f[i] \in Answerable(a)
  BY <1>2, <1>3, <1>4
<1> HIDE DEF h
<1>6. \A k \in Answerable(a) : k \in Nat /\ k < l + 1
  BY <1>3
<1>7. ASSUME NEW i \in RepliesOn(t), NEW j \in RepliesOn(t), i < j PROVE h[i] < h[j]
  <2>1. i \in RepliesOn(s)
    BY <1>2, <1>5, <1>7
  <2>2. CASE j \in RepliesOn(s)
    BY <1>4, <1>5, <1>7, <2>1, <2>2 DEF Answers
  <2>3. CASE j = n + 1
    BY <1>5, <1>6, <2>1, <2>3
  <2>4. QED
    BY <1>2, <2>2, <2>3
<1>8. ASSUME NEW i \in RepliesOn(t) PROVE t[i].msg.kind = ReplyKind[b[h[i]]]
  <2>1. CASE i \in RepliesOn(s)
    BY <1>2, <1>3, <1>4, <1>5, <2>1 DEF Answers
  <2>2. CASE i = n + 1
    BY <1>2, <1>3, <1>5, <2>2
  <2>3. QED
    BY <1>2, <2>1, <2>2
<1>9. ASSUME NEW k \in Answerable(b) PROVE \E i \in RepliesOn(t) : h[i] = k
  BY <1>3, <1>4, <1>5
<1>10. Answers(h, t, b)
  BY <1>7, <1>8, <1>9 DEF Answers
<1>11. QED
  BY <1>5, <1>9, <1>10 DEF Answered, b

\* A stream that is cut, with requests that came after the answers
LEMMA CutAnswers ==
    ASSUME NEW s \in Seq(Piece), NEW t \in Seq(Piece), IsPrefix(s, t),
           NEW a \in Seq(Reqs), NEW b \in Seq(Reqs), IsPrefix(b, a), Answered(t, b)
    PROVE  \E answer \in [RepliesOn(s) -> Answerable(a)] : Answers(answer, s, a)
<1>1. /\ Len(s) \in Nat /\ Len(t) \in Nat /\ DOMAIN s = 1 .. Len(s) /\ DOMAIN t = 1 .. Len(t)
      /\ Len(s) <= Len(t) /\ \A i \in 1 .. Len(s) : s[i] = t[i]
  BY PrefixIs, LenProperties
<1>2. /\ Len(a) \in Nat /\ Len(b) \in Nat /\ DOMAIN a = 1 .. Len(a) /\ DOMAIN b = 1 .. Len(b)
      /\ Len(b) <= Len(a) /\ \A i \in 1 .. Len(b) : b[i] = a[i]
  BY PrefixIs, LenProperties
<1>3. \A i : i \in RepliesOn(s) <=> i \in RepliesOn(t) /\ i \in 1 .. Len(s)
  <2>1. \A i \in 1 .. Len(s) : i \in 1 .. Len(t) /\ s[i] = t[i]
    BY <1>1
  <2>2. QED
    BY <1>1, <2>1 DEF RepliesOn
<1>4. \A k : k \in Answerable(b) <=> k \in Answerable(a) /\ k \in 1 .. Len(b)
  <2>1. \A k \in 1 .. Len(b) : k \in 1 .. Len(a) /\ b[k] = a[k]
    BY <1>2
  <2>2. QED
    BY <1>2, <2>1 DEF Answerable
<1>5. PICK f \in [RepliesOn(t) -> Answerable(b)] :
         Answers(f, t, b) /\ \A k \in Answerable(b) : \E i \in RepliesOn(t) : f[i] = k
  BY DEF Answered
<1> DEFINE h == [i \in RepliesOn(s) |-> f[i]]
<1>6. \A i \in RepliesOn(s) : h[i] = f[i] /\ f[i] \in Answerable(b) /\ f[i] \in Answerable(a)
                              /\ f[i] \in 1 .. Len(b) /\ i \in RepliesOn(t) /\ i \in 1 .. Len(s)
  BY <1>3, <1>4, <1>5
<1>7. h \in [RepliesOn(s) -> Answerable(a)]
  BY <1>6
<1> HIDE DEF h
<1>8. \A i, j \in RepliesOn(s) : i < j => h[i] < h[j]
  BY <1>5, <1>6 DEF Answers
<1>9. ASSUME NEW i \in RepliesOn(s) PROVE s[i].msg.kind = ReplyKind[a[h[i]]]
  <2>1. t[i].msg.kind = ReplyKind[b[f[i]]]
    BY <1>5, <1>6 DEF Answers
  <2>2. s[i] = t[i] /\ b[f[i]] = a[f[i]]
    BY <1>1, <1>2, <1>6
  <2>3. QED
    BY <1>6, <2>1, <2>2
<1>10. ASSUME NEW i \in RepliesOn(s), NEW k \in Answerable(a), k < h[i]
       PROVE  \E j \in RepliesOn(s) : h[j] = k
  <2>1. k \in 1 .. Len(a)
    BY <1>2 DEF Answerable
  <2>2. k \in 1 .. Len(b) /\ k < f[i] /\ f[i] \in Nat
    BY <1>2, <1>6, <1>10, <2>1
  <2>3. k \in Answerable(b)
    BY <1>4, <2>2
  <2>4. PICK j \in RepliesOn(t) : f[j] = k
    BY <1>5, <2>3
  <2>5. j \in 1 .. Len(t) /\ i \in 1 .. Len(s) /\ i \in RepliesOn(t)
    BY <1>1, <1>6 DEF RepliesOn
  <2>6. ~(i < j)
    <3>1. i < j => f[i] < f[j]
      BY <1>5, <2>5 DEF Answers
    <3>2. QED
      BY <2>1, <2>2, <2>4, <3>1
  <2>7. j \in 1 .. Len(s)
    BY <1>1, <2>5, <2>6
  <2>8. j \in RepliesOn(s)
    BY <1>3, <2>7
  <2>9. QED
    BY <1>6, <2>4, <2>8
<1>11. QED
  BY <1>7, <1>8, <1>9, <1>10 DEF Answers
\* From the connection k to p the client got no reply, or the one to the request r.
Silent(k, p) ==
    /\ p.link = k.link
    /\ \A g \in Seq(Piece), a \in Seq(Reqs) : Answered(g \o Way(k), a) => Answered(g \o Way(p), a)
Replied(k, p, r) ==
    /\ p.link = k.link
    /\ \A g \in Seq(Piece), a \in Seq(Reqs) : Answered(g \o Way(k), a) => Answered(g \o Way(p), Append(a, r))

LEMMA SilentThenReplied ==
    \A k, p, q, r : /\ Silent(k, p) /\ Silent(p, q) => Silent(k, q)
                    /\ Silent(k, p) /\ Replied(p, q, r) => Replied(k, q, r)
  BY DEF Silent, Replied

LEMMA RepliedThenSilent ==
    ASSUME NEW k, NEW p, NEW q, NEW r \in Reqs, Replied(k, p, r), Silent(p, q)
    PROVE  Replied(k, q, r)
  BY AppendsTo DEF Silent, Replied

LEMMA SendFollows ==
    ASSUME NEW k, ConnOK(k), NEW m \in Msgs, NEW g \in Seq(Piece)
    PROVE  Follows(g \o Way(k), m, g \o Way(SendTo(k, m)))
<1> DEFINE p == SendTo(k, m)
<1>1. k \in Conns /\ Way(p) = Way(k) \o Pieces(m)
  BY SendGrows DEF ConnOK
<1> HIDE DEF p
<1>2. Way(k) \in Seq(Piece) /\ Pieces(m) \in Seq(Piece)
  BY <1>1, WayIsSeq, PiecesOf
<1>3. g \o Way(k) \in Seq(Piece) /\ (g \o Way(k)) \o Pieces(m) = g \o (Way(k) \o Pieces(m))
  BY <1>2, PiecesJoin, Zenon
<1>4. Follows(g \o Way(k), m, (g \o Way(k)) \o Pieces(m))
  BY <1>3, MessageFollows
<1>5. QED
  BY <1>1, <1>3, <1>4 DEF p

LEMMA SendSays ==
    ASSUME NEW k, ConnOK(k), NEW m \in Msgs
    PROVE  /\ ConnOK(SendTo(k, m))
           /\ m.kind \in EventKinds => Silent(k, SendTo(k, m))
           /\ \A r \in DOMAIN ReplyKind : ReplyKind[r] = m.kind => Replied(k, SendTo(k, m), r)
<1>1. ConnOK(SendTo(k, m)) /\ SendTo(k, m).link = k.link
  BY SendGrows DEF SameSide
<1>2. ASSUME m.kind \in EventKinds PROVE Silent(k, SendTo(k, m))
  BY <1>1, <1>2, SendFollows, EventAnswers DEF Silent
<1>3. ASSUME NEW r \in DOMAIN ReplyKind, ReplyKind[r] = m.kind PROVE Replied(k, SendTo(k, m), r)
  BY <1>1, <1>3, SendFollows, ReplyAnswers DEF Replied
<1>4. QED
  BY <1>1, <1>2, <1>3

\* Events are no replies.
LEMMA EventsSilent ==
    ASSUME NEW ks, \A d \in Clients : ConnOK(ks[d]), NEW event, NEW m \in Msgs, m.kind \in EventKinds
    PROVE  \A d \in Clients : ConnOK(SendEvent(ks, event, m)[d]) /\ Silent(ks[d], SendEvent(ks, event, m)[d])
<1>1. \A d \in Clients : SendEvent(ks, event, m)[d] \in {SendTo(ks[d], m), ks[d]}
  BY DEF SendEvent
<1>2. \A k : Silent(k, k)
  BY DEF Silent
<1>3. QED
  BY <1>1, <1>2, SendSays

\* From conn to ks one client gets one reply.
OneReply(ks, c, r) == Replied(conn[c], ks[c], r) /\ \A d \in Clients \ {c} : Silent(conn[d], ks[d])

LEMMA ReplyIsOne ==
    ASSUME NEW ks, DOMAIN ks = Clients, NEW c \in Clients, NEW m \in Msgs,
           \A d \in Clients : ConnOK(ks[d]) /\ Silent(conn[d], ks[d]),
           NEW r \in DOMAIN ReplyKind, ReplyKind[r] = m.kind
    PROVE  OneReply([ks EXCEPT ![c] = SendTo(@, m)], c, r)
<1> DEFINE new == [ks EXCEPT ![c] = SendTo(@, m)]
<1>1. new[c] = SendTo(ks[c], m) /\ \A d \in Clients \ {c} : new[d] = ks[d]
  OBVIOUS
<1>2. Replied(ks[c], SendTo(ks[c], m), r)
  BY SendSays
<1> HIDE DEF new
<1>3. Replied(conn[c], new[c], r)
  BY <1>1, <1>2, SilentThenReplied
<1>4. QED
  BY <1>1, <1>3 DEF OneReply, new

LEMMA ConnsOK ==
    ASSUME IpcInv
    PROVE  DOMAIN conn = Clients /\ \A d \in Clients : ConnOK(conn[d]) /\ Silent(conn[d], conn[d])
<1>1. \A d \in Clients : ConnOK(conn[d])
  BY DEF IpcInv, ConnInv, ClientOK, Side
<1>2. QED
  BY <1>1 DEF IpcInv, ConnInv, Typed, Silent

LEMMA SubscribeReplies ==
    ASSUME IpcInv, NEW c \in Clients, NEW events \in SUBSET EventNames, NEW parses \in BOOLEAN,
           NEW r \in DOMAIN ReplyKind, ReplyKind[r] = IF parses THEN "subscribe" ELSE "subscribe_failed"
    PROVE  OneReply(Subscribe(c, events, parses), c, r)
<1> DEFINE k == conn[c]
           E == k.events \cup events
           added == [k EXCEPT !.events = E]
           m == Message(IF parses THEN "subscribe" ELSE "subscribe_failed", Nothing)
           replied == SendTo(added, m)
           flagged == [replied EXCEPT !.firstTick = TRUE]
           q == IF parses /\ ~added.firstTick /\ "tick" \in added.events
                THEN SendTo(flagged, FirstTick) ELSE replied
<1>1. DOMAIN conn = Clients /\ ConnOK(k) /\ \A d \in Clients : Silent(conn[d], conn[d])
  BY ConnsOK
<1>2. Subscribe(c, events, parses) = [conn EXCEPT ![c] = q]
  BY DEF Subscribe, AddSubscriptions
<1>3. E \in SUBSET EventNames
  BY <1>1 DEF ConnOK, Conns
<1>4. m \in Msgs /\ m.kind = (IF parses THEN "subscribe" ELSE "subscribe_failed")
      /\ FirstTick \in Msgs /\ FirstTick.kind \in EventKinds
  <2>1. "subscribe" \in Kinds /\ "subscribe_failed" \in Kinds /\ "first_tick" \in Kinds
    BY DEF Kinds
  <2>2. \A kind \in Kinds : Message(kind, Nothing) \in Msgs /\ Message(kind, Nothing).kind = kind
    BY EmptyNews DEF Fresh
  <2>3. FirstTick \in Msgs /\ FirstTick.kind = "first_tick"
    BY <2>1, <2>2, Zenon DEF FirstTick
  <2>4. (IF parses THEN "subscribe" ELSE "subscribe_failed") \in Kinds
    BY <2>1
  <2>5. QED
    BY <2>2, <2>3, <2>4 DEF EventKinds
<1> HIDE DEF E, m
<1>5. ConnOK(added) /\ Way(added) = Way(k) /\ added.link = k.link
  BY <1>1, <1>3, SideKeeps
<1> HIDE DEF added
<1>6. ConnOK(replied) /\ Replied(added, replied, r)
  BY <1>4, <1>5, SendSays
<1> HIDE DEF replied
<1>7. ConnOK(flagged) /\ Way(flagged) = Way(replied) /\ flagged.link = replied.link
  BY <1>6, SideKeeps
<1> HIDE DEF flagged
<1>8. Silent(flagged, SendTo(flagged, FirstTick))
  BY <1>4, <1>7, SendSays
<1>9. Silent(k, added) /\ Silent(replied, flagged)
  BY <1>5, <1>7 DEF Silent
<1>10. r \in Reqs
  BY ReplyKinds
<1>11. Replied(k, replied, r)
  BY <1>6, <1>9, SilentThenReplied
<1>12. Replied(k, SendTo(flagged, FirstTick), r)
  BY <1>8, <1>9, <1>10, <1>11, RepliedThenSilent
<1>13. Replied(k, q, r)
  BY <1>11, <1>12
<1> HIDE DEF q
<1>14. QED
  BY <1>1, <1>2, <1>13 DEF OneReply

LEMMA HandledReplies ==
    ASSUME IpcInv, NEW c \in Clients, NEW request \in QuietAsks
    PROVE  OneReply(Handled(c, request), c, request)
<1>1. DOMAIN conn = Clients /\ \A d \in Clients : ConnOK(conn[d]) /\ Silent(conn[d], conn[d])
  BY ConnsOK
<1>2. world \in [Parts -> Nat]
  BY DEF IpcInv, ConnInv, Typed
<1>3. ASSUME NEW kind \in Kinds, NEW a, NewsAt(a, world), NEW r \in DOMAIN ReplyKind, ReplyKind[r] = kind
      PROVE  OneReply(Reply(c, Message(kind, a)), c, r)
  <2>1. Message(kind, a) \in Msgs /\ Message(kind, a).kind = kind
    BY <1>3, NewsFresh DEF Fresh
  <2>2. QED
    BY <1>1, <1>3, <2>1, ReplyIsOne DEF Reply
<1>4. {"tree", "workspaces", "outputs", "marks", "version", "bar_config", "binding_modes", "config",
       "binding_state", "aiwr_status", "send_tick", "sync", "sync_failed", "tick"} \subseteq Kinds
  BY DEF Kinds
<1>5. /\ NewsAt(NodeOf(world), world) /\ NewsAt(OutputsOf(world), world) /\ NewsAt(BarConfigOf(world), world)
      /\ NewsAt(BindingOf(world), world) /\ NewsAt(ModeOf(world), world) /\ NewsAt(Nothing, world)
      /\ NewsAt([config |-> world.config], world)
      /\ NewsAt([config |-> world.config, tree |-> world.tree], world)
  BY <1>2, DumpsAreNews
<1>6. CASE request \in {"get_tree", "get_workspaces", "get_outputs", "get_marks"}
  <2>1. /\ OneReply(GetTree(c), c, "get_tree") /\ OneReply(GetWorkspaces(c), c, "get_workspaces")
        /\ OneReply(GetOutputs(c), c, "get_outputs") /\ OneReply(GetMarks(c), c, "get_marks")
    BY <1>3, <1>4, <1>5 DEF GetTree, GetWorkspaces, GetOutputs, GetMarks, ReplyKind
  <2>2. QED
    BY <1>6, <2>1 DEF Handled
<1>7. CASE request \in {"get_version", "get_bar_config", "get_config", "get_aiwr_status"}
  <2>1. /\ OneReply(GetVersion(c), c, "get_version") /\ OneReply(GetBarConfig(c), c, "get_bar_config")
        /\ OneReply(GetConfig(c), c, "get_config") /\ OneReply(GetAiwrStatus(c), c, "get_aiwr_status")
    BY <1>3, <1>4, <1>5 DEF GetVersion, GetBarConfig, GetConfig, GetAiwrStatus, ReplyKind
  <2>2. QED
    BY <1>7, <2>1 DEF Handled
<1>8. CASE request \in {"get_binding_modes", "get_binding_state"}
  <2>1. OneReply(GetBindingModes(c), c, "get_binding_modes") /\ OneReply(GetBindingState(c), c, "get_binding_state")
    BY <1>3, <1>4, <1>5 DEF GetBindingModes, GetBindingState, ReplyKind
  <2>2. QED
    BY <1>8, <2>1 DEF Handled
<1>9. CASE request \in {"sync", "sync_broken"}
  <2>1. OneReply(Sync(c, TRUE), c, "sync") /\ OneReply(Sync(c, FALSE), c, "sync_broken")
    BY <1>3, <1>4, <1>5 DEF Sync, ReplyKind
  <2>2. QED
    BY <1>9, <2>1 DEF Handled
<1>10. CASE request \in {"subscribe_tree", "subscribe_tick", "subscribe_broken"}
  <2>1. /\ {"workspace", "window", "shutdown"} \in SUBSET EventNames
        /\ {"tick", "output"} \in SUBSET EventNames /\ {"tick"} \in SUBSET EventNames
    BY DEF EventNames
  <2>2. /\ "subscribe_tree" \in DOMAIN ReplyKind /\ "subscribe_tick" \in DOMAIN ReplyKind
        /\ "subscribe_broken" \in DOMAIN ReplyKind /\ ReplyKind["subscribe_tree"] = "subscribe"
        /\ ReplyKind["subscribe_tick"] = "subscribe" /\ ReplyKind["subscribe_broken"] = "subscribe_failed"
    BY DEF ReplyKind
  <2>3. /\ OneReply(Subscribe(c, {"workspace", "window", "shutdown"}, TRUE), c, "subscribe_tree")
        /\ OneReply(Subscribe(c, {"tick", "output"}, TRUE), c, "subscribe_tick")
        /\ OneReply(Subscribe(c, {"tick"}, FALSE), c, "subscribe_broken")
    BY <2>1, <2>2, SubscribeReplies
  <2>4. QED
    BY <1>10, <2>3 DEF Handled
<1>11. CASE request = "send_tick"
  <2> DEFINE told == SendEvent(conn, "tick", TickEvent)
             m == Message("send_tick", Nothing)
  <2>1. TickEvent \in Msgs /\ TickEvent.kind \in EventKinds /\ m \in Msgs /\ m.kind = "send_tick"
    <3>1. \A kind \in Kinds : Message(kind, Nothing) \in Msgs /\ Message(kind, Nothing).kind = kind
      BY EmptyNews DEF Fresh
    <3>2. "tick" \in Kinds /\ "send_tick" \in Kinds
      BY DEF Kinds
    <3>3. TickEvent \in Msgs /\ TickEvent.kind = "tick" /\ m \in Msgs /\ m.kind = "send_tick"
      BY <3>1, <3>2, Zenon DEF TickEvent
    <3>4. QED
      BY <3>3 DEF EventKinds
  <2>2. \A d \in Clients : ConnOK(told[d]) /\ Silent(conn[d], told[d])
    BY <1>1, <2>1, EventsSilent
  <2>3. DOMAIN told = Clients
    BY DEF SendEvent
  <2>4. "send_tick" \in DOMAIN ReplyKind /\ ReplyKind["send_tick"] = "send_tick"
    BY DEF ReplyKind
  <2> HIDE DEF told, m
  <2>5. OneReply([told EXCEPT ![c] = SendTo(@, m)], c, "send_tick")
    BY <2>1, <2>2, <2>3, <2>4, ReplyIsOne
  <2>6. QED
    BY <1>11, <2>5 DEF Handled, SendTick, told, m
<1>12. CASE request = "unknown_type"
  <2>1. "unknown_type" \in Reqs /\ "unknown_type" \notin DOMAIN ReplyKind
    BY DEF Reqs, QuietAsks, ReplyKind
  <2>2. Replied(conn[c], conn[c], "unknown_type")
    BY <2>1, UnansweredAnswers DEF Replied
  <2>3. QED
    BY <1>1, <1>12, <2>2 DEF Handled, OneReply
<1>13. QED
  BY <1>6, <1>7, <1>8, <1>9, <1>10, <1>11, <1>12 DEF QuietAsks

LEMMA EventKind ==
    ASSUME NEW w \in [Parts -> Nat], NEW event \in DOMAIN EventOf
    PROVE  EventMessage(w)[event] \in Msgs /\ EventMessage(w)[event].kind \in EventKinds
<1>1. EventMessage(w)[event] \in Msgs
  BY EventMessages DEF Fresh
<1>2. EventMessage(w)[event].kind = event
  BY DEF EventOf, EventMessage, WorkspaceEvent, WindowEvent, OutputEvent, ModeEvent, BindingEvent,
         BarconfigUpdateEvent, Message
<1>3. QED
  BY <1>1, <1>2 DEF EventKinds

\* A command is answered after the events of what it does, whatever request it came with.
LEMMA CommandReplies ==
    ASSUME IpcInv, NEW c \in Clients, NEW request, RunCommand(c, request),
           NEW r \in DOMAIN ReplyKind, ReplyKind[r] = "command"
    PROVE  OneReply(conn', c, r)
<1> DEFINE event == IF request = "reload" THEN "barconfig_update" ELSE "workspace"
           part == EventOf[event]
           m == Message("command", Nothing)
<1>1. DOMAIN conn = Clients /\ \A d \in Clients : ConnOK(conn[d]) /\ Silent(conn[d], conn[d])
  BY ConnsOK
<1>2. world \in [Parts -> Nat]
  BY DEF IpcInv, ConnInv, Typed
<1>3. event \in DOMAIN EventOf /\ part \in Parts
  BY DEF EventOf, Parts
<1>4. m \in Msgs /\ m.kind = "command"
  <2>1. "command" \in Kinds
    BY DEF Kinds
  <2>2. QED
    BY <2>1, EmptyNews, Zenon DEF Fresh
<1> HIDE DEF event, part, m
<1>5. CASE world[part] < MaxVersion
  <2> DEFINE w == [world EXCEPT ![part] = @ + 1]
             told == SendEvent(conn, event, EventMessage(w)[event])
  <2>1. world' = w /\ conn' = [SendEvent(conn, event, EventMessage(world')[event]) EXCEPT ![c] = SendTo(@, m)]
    BY <1>5 DEF RunCommand, part, event, m
  <2>2. w \in [Parts -> Nat]
    BY <1>2, <1>3
  <2> HIDE DEF w
  <2>3. \A d \in Clients : ConnOK(told[d]) /\ Silent(conn[d], told[d])
    BY <1>1, <1>3, <2>2, EventKind, EventsSilent
  <2>4. DOMAIN told = Clients
    BY DEF SendEvent
  <2>5. conn' = [told EXCEPT ![c] = SendTo(@, m)]
    BY <2>1
  <2> HIDE DEF told
  <2>6. OneReply([told EXCEPT ![c] = SendTo(@, m)], c, r)
    BY <1>4, <2>3, <2>4, ReplyIsOne
  <2>7. QED
    BY <2>5, <2>6
<1>6. CASE ~(world[part] < MaxVersion)
  <2>1. conn' = [conn EXCEPT ![c] = SendTo(@, m)]
    BY <1>6 DEF RunCommand, Reply, part, event, m
  <2>2. OneReply([conn EXCEPT ![c] = SendTo(@, m)], c, r)
    BY <1>1, <1>4, ReplyIsOne
  <2>3. QED
    BY <2>1, <2>2
<1>7. QED
  BY <1>5, <1>6

\* A stream that was cut, some requests left without an answer
Ended(s, requests) ==
    \E t \in Seq(Piece), b \in Seq(Reqs) : IsPrefix(s, t) /\ IsPrefix(b, requests) /\ Answered(t, b)

\* The replies on a linked connection, on one whose payload i3 waits for, and on
\* one that is not linked
Due(s, requests, linked, waits) ==
    /\ linked /\ ~waits => Answered(s, requests)
    /\ linked /\ waits => \E b \in Seq(Reqs) : requests = Append(b, "slow") /\ Answered(s, b)
    /\ ~linked => Ended(s, requests)

RepliesInv ==
    \A c \in Clients :
        /\ conn[c].link \in {"none", "backlog"} => asked[c] = <<>>
        /\ NeverCarried(c) => Due(got[c] \o Way(conn[c]), asked[c], c \in clients, c = busy)

LEMMA AnsweredEnds ==
    ASSUME NEW g \in Seq(Piece), NEW s \in Seq(Piece), NEW t \in Seq(Piece), IsPrefix(s, t),
           NEW a \in Seq(Reqs), Answered(g \o t, a)
    PROVE  Ended(g \o s, a) /\ \A r \in Reqs : Ended(g \o s, Append(a, r))
<1>1. IsPrefix(g \o s, g \o t) /\ g \o t \in Seq(Piece)
  BY PrefixAfter, PiecesJoin
<1>2. IsPrefix(a, a)
  BY PrefixSelf
<1>3. ASSUME NEW r \in Reqs PROVE IsPrefix(a, Append(a, r))
  <2>1. <<r>> \in Seq(Reqs) /\ Append(a, r) = a \o <<r>>
    BY AppendIsConcat
  <2>2. QED
    BY <2>1, PrefixOfConcat
<1>4. QED
  BY <1>1, <1>2, <1>3 DEF Ended

LEMMA DueEnds ==
    ASSUME NEW g \in Seq(Piece), NEW s \in Seq(Piece), NEW t \in Seq(Piece), IsPrefix(s, t),
           NEW a \in Seq(Reqs), NEW waits \in BOOLEAN, Due(g \o t, a, TRUE, waits)
    PROVE  Ended(g \o s, a)
<1>1. CASE ~waits
  BY <1>1, AnsweredEnds DEF Due
<1>2. CASE waits
  <2>1. PICK b \in Seq(Reqs) : a = Append(b, "slow") /\ Answered(g \o t, b)
    BY <1>2 DEF Due
  <2>2. "slow" \in Reqs
    BY DEF Reqs, CommandAsks
  <2>3. QED
    BY <2>1, <2>2, AnsweredEnds
<1>3. QED
  BY <1>1, <1>2

LEMMA TypesOfInv ==
    ASSUME IpcInv
    PROVE  /\ clients \subseteq Clients /\ DOMAIN conn = Clients /\ DOMAIN asked = Clients
           /\ \A c \in Clients : /\ conn[c] \in Conns /\ ConnOK(conn[c]) /\ Way(conn[c]) \in Seq(Piece)
                                 /\ got[c] \in Seq(Piece) /\ asked[c] \in Seq(Reqs)
                                 /\ c \in clients => conn[c].link \in {"open", "hup"}
<1>1. \A c \in Clients : Side(conn[c], got[c], world, NeverCarried(c), c \in clients)
  BY DEF IpcInv, ConnInv, ClientOK
<1>2. Typed /\ asked \in [Clients -> Seq(Reqs)]
  BY DEF IpcInv, ConnInv, RestInv, Reqs
<1>3. \A c \in Clients : conn[c] \in Conns /\ Way(conn[c]) \in Seq(Piece)
  BY <1>2, WayIsSeq DEF Typed
<1>4. QED
  BY <1>1, <1>2, <1>3 DEF Typed, Side, Live, Core

\* Nothing that the invariant speaks of changes.
LEMMA RepliesRest ==
    ASSUME RepliesInv, UNCHANGED <<clients, busy, asked>>,
           \A c \in Clients : /\ got'[c] \o Way(conn'[c]) = got[c] \o Way(conn[c])
                              /\ conn'[c].link \in {"none", "backlog"} => conn[c].link \in {"none", "backlog"}
    PROVE  RepliesInv'
  BY DEF RepliesInv, NeverCarried

\* What one client asked is answered, or the others only got events.
LEMMA RepliesOne ==
    ASSUME IpcInv, RepliesInv, NEW c \in clients, UNCHANGED <<clients, got>>,
           NEW r \in Reqs, OneReply(conn', c, r),
           \A d \in Clients \ clients : Way(conn'[d]) = Way(conn[d]),
           \A d \in Clients \ {c} : asked'[d] = asked[d] /\ d # busy, busy' = None,
           NEW b \in Seq(Reqs), asked'[c] = Append(b, r),
           NeverCarried(c)' => Answered(got[c] \o Way(conn[c]), b)
    PROVE  RepliesInv'
<1>1. \A d \in Clients : got[d] \in Seq(Piece) /\ asked[d] \in Seq(Reqs)
  BY TypesOfInv
<1>2. c \in Clients /\ None \notin Clients /\ conn[c].link \in {"open", "hup"}
  BY TypesOfInv, IpcAssumption
<1>3. NeverCarried(c)' => Due(got'[c] \o Way(conn'[c]), asked'[c], TRUE, FALSE)
  BY <1>1, <1>2 DEF OneReply, Replied, Due
<1>4. ASSUME NEW d \in Clients \ {c}, NeverCarried(d)'
      PROVE  Due(got'[d] \o Way(conn'[d]), asked'[d], d \in clients, FALSE)
  <2>1. Due(got[d] \o Way(conn[d]), asked[d], d \in clients, FALSE)
    BY <1>4 DEF RepliesInv, NeverCarried
  <2>2. CASE d \in clients
    BY <1>1, <2>1, <2>2 DEF OneReply, Silent, Due
  <2>3. CASE d \notin clients
    BY <2>1, <2>3 DEF Due
  <2>4. QED
    BY <2>2, <2>3
<1>5. ASSUME NEW d \in Clients, conn'[d].link \in {"none", "backlog"} PROVE asked'[d] = <<>>
  <2>1. conn'[d].link = conn[d].link
    BY DEF OneReply, Silent, Replied
  <2>2. d # c
    BY <1>2, <1>5, <2>1
  <2>3. QED
    BY <1>5, <2>1, <2>2 DEF RepliesInv
<1>6. ASSUME NEW d \in Clients, NeverCarried(d)'
      PROVE  Due(got'[d] \o Way(conn'[d]), asked'[d], d \in clients', d = busy')
  BY <1>2, <1>3, <1>4, <1>6 DEF Due
<1>7. QED
  BY <1>5, <1>6 DEF RepliesInv

LEMMA FreedLink ==
    ASSUME NEW k, NEW kept, k.link \notin {"none", "backlog"}
    PROVE  Freed(k, kept).link \notin {"none", "backlog"}
  BY DEF Freed, NoConn

\* Everybody is cut off, after an event.
LEMMA RepliesShutdown ==
    ASSUME IpcInv, RepliesInv, NEW reason \in {"restart", "exit"}, NEW exempt, NEW c \in clients,
           conn' = Shutdown(conn, reason, exempt), clients' = {}, UNCHANGED got, busy = None, Moves,
           NEW r \in Reqs, asked' = [asked EXCEPT ![c] = Append(@, r)],
           \A d \in Clients : NeverCarried(d)' => NeverCarried(d)
    PROVE  RepliesInv'
<1> DEFINE m == ShutdownEvent(reason)
           told == SendEvent(conn, "shutdown", m)
<1>1. /\ clients \subseteq Clients /\ None \notin Clients /\ DOMAIN asked = Clients
      /\ \A d \in Clients : /\ conn[d] \in Conns /\ ConnOK(conn[d]) /\ Way(conn[d]) \in Seq(Piece)
                            /\ got[d] \in Seq(Piece) /\ asked[d] \in Seq(Reqs)
                            /\ d \in clients => conn[d].link \in {"open", "hup"}
  BY TypesOfInv, IpcAssumption
<1>2. m \in Msgs /\ m.kind \in EventKinds
  <2>1. reason \in Kinds
    BY DEF Kinds
  <2>2. m \in Msgs /\ m.kind = reason
    BY <2>1, EmptyNews, Zenon DEF ShutdownEvent, Fresh
  <2>3. QED
    BY <2>2 DEF EventKinds
<1> HIDE DEF m
<1>3. \A d \in Clients : ConnOK(told[d]) /\ Silent(conn[d], told[d])
  BY <1>1, <1>2, EventsSilent
<1>4. \A d \in Clients : conn'[d] = IF d \in clients THEN Freed(told[d], d = exempt)
                                    ELSE IF told[d].link = "backlog" THEN Freed(told[d], FALSE) ELSE told[d]
  BY DEF Shutdown, told, m
<1> HIDE DEF told
<1>5. \A d \in Clients : d # c => asked'[d] = asked[d]
  BY <1>1
<1>6. asked'[c] = Append(asked[c], r)
  BY <1>1
<1>7. ASSUME NEW d \in Clients, conn'[d].link \in {"none", "backlog"} PROVE asked'[d] = <<>>
  <2>1. told[d].link = conn[d].link
    BY <1>3 DEF Silent
  <2>2. conn[d].link \in {"none", "backlog"}
    <3>1. CASE told[d].link \in {"none", "backlog"}
      BY <2>1, <3>1
    <3>2. CASE told[d].link \notin {"none", "backlog"} /\ d \in clients
      <4>1. conn'[d] = Freed(told[d], d = exempt)
        BY <1>4, <3>2
      <4>2. QED
        BY <1>7, <3>2, <4>1, FreedLink
    <3>3. CASE told[d].link \notin {"none", "backlog"} /\ d \notin clients
      <4>1. conn'[d] = told[d]
        BY <1>4, <3>3
      <4>2. QED
        BY <1>7, <3>3, <4>1
    <3>4. QED
      BY <3>1, <3>2, <3>3
  <2>3. d # c
    BY <1>1, <2>2
  <2>4. QED
    BY <1>5, <2>2, <2>3 DEF RepliesInv
<1>8. ASSUME NEW d \in Clients, NeverCarried(d)' PROVE Ended(got'[d] \o Way(conn'[d]), asked'[d])
  <2>1. Due(got[d] \o Way(conn[d]), asked[d], d \in clients, d = busy)
    BY <1>8 DEF RepliesInv
  <2>2. CASE d \in clients
    <3>1. Answered(got[d] \o Way(conn[d]), asked[d])
      BY <1>1, <2>1, <2>2 DEF Due
    <3>2. Answered(got[d] \o Way(told[d]), asked[d])
      BY <1>1, <1>3, <3>1 DEF Silent
    <3>3. conn'[d] = Freed(told[d], d = exempt) /\ told[d].link \in {"open", "hup"}
      BY <1>1, <1>3, <1>4, <2>2 DEF Silent
    <3>4. /\ Way(conn'[d]) \in Seq(Piece) /\ Way(told[d]) \in Seq(Piece)
          /\ IsPrefix(Way(conn'[d]), Way(told[d]))
      BY <1>3, <3>3, FreedCuts
    <3>5. Ended(got[d] \o Way(conn'[d]), asked[d]) /\ Ended(got[d] \o Way(conn'[d]), Append(asked[d], r))
      BY <1>1, <3>2, <3>4, AnsweredEnds
    <3>6. QED
      BY <1>5, <1>6, <3>5
  <2>3. CASE d \notin clients
    <3>1. Way(conn'[d]) = Way(conn[d]) /\ d # c
      BY <2>3 DEF Moves
    <3>2. QED
      BY <1>5, <2>1, <2>3, <3>1 DEF Due
  <2>4. QED
    BY <2>2, <2>3
<1>9. QED
  BY <1>7, <1>8 DEF RepliesInv, Due

LEMMA ReceiveMessageReplies ==
    ASSUME IpcInv, RepliesInv, NEW c \in Clients, ReceiveMessage(c)
    PROVE  RepliesInv'
<1> DEFINE r == Head(ask[c])
<1>1. Moves
  BY ReceiveMessageStep
<1>2. busy = None /\ c \in clients /\ ask[c] # <<>> /\ UNCHANGED got /\ ask[c] \in Seq(Reqs)
  BY DEF ReceiveMessage, IpcInv, RestInv, Reqs
<1>3. r \in Reqs
  BY <1>2, HeadTailProperties
<1>4. /\ clients \subseteq Clients /\ None \notin Clients /\ DOMAIN asked = Clients
      /\ conn[c].link \in {"open", "hup"} /\ \A d \in Clients : asked[d] \in Seq(Reqs)
  BY <1>2, TypesOfInv, IpcAssumption
<1>5. asked' = [asked EXCEPT ![c] = Append(@, r)]
  BY DEF ReceiveMessage
<1>6. \A d \in Clients : NeverCarried(d)' => NeverCarried(d)
  <2>1. asked \in [Clients -> Seq(QuietAsks \cup CommandAsks)]
    BY DEF IpcInv, RestInv
  <2> HIDE DEF r
  <2>2. QED
    BY <1>3, <1>5, <2>1, AskedMore DEF Reqs
<1>7. asked'[c] = Append(asked[c], r) /\ \A d \in Clients \ {c} : asked'[d] = asked[d]
  BY <1>4, <1>5
<1>8. \A d \in Clients : NeverCarried(d)' => Due(got[d] \o Way(conn[d]), asked[d], d \in clients, FALSE)
  <2>1. \A d \in Clients : (d = busy) = FALSE
    BY <1>2, <1>4
  <2>2. QED
    BY <1>6, <2>1 DEF RepliesInv
<1>9. NeverCarried(c)' => Answered(got[c] \o Way(conn[c]), asked[c])
  BY <1>2, <1>8 DEF Due
<1>10. CASE r = "slow"
  <2>1. busy' = c /\ UNCHANGED <<clients, conn>>
    BY <1>10 DEF ReceiveMessage
  <2>2. ASSUME NEW d \in Clients, NeverCarried(d)'
        PROVE  Due(got'[d] \o Way(conn'[d]), asked'[d], d \in clients', d = busy')
    <3>1. CASE d = c
      BY <1>2, <1>4, <1>7, <1>9, <1>10, <2>1, <2>2, <3>1 DEF Due
    <3>2. CASE d # c
      BY <1>2, <1>7, <1>8, <2>1, <2>2, <3>2 DEF Due
    <3>3. QED
      BY <3>1, <3>2
  <2>3. \A d \in Clients : conn'[d].link \in {"none", "backlog"} => asked'[d] = <<>>
    BY <1>4, <1>7, <2>1 DEF RepliesInv
  <2>4. QED
    BY <2>2, <2>3 DEF RepliesInv
<1>11. CASE r # "slow"
  <2>1. Handle(c, r) /\ busy' = None
    BY <1>2, <1>11 DEF ReceiveMessage
  <2> HIDE DEF r
  <2>2. ASSUME UNCHANGED clients, OneReply(conn', c, r) PROVE RepliesInv'
    <3>1. \A d \in Clients \ clients : Way(conn'[d]) = Way(conn[d])
      BY <1>1 DEF Moves
    <3>2. \A d \in Clients \ {c} : asked'[d] = asked[d] /\ d # busy
      BY <1>2, <1>4, <1>7
    <3>3. QED
      BY <1>2, <1>3, <1>4, <1>7, <1>9, <2>1, <2>2, <3>1, <3>2, RepliesOne
  <2>3. CASE AnswerQuietly(c, r)
    BY <2>2, <2>3, HandledReplies DEF AnswerQuietly
  <2>4. CASE RunCommand(c, r)
    <3>1. r \in DOMAIN ReplyKind /\ ReplyKind[r] = "command" /\ UNCHANGED clients
      BY <2>4 DEF RunCommand, ReplyKind
    <3>2. QED
      BY <2>2, <2>4, <3>1, CommandReplies
  <2>5. CASE Restart(c, r)
    <3>1. conn' = Shutdown(conn, "restart", c) /\ clients' = {}
      BY <2>5 DEF Restart
    <3>2. QED
      BY <1>1, <1>2, <1>3, <1>5, <1>6, <3>1, RepliesShutdown
  <2>6. CASE Exit(c, r)
    <3>1. conn' = Shutdown(conn, "exit", None) /\ clients' = {}
      BY <2>6 DEF Exit
    <3>2. QED
      BY <1>1, <1>2, <1>3, <1>5, <1>6, <3>1, RepliesShutdown
  <2>7. QED
    BY <2>1, <2>3, <2>4, <2>5, <2>6 DEF Handle
<1>12. QED
  BY <1>10, <1>11

LEMMA ReceivePayloadReplies ==
    ASSUME IpcInv, RepliesInv, NEW c \in Clients, ReceivePayload(c)
    PROVE  RepliesInv'
<1>1. Moves
  BY ReceivePayloadStep
<1>2. /\ busy = c /\ busy' = None /\ UNCHANGED <<got, asked>> /\ c \in clients
      /\ Handle(c, "run_command")
  BY IpcAssumption DEF ReceivePayload, IpcInv, RestInv
<1>3. RunCommand(c, "run_command") /\ UNCHANGED clients
  BY <1>2 DEF Handle, AnswerQuietly, QuietAsks, Restart, Exit, RunCommand
<1>4. "slow" \in DOMAIN ReplyKind /\ ReplyKind["slow"] = "command" /\ "slow" \in Reqs
  BY DEF ReplyKind, Reqs, CommandAsks
<1>5. OneReply(conn', c, "slow")
  BY <1>3, <1>4, CommandReplies
<1>6. CASE NeverCarried(c)
  <2>1. PICK b \in Seq(Reqs) : asked[c] = Append(b, "slow") /\ Answered(got[c] \o Way(conn[c]), b)
    BY <1>2, <1>6 DEF RepliesInv, Due
  <2>2. \A d \in Clients \ clients : Way(conn'[d]) = Way(conn[d])
    BY <1>1 DEF Moves
  <2>3. QED
    BY <1>2, <1>3, <1>4, <1>5, <2>1, <2>2, RepliesOne
<1>7. CASE ~NeverCarried(c)
  <2>1. ASSUME NEW d \in Clients, NeverCarried(d)'
        PROVE  Due(got'[d] \o Way(conn'[d]), asked'[d], d \in clients', d = busy')
    <3>1. d # c /\ NeverCarried(d) /\ d # None
      BY <1>2, <1>7, <2>1, IpcAssumption DEF NeverCarried
    <3>2. Due(got[d] \o Way(conn[d]), asked[d], d \in clients, FALSE)
      BY <1>2, <3>1 DEF RepliesInv
    <3>3. CASE d \in clients
      BY <1>2, <1>3, <1>5, <3>1, <3>2, <3>3, TypesOfInv DEF OneReply, Silent, Due
    <3>4. CASE d \notin clients
      BY <1>1, <1>2, <1>3, <3>1, <3>2, <3>4 DEF Moves, Due
    <3>5. QED
      BY <3>3, <3>4
  <2>2. \A d \in Clients : conn'[d].link = conn[d].link
    BY <1>5 DEF OneReply, Silent, Replied
  <2>3. QED
    BY <1>2, <2>1, <2>2 DEF RepliesInv
<1>8. QED
  BY <1>6, <1>7

LEMMA FreeClientReplies ==
    ASSUME IpcInv, RepliesInv, NEW c \in clients, FreeClient(c), busy' = None, busy \in {c, None},
           UNCHANGED <<asked, got>>
    PROVE  RepliesInv'
<1>1. /\ clients \subseteq Clients /\ DOMAIN conn = Clients /\ None \notin Clients
      /\ ConnOK(conn[c]) /\ Way(conn[c]) \in Seq(Piece) /\ got[c] \in Seq(Piece) /\ asked[c] \in Seq(Reqs)
      /\ conn[c].link \in {"open", "hup"}
  BY TypesOfInv, IpcAssumption
<1>2. /\ clients' = clients \ {c} /\ conn'[c] = Freed(conn[c], FALSE)
      /\ \A d \in Clients \ {c} : conn'[d] = conn[d]
  BY <1>1 DEF FreeClient
<1>3. Way(conn'[c]) \in Seq(Piece) /\ IsPrefix(Way(conn'[c]), Way(conn[c]))
  BY <1>1, <1>2, FreedCuts
<1>4. NeverCarried(c) => Ended(got[c] \o Way(conn'[c]), asked[c])
  <2>1. NeverCarried(c) => Due(got[c] \o Way(conn[c]), asked[c], TRUE, c = busy)
    BY <1>1 DEF RepliesInv, Due
  <2>2. (c = busy) \in BOOLEAN
    OBVIOUS
  <2>3. QED
    BY <1>1, <1>3, <2>1, <2>2, DueEnds
<1>5. ASSUME NEW d \in Clients, NeverCarried(d)'
      PROVE  Due(got'[d] \o Way(conn'[d]), asked'[d], d \in clients', d = busy')
  <2>1. NeverCarried(d)
    BY <1>5 DEF NeverCarried
  <2>2. CASE d = c
    BY <1>2, <1>4, <2>1, <2>2 DEF Due
  <2>3. CASE d # c
    <3>1. d # busy /\ d # busy' /\ ((d \in clients') <=> (d \in clients))
      BY <1>1, <1>2, <2>3
    <3>2. QED
      BY <1>2, <2>1, <2>3, <3>1 DEF RepliesInv, Due
  <2>4. QED
    BY <2>2, <2>3
<1>6. \A d \in Clients : conn'[d].link \in {"none", "backlog"} => conn[d].link \in {"none", "backlog"}
  BY <1>1, <1>2, FreedLink
<1>7. QED
  BY <1>5, <1>6 DEF RepliesInv

LEMMA NothingAnswered == Answered(<<>>, <<>>)
<1>1. RepliesOn(<<>>) = {} /\ Answerable(<<>>) = {}
  BY DEF RepliesOn, Answerable
<1> DEFINE f == [i \in {} |-> i]
<1>2. f \in [{} -> {}]
  OBVIOUS
<1>3. Answers(f, <<>>, <<>>)
  BY <1>1 DEF Answers
<1>4. QED
  BY <1>1, <1>2, <1>3 DEF Answered

LEMMA AcceptReplies ==
    ASSUME IpcInv, RepliesInv, NEW c \in Clients, Accept(c)
    PROVE  RepliesInv'
<1>1. /\ UNCHANGED <<got, asked, busy>> /\ c \notin clients /\ clients' = clients \cup {c}
      /\ \A d \in Clients : Way(conn'[d]) = Way(conn[d])
      /\ busy = None /\ conn[c].link = "backlog" /\ None \notin Clients
  BY AcceptStep, IpcAssumption DEF Accept
<1>2. got[c] = <<>> /\ Way(conn[c]) = <<>> /\ asked[c] = <<>> /\ <<>> \o <<>> = <<>>
  BY <1>1, EmptyStream DEF IpcInv, ConnInv, ClientOK, Side, RepliesInv
<1>3. \A d \in Clients : conn'[d].link \in {"none", "backlog"} => conn[d].link \in {"none", "backlog"}
  BY <1>1, TypesOfInv DEF Accept
<1>4. ASSUME NEW d \in Clients, NeverCarried(d)'
      PROVE  Due(got'[d] \o Way(conn'[d]), asked'[d], d \in clients', d = busy')
  <2>1. NeverCarried(d)
    BY <1>1, <1>4 DEF NeverCarried
  <2>2. CASE d = c
    BY <1>1, <1>2, <2>2, NothingAnswered DEF Due
  <2>3. CASE d # c
    BY <1>1, <2>1, <2>3 DEF RepliesInv, Due
  <2>4. QED
    BY <2>2, <2>3
<1>5. QED
  BY <1>1, <1>3, <1>4 DEF RepliesInv

LEMMA StartAgainReplies ==
    ASSUME IpcInv, RepliesInv, StartAgain
    PROVE  RepliesInv'
<1>1. /\ carried \in Clients /\ clients = {} /\ clients' = {carried} /\ UNCHANGED <<got, asked, busy>>
      /\ \A d \in Clients \ {carried} : conn'[d] = conn[d]
  BY StartAgainStep DEF StartAgain
<1>2. ~NeverCarried(carried) /\ conn'[carried].link \in {"open", "hup"}
  <2>1. IpcInv'
    BY StartAgainStep
  <2>2. conn'[carried].link \in {"open", "hup"}
    BY <1>1, <2>1 DEF IpcInv, ConnInv, ClientOK, Side, Live, Core
  <2>3. ~NeverCarried(carried)
    BY DEF IpcInv, RestInv, StartAgain
  <2>4. QED
    BY <2>2, <2>3
<1>3. ASSUME NEW d \in Clients, NeverCarried(d)'
      PROVE  Due(got'[d] \o Way(conn'[d]), asked'[d], d \in clients', d = busy')
  <2>1. NeverCarried(d) /\ d # carried
    BY <1>1, <1>2, <1>3 DEF NeverCarried
  <2>2. Due(got[d] \o Way(conn[d]), asked[d], d \in clients, d = busy)
    BY <2>1 DEF RepliesInv
  <2>3. QED
    BY <1>1, <2>1, <2>2 DEF Due
<1>4. \A d \in Clients : conn'[d].link \in {"none", "backlog"} => conn[d].link \in {"none", "backlog"}
  BY <1>1, <1>2
<1>5. QED
  BY <1>1, <1>3, <1>4 DEF RepliesInv

LEMMA StateChangesReplies ==
    ASSUME IpcInv, RepliesInv, NEW event \in Events, StateChanges(event)
    PROVE  RepliesInv'
<1> DEFINE m == EventMessage(world')[event]
<1>1. UNCHANGED <<clients, got, asked, busy>> /\ conn' = SendEvent(conn, event, m)
      /\ event \in DOMAIN EventOf /\ Moves /\ busy = None /\ None \notin Clients
  BY StateChangesStep, IpcAssumption DEF StateChanges
<1>2. world' \in [Parts -> Nat]
  BY StateChangesStep DEF IpcInv, ConnInv, Typed
<1>3. m \in Msgs /\ m.kind \in EventKinds
  BY <1>1, <1>2, EventKind
<1> HIDE DEF m
<1>4. \A d \in Clients : ConnOK(conn[d]) /\ got[d] \in Seq(Piece) /\ asked[d] \in Seq(Reqs)
  BY TypesOfInv
<1>5. \A d \in Clients : Silent(conn[d], conn'[d])
  BY <1>1, <1>3, <1>4, EventsSilent
<1>6. ASSUME NEW d \in Clients, NeverCarried(d)'
      PROVE  Due(got'[d] \o Way(conn'[d]), asked'[d], d \in clients', d = busy')
  <2>1. NeverCarried(d) /\ d # busy
    BY <1>1, <1>6 DEF NeverCarried
  <2>2. Due(got[d] \o Way(conn[d]), asked[d], d \in clients, d = busy)
    BY <2>1 DEF RepliesInv
  <2>3. CASE d \in clients
    BY <1>1, <1>4, <1>5, <2>1, <2>2, <2>3 DEF Silent, Due
  <2>4. CASE d \notin clients
    BY <1>1, <2>2, <2>4 DEF Moves, Due
  <2>5. QED
    BY <2>3, <2>4
<1>7. QED
  BY <1>1, <1>5, <1>6 DEF RepliesInv, Silent

LEMMA ReadReplies ==
    ASSUME IpcInv, RepliesInv, NEW c \in Clients, Read(c)
    PROVE  RepliesInv'
<1>1. UNCHANGED <<clients, busy, asked>> /\ DOMAIN conn = Clients /\ DOMAIN got = Clients
  BY TypesOfInv DEF Read, IpcInv, ConnInv, Typed
<1>2. /\ got'[c] \o Way(conn'[c]) = got[c] \o Way(conn[c])
      /\ \A d \in Clients \ {c} : conn'[d] = conn[d] /\ got'[d] = got[d]
  BY <1>1, ReadStep DEF Read
<1>3. conn'[c].link = conn[c].link
  BY <1>1, TypesOfInv DEF Read, Conns
<1>4. QED
  BY <1>1, <1>2, <1>3, RepliesRest

LEMMA RestReplies ==
    ASSUME IpcInv, RepliesInv, Rests, UNCHANGED <<busy, asked>>, NEW c \in Clients,
           \A d \in Clients \ {c} : conn'[d] = conn[d],
           conn'[c].link \in {"none", "backlog"} => conn[c].link \in {"none", "backlog"}
    PROVE  RepliesInv'
  BY RepliesRest DEF Rests

LEMMA OtherReplies ==
    ASSUME IpcInv, RepliesInv, NEW c \in Clients,
           Writeable(c) \/ Connect(c) \/ HangUp(c) \/ \E request \in Asks[c] : Ask(c, request)
    PROVE  RepliesInv'
<1>1. conn \in [Clients -> Conns] /\ conn[c] \in Conns
  BY TypesOfInv DEF IpcInv, ConnInv, Typed
<1>2. CASE Writeable(c)
  <2>1. conn' = [conn EXCEPT ![c] = PushPending(@)] /\ UNCHANGED <<busy, asked>> /\ conn[c].link = "open"
    BY <1>2 DEF Writeable
  <2>2. PushPending(conn[c]).link = conn[c].link
    BY TypesOfInv, PushKeeps DEF ConnOK, SameSide
  <2>3. QED
    BY <1>1, <1>2, <2>1, <2>2, WriteableStep, RestReplies
<1>3. CASE Connect(c)
  BY <1>1, <1>3, ConnectStep, RestReplies DEF Connect
<1>4. CASE HangUp(c)
  <2>1. conn' = [conn EXCEPT ![c] = [conn[c] EXCEPT !.link = "hup"]] /\ UNCHANGED <<busy, asked>>
    BY <1>4 DEF HangUp
  <2>2. conn'[c] = [conn[c] EXCEPT !.link = "hup"] /\ \A d \in Clients \ {c} : conn'[d] = conn[d]
    BY <1>1, <2>1
  <2>3. conn'[c].link = "hup"
    BY <1>1, <2>2 DEF Conns
  <2>4. QED
    BY <1>4, <2>1, <2>2, <2>3, HangUpStep, RestReplies
<1>5. CASE \E request \in Asks[c] : Ask(c, request)
  BY <1>5, RepliesRest DEF Ask
<1>6. QED
  BY <1>2, <1>3, <1>4, <1>5

LEMMA RepliesHold == IpcInv /\ RepliesInv /\ [IpcNext]_ipcVars => RepliesInv'
<1> SUFFICES ASSUME IpcInv, RepliesInv, [IpcNext]_ipcVars PROVE RepliesInv'
  OBVIOUS
<1>1. CASE UNCHANGED ipcVars
  BY <1>1, RepliesRest DEF ipcVars
<1>2. ASSUME NEW c \in Clients, ReceiveEof(c) \/ Timeout(c) PROVE RepliesInv'
  <2>1. /\ c \in clients /\ FreeClient(c) /\ busy' = None /\ busy \in {c, None}
        /\ UNCHANGED <<asked, got>>
    BY <1>2 DEF ReceiveEof, Timeout
  <2>2. QED
    BY <2>1, FreeClientReplies
<1>3. ASSUME NEW c \in Clients, ServerStep(c) PROVE RepliesInv'
  BY <1>2, <1>3, AcceptReplies, ReceiveMessageReplies, ReceivePayloadReplies, OtherReplies DEF ServerStep
<1>4. ASSUME NEW c \in Clients, ClientStep(c) PROVE RepliesInv'
  BY <1>4, ReadReplies, OtherReplies DEF ClientStep
<1>5. QED
  BY <1>1, <1>3, <1>4, StartAgainReplies, StateChangesReplies DEF IpcNext

LEMMA RepliesInitially == IpcInit => RepliesInv
<1> SUFFICES ASSUME IpcInit, NEW c \in Clients
             PROVE  asked[c] = <<>> /\ Due(got[c] \o Way(conn[c]), asked[c], c \in clients, c = busy)
  BY DEF RepliesInv
<1>1. /\ asked[c] = <<>> /\ got[c] = <<>> /\ conn[c] = NoConn /\ c \notin clients
      /\ Way(NoConn) = <<>> /\ <<>> \o <<>> = <<>> /\ <<>> \in Seq(Piece) /\ <<>> \in Seq(Reqs)
  BY NoConnOK, EmptyStream DEF IpcInit
<1>2. Ended(<<>>, <<>>)
  BY <1>1, PrefixSelf, NothingAnswered DEF Ended
<1>3. QED
  BY <1>1, <1>2 DEF Due

LEMMA InvReplies == IpcInv /\ RepliesInv => RepliesInOrder
<1> SUFFICES ASSUME IpcInv, RepliesInv, NEW c \in Clients, NeverCarried(c)
             PROVE  LET s == Stream(c)
                    IN  \E answer \in [RepliesOn(s) -> Answerable(asked[c])] :
                           /\ Answers(answer, s, asked[c])
                           /\ c \in clients \ {busy} =>
                                 \A k \in Answerable(asked[c]) : \E i \in RepliesOn(s) : answer[i] = k
  BY DEF RepliesInOrder
<1> DEFINE s == Stream(c)
           a == asked[c]
<1>1. s = got[c] \o Way(conn[c]) /\ s \in Seq(Piece) /\ a \in Seq(Reqs)
  BY StreamIs, TypesOfInv
<1>2. Due(s, a, c \in clients, c = busy)
  BY <1>1 DEF RepliesInv
<1> HIDE DEF s, a
<1>3. CASE c \in clients \ {busy}
  BY <1>2, <1>3 DEF Due, Answered, s, a
<1>4. CASE c \notin clients \ {busy}
  <2>1. Ended(s, a)
    <3>1. CASE c \notin clients
      BY <1>2, <3>1 DEF Due
    <3>2. CASE c \in clients /\ c = busy
      <4>1. PICK b \in Seq(Reqs) : a = Append(b, "slow") /\ Answered(s, b)
        BY <1>2, <3>2 DEF Due
      <4>2. IsPrefix(s, s)
        BY <1>1, PrefixSelf
      <4>3. IsPrefix(b, a)
        <5>1. <<"slow">> \in Seq(Reqs) /\ Append(b, "slow") = b \o <<"slow">>
          <6>1. "slow" \in Reqs
            BY DEF Reqs, CommandAsks
          <6>2. QED
            BY <4>1, <6>1, AppendIsConcat
        <5>2. QED
          BY <4>1, <5>1, PrefixOfConcat
      <4>4. QED
        BY <1>1, <4>1, <4>2, <4>3 DEF Ended
    <3>3. QED
      BY <1>4, <3>1, <3>2
  <2>2. PICK t \in Seq(Piece), b \in Seq(Reqs) : IsPrefix(s, t) /\ IsPrefix(b, a) /\ Answered(t, b)
    BY <2>1 DEF Ended
  <2>3. \E answer \in [RepliesOn(s) -> Answerable(a)] : Answers(answer, s, a)
    BY <1>1, <2>2, CutAnswers
  <2>4. QED
    BY <1>4, <2>3 DEF s, a
<1>5. QED
  BY <1>3, <1>4

LEMMA RepliesAlways == IpcSpec => [](IpcInv /\ RepliesInv)
<1>1. IpcInit => IpcInv /\ RepliesInv
  BY InitHolds, RepliesInitially
<1>2. (IpcInv /\ RepliesInv) /\ [IpcNext]_ipcVars => (IpcInv /\ RepliesInv)'
  BY InvHolds, RepliesHold
<1>3. QED
  BY <1>1, <1>2, PTL DEF IpcSpec

\* For any clients, requests and sizes of the sockets: the write callback and the
\* kill timer run exactly while a buffer holds something, each request gets one
\* reply of its kind, in the order of the requests, no message comes in the middle
\* of another, nothing a client reads is older than what it read before, and the
\* first tick comes once and first (ipc_receive_message, ipc_send_client_message,
\* ipc_push_pending, ipc_send_event, handle_subscribe, ipc_shutdown).
THEOREM RepliesAreSound == IpcSpec => []RepliesSound
<1>1. IpcInv /\ RepliesInv => RepliesSound
  BY InvTypeOK, InvReplies, InvWhole, InvChronological, InvFirstTick DEF RepliesSound
<1>2. QED
  BY <1>1, RepliesAlways, PTL

-----------------------------------------------------------------------------
(* Each connection is a stream: the steps of the server are steps of IpcStream. *)

\* The prefixes of the two modules
LEMMA SamePrefix ==
    \A s, t : /\ Stream_!IsPrefix(s, t) <=> IsPrefix(s, t)
              /\ Stream_!IsStrictPrefix(s, t) <=> IsStrictPrefix(s, t)
  BY DEF IsPrefix, IsStrictPrefix, Stream_!IsPrefix, Stream_!IsStrictPrefix

LEMMA RestsMove == ASSUME IpcInv, Rests PROVE Moves
<1>1. \A c \in Clients : Way(conn[c]) \in Seq(Piece)
  BY StreamIs
<1>2. \A c \in Clients : Way(conn'[c]) = Way(conn[c])
  BY DEF Rests
<1>3. \A c \in Clients : IsPrefix(Way(conn[c]), Way(conn'[c]))
  BY <1>1, <1>2, PrefixSelf
<1>4. QED
  BY <1>2, <1>3 DEF Moves, Rests

LEMMA MovesAddress == ASSUME IpcInv, IpcInv', Moves PROVE Stream_!Address
<1> DEFINE s(c) == got[c] \o Way(conn[c])
           t(c) == got[c] \o Way(conn'[c])
<1>1. clients' \subseteq clients /\ got' = got
  BY DEF Moves
<1>2. ASSUME NEW c \in Clients
      PROVE  /\ got[c] \in Seq(Piece) /\ Way(conn[c]) \in Seq(Piece) /\ Way(conn'[c]) \in Seq(Piece)
             /\ Stream(c) = s(c) /\ Stream(c)' = t(c)
  <2>1. got[c] \in Seq(Piece) /\ Way(conn[c]) \in Seq(Piece) /\ Stream(c) = s(c)
    BY StreamIs
  <2>2. conn' \in [Clients -> Conns]
    BY DEF IpcInv, ConnInv, Typed
  <2>3. Way(conn'[c]) \in Seq(Piece)
    BY <2>2, WayIsSeq
  <2>4. Stream(c)' = t(c)
    BY <1>1 DEF Stream, OnTheWay, Way
  <2>5. QED
    BY <2>1, <2>3, <2>4
<1>3. ASSUME NEW c \in Clients PROVE IsPrefix(got[c], t(c)) /\ IsPrefix(s(c), s(c))
  <2>1. IsPrefix(got[c], t(c))
    BY <1>2, PrefixOfConcat
  <2>2. s(c) \in Seq(Piece)
    BY <1>2, PiecesJoin, Zenon
  <2>3. QED
    BY <2>1, <2>2, PrefixSelf
<1>4. ASSUME NEW c \in clients', c \in Clients PROVE IsPrefix(s(c), t(c))
  BY <1>2, <1>4, PrefixAfter DEF Moves
<1>5. ASSUME NEW c \in Clients, c \notin clients PROVE t(c) = s(c)
  BY <1>5 DEF Moves
<1> HIDE DEF s, t
<1>6. \A c \in Clients :
         IF c \in clients' THEN IsPrefix(s(c), t(c))
         ELSE IF c \in clients THEN IsPrefix(got[c], t(c))
         ELSE IsPrefix(got[c], t(c)) /\ IsPrefix(t(c), s(c))
  BY <1>3, <1>4, <1>5
<1>7. [c \in Clients |-> Stream(c)] = [c \in Clients |-> s(c)]
      /\ [c \in Clients |-> Stream(c)]' = [c \in Clients |-> t(c)]
  BY <1>2
<1>8. QED
  BY <1>1, <1>6, <1>7, SamePrefix DEF Stream_!Address

LEMMA AcceptLinks == ASSUME IpcInv, NEW c \in Clients, Accept(c) PROVE Stream_!Link(c)
<1>1. /\ UNCHANGED got /\ c \notin clients /\ clients' = clients \cup {c}
      /\ \A d \in Clients : Way(conn'[d]) = Way(conn[d])
  BY AcceptStep
<1>2. ASSUME NEW d \in Clients PROVE Stream(d)' = Stream(d)
  BY <1>1 DEF Stream, OnTheWay, Way
<1>3. ASSUME NEW d \in Clients PROVE IsPrefix(Stream(d), Stream(d)')
  BY <1>2, StreamIs, PrefixSelf
<1>4. QED
  BY <1>1, <1>2, <1>3, SamePrefix DEF Stream_!Link

LEMMA StartAgainLinks == ASSUME IpcInv, StartAgain PROVE Stream_!Link(carried)
<1>1. /\ IpcInv' /\ UNCHANGED got /\ carried \in Clients /\ clients = {} /\ clients' = {carried}
      /\ IsPrefix(Way(conn[carried]), Way(conn'[carried]))
      /\ \A d \in Clients \ {carried} : conn'[d] = conn[d]
  BY StartAgainStep
<1>2. ASSUME NEW d \in Clients \ {carried} PROVE Stream(d)' = Stream(d)
  BY <1>1 DEF Stream, OnTheWay
<1>3. ASSUME NEW d \in Clients, d = carried PROVE IsPrefix(Stream(d), Stream(d)')
  <2>1. conn' \in [Clients -> Conns]
    BY <1>1 DEF IpcInv, ConnInv, Typed
  <2>2. Way(conn'[d]) \in Seq(Piece)
    BY <2>1, WayIsSeq
  <2>3. got[d] \in Seq(Piece) /\ Way(conn[d]) \in Seq(Piece) /\ Stream(d) = got[d] \o Way(conn[d])
    BY StreamIs
  <2>4. IsPrefix(got[d] \o Way(conn[d]), got[d] \o Way(conn'[d]))
    BY <1>1, <1>3, <2>2, <2>3, PrefixAfter
  <2>5. Stream(d)' = got[d] \o Way(conn'[d])
    BY <1>1 DEF Stream, OnTheWay, Way
  <2>6. QED
    BY <2>3, <2>4, <2>5
<1>4. ASSUME NEW d \in Clients PROVE IsPrefix(Stream(d), Stream(d)')
  <2>1. CASE d = carried
    BY <1>3, <2>1
  <2>2. CASE d # carried
    BY <1>2, <2>2, StreamIs, PrefixSelf
  <2>3. QED
    BY <2>1, <2>2
<1>5. QED
  BY <1>1, <1>2, <1>4, SamePrefix DEF Stream_!Link

LEMMA ReadReceives == ASSUME IpcInv, NEW c \in Clients, Read(c) PROVE Stream_!Receive(c)
<1> DEFINE g == got[c]
           w == Way(conn[c])
<1>1. /\ UNCHANGED clients /\ g \in Seq(Piece) /\ w \in Seq(Piece) /\ w # <<>>
      /\ got' = [got EXCEPT ![c] = Append(@, Head(w))]
      /\ got'[c] \o Way(conn'[c]) = g \o w
      /\ \A d \in Clients \ {c} : conn'[d] = conn[d]
  BY ReadStep
<1>2. Stream(c) = g \o w
  BY StreamIs
<1>3. \A d \in Clients : Stream(d)' = Stream(d)
  <2>1. Stream(c)' = got'[c] \o Way(conn'[c])
    BY DEF Stream, OnTheWay, Way
  <2>2. \A d \in Clients \ {c} : got'[d] = got[d]
    BY <1>1 DEF IpcInv, ConnInv, Typed
  <2>3. \A d \in Clients \ {c} : Stream(d)' = Stream(d)
    BY <1>1, <2>2 DEF Stream, OnTheWay
  <2>4. QED
    BY <1>1, <1>2, <2>1, <2>3
<1>4. IsPrefix(g, g \o w) /\ g \o w \in Seq(Piece)
  BY <1>1, PrefixOfConcat
<1> HIDE DEF g, w
<1>5. /\ Len(g) \in Nat /\ Len(w) \in Nat /\ Len(w) # 0 /\ Len(g \o w) = Len(g) + Len(w)
      /\ \A i \in 1 .. Len(g) + Len(w) : (g \o w)[i] = IF i <= Len(g) THEN g[i] ELSE w[i - Len(g)]
  BY <1>1, LenProperties, EmptySeq, ConcatProperties
<1>6. g # g \o w
  <2>1. Len(g) # Len(g \o w)
    BY <1>5
  <2>2. QED
    BY <2>1
<1>7. (g \o w)[Len(g) + 1] = Head(w)
  <2>1. Len(g) + 1 \in 1 .. Len(g) + Len(w) /\ ~(Len(g) + 1 <= Len(g)) /\ (Len(g) + 1) - Len(g) = 1
    BY <1>5
  <2>2. (g \o w)[Len(g) + 1] = w[1]
    BY <1>5, <2>1
  <2>3. QED
    BY <1>1, <2>2
<1>8. got' = [got EXCEPT ![c] = Append(@, (g \o w)[Len(@) + 1])]
  BY <1>1, <1>7 DEF g
<1>9. IsStrictPrefix(got[c], Stream(c))
  BY <1>2, <1>4, <1>6 DEF IsStrictPrefix, g
<1>10. [d \in Clients |-> Stream(d)][c] = g \o w
  BY <1>2
<1>11. QED
  BY <1>1, <1>3, <1>8, <1>9, <1>10, SamePrefix DEF Stream_!Receive

LEMMA StepsOfStream == IpcInv /\ [IpcNext]_ipcVars => [Stream_!StreamNext]_(Stream_!streamVars)
<1> SUFFICES ASSUME IpcInv, [IpcNext]_ipcVars PROVE [Stream_!StreamNext]_(Stream_!streamVars)
  OBVIOUS
<1>1. CASE \E c \in Clients : Accept(c) \/ Read(c)
  BY <1>1, AcceptLinks, ReadReceives DEF Stream_!StreamNext
<1>2. CASE StartAgain
  <2>1. carried \in Clients
    BY <1>2, StartAgainStep
  <2>2. QED
    BY <1>2, <2>1, StartAgainLinks DEF Stream_!StreamNext
<1>3. CASE IpcInv' /\ (Moves \/ Rests)
  BY <1>3, RestsMove, MovesAddress DEF Stream_!StreamNext
<1>4. QED
  BY <1>1, <1>2, <1>3, OtherSteps

LEMMA StreamInitially == IpcInit => Stream_!StreamInit
<1> SUFFICES ASSUME IpcInit PROVE Stream_!StreamInit
  OBVIOUS
<1>1. \A c \in Clients : Stream(c) = <<>>
  <2>1. \A c \in Clients : got[c] = <<>> /\ Way(conn[c]) = <<>>
    BY NoConnOK DEF IpcInit
  <2>2. QED
    BY <2>1, EmptyStream DEF Stream, OnTheWay, Way
<1>2. QED
  BY <1>1 DEF IpcInit, Stream_!StreamInit

\* What a client reads is what was addressed to it, in order and once each, while
\* it is linked; a link that ends cuts the stream at most at its end
\* (ipc_push_pending, free_ipc_client, ipc_shutdown, ipc_new_client).
THEOREM IpcImplementsStream == IpcSpec => ImplementsStream
<1>1. IpcInit => Stream_!StreamInit
  BY StreamInitially
<1>2. IpcInv /\ [IpcNext]_ipcVars => [Stream_!StreamNext]_(Stream_!streamVars)
  BY StepsOfStream
<1>3. QED
  BY <1>1, <1>2, InvAlways, PTL DEF IpcSpec, ImplementsStream, Stream_!StreamSpec
=============================================================================
