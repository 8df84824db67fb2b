---------------------------- MODULE ReviewProofs ----------------------------
(***************************************************************************)
(* Proofs about Comments and Suggestions, what is said about a document    *)
(* beside its body; about DocumentTree, where documents and their          *)
(* frontmatter are; about DocumentBody, the copies of the body itself; and *)
(* about CommentAnchors, the words a comment is on.                        *)
(***************************************************************************)
EXTENDS Comments, Suggestions, DocumentTree, DocumentBody, CommentAnchors,
        FiniteSetTheorems, WellFoundedInduction, SequenceTheorems, TLAPS

-----------------------------------------------------------------------------
(***************************************************************************)
(* Comments, for every set of members and any number of comments: every    *)
(* row is in a thread that the sidebar lists.                              *)
(***************************************************************************)

\* A call knows the row it is for, and its root is a root, unless it has gone by now.
KnowsRoot(u) ==
    asked[u].kind # "nothing" =>
        /\ asked[u].id \in Ids /\ asked[u].root \in Ids
        /\ asked[u].root \in There => asked[u].root \in Roots(comment)

\* The inductive invariant: replies are to roots that are there, and unresolved.  What the
\* calls know matters, for they act on rows that others may have deleted meanwhile.
CommentsInv ==
    /\ CommentsTypeOK
    /\ \A c \in There \ Roots(comment) :
          comment[c].parent \in Roots(comment) /\ ~comment[c].resolved
    /\ \A u \in Writers : KnowsRoot(u)

\* The call of one member.
MemberStep(u) ==
    \/ CreateComment(u)
    \/ \E c \in Ids : \E kind \in {"reply", "resolve", "delete"} : AskComment(u, kind, c)
    \/ Reply(u) \/ ResolveComment(u) \/ DeleteComment(u)

LEMMA CommentsSplit ==
    CommentsNext <=> \/ \E u \in Writers : MemberStep(u)
                     \/ \E c \in Ids : TriggerAgentRun(c)
                     \/ RestartWeb
BY DEF CommentsNext, MemberStep

\* The fields of a row, and that a row is not "no comment".
LEMMA RowFacts ==
    ASSUME CommentsTypeOK, NEW c \in There
    PROVE  comment[c] \in Row /\ c \in Ids
           /\ comment[c].parent \in Ids \cup {NoComment} /\ comment[c].resolved \in BOOLEAN
BY DEF CommentsTypeOK, There, Row

-----------------------------------------------------------------------------
\* A row is added under a root, or as one, with an identifier nothing knows.
LEMMA InsertRows ==
    ASSUME CommentsInv, NEW u \in Writers, NEW c \in Fresh, NEW agent \in BOOLEAN,
           NEW p \in Roots(comment) \cup {NoComment}, Insert(u, c, p, agent),
           asked' = asked \/ asked' = [asked EXCEPT ![u] = NotAsked]
    PROVE  CommentsInv'
<1> DEFINE r == [author |-> u, parent |-> p, resolved |-> FALSE]
<1>c. CommentsTypeOK
  BY DEF CommentsInv
<1>1. /\ c \in Ids /\ comment[c] = NoComment
      /\ \A v \in Writers : asked[v].id # c /\ asked[v].root # c
  BY DEF Fresh, Unused
<1>2. r \in Row /\ r # NoComment /\ r.parent = p /\ ~r.resolved
  <2>1. p \in Ids \cup {NoComment}
    BY DEF Roots
  <2>2. r \in Row
    BY <2>1 DEF Row
  <2>3. QED
    BY <2>2, CommentsAssumption
<1>3. comment' = [comment EXCEPT ![c] = r] /\ comment' \in [Ids -> Row \cup {NoComment}]
      /\ after' \subseteq Ids
  BY <1>c, <1>1, <1>2 DEF Insert, CommentsTypeOK
<1>4. /\ comment'[c] = r
      /\ \A d \in Ids \ {c} : comment'[d] = comment[d]
  BY <1>c, <1>1, <1>3 DEF CommentsTypeOK
<1>5. There' = There \cup {c}
  BY <1>1, <1>2, <1>4 DEF There
<1>6. Roots(comment') = IF p = NoComment THEN Roots(comment) \cup {c} ELSE Roots(comment)
  BY <1>1, <1>2, <1>4 DEF Roots
<1>7. ASSUME NEW d \in There' \ Roots(comment')
      PROVE  comment'[d].parent \in Roots(comment') /\ ~comment'[d].resolved
  <2>1. CASE d = c
    BY <1>2, <1>4, <1>6, <1>7, <2>1
  <2>2. CASE d # c
    BY <1>4, <1>5, <1>6, <1>7, <2>2 DEF CommentsInv, There
  <2>3. QED
    BY <2>1, <2>2
<1>8. CommentsTypeOK' /\ \A v \in Writers : KnowsRoot(v)'
  <2>1. ASSUME NEW v \in Writers PROVE asked'[v] = asked[v] \/ asked'[v] = NotAsked
    BY <1>c DEF CommentsTypeOK
  <2>2. asked' \in [Writers -> [kind : {"nothing", "reply", "resolve", "delete"},
                              id : Ids \cup {NoComment}, root : Ids \cup {NoComment}]]
    BY <1>c DEF CommentsTypeOK, NotAsked
  <2>3. \A v \in Writers : asked'[v].kind # "nothing" => asked'[v].root # NoComment
    BY <1>c, <2>1 DEF CommentsTypeOK, NotAsked
  <2>4. ASSUME NEW v \in Writers PROVE KnowsRoot(v)'
    BY <1>1, <1>5, <1>6, <2>1 DEF CommentsInv, KnowsRoot, NotAsked
  <2>5. QED
    BY <1>3, <2>2, <2>3, <2>4 DEF CommentsTypeOK
<1>9. QED
  BY <1>7, <1>8 DEF CommentsInv

\* No call changed, or one ended, and no row came or got another parent: what the other
\* calls know stays true.
LEMMA CallsStay ==
    ASSUME CommentsInv, NEW u \in Writers, Answered(u),
           There' \subseteq There, Roots(comment') = Roots(comment) \cap There'
    PROVE  /\ asked' \in [Writers -> [kind : {"nothing", "reply", "resolve", "delete"},
                              id : Ids \cup {NoComment}, root : Ids \cup {NoComment}]]
           /\ \A v \in Writers : asked'[v].kind # "nothing" => asked'[v].root # NoComment
           /\ \A v \in Writers : KnowsRoot(v)'
<1>1. ASSUME NEW v \in Writers PROVE asked'[v] = asked[v] \/ asked'[v] = NotAsked
  BY DEF Answered, CommentsInv, CommentsTypeOK
<1>2. asked' \in [Writers -> [kind : {"nothing", "reply", "resolve", "delete"},
                              id : Ids \cup {NoComment}, root : Ids \cup {NoComment}]]
  BY DEF Answered, CommentsInv, CommentsTypeOK, NotAsked
<1>3. \A v \in Writers : KnowsRoot(v)'
  BY <1>1 DEF CommentsInv, KnowsRoot, NotAsked
<1>4. QED
  BY <1>1, <1>2, <1>3 DEF CommentsInv, CommentsTypeOK, NotAsked

\* The root that is marked, or unmarked, is no reply.
LEMMA ResolveRows ==
    ASSUME CommentsInv, NEW u \in Writers, ResolveComment(u)
    PROVE  CommentsInv'
<1> DEFINE r == asked[u].root
<1>c. CommentsTypeOK
  BY DEF CommentsInv
<1>k. r \in Ids /\ (r \in There => r \in Roots(comment))
  BY DEF ResolveComment, CommentsInv, KnowsRoot
<1>1. /\ comment' \in [Ids -> Row \cup {NoComment}]
      /\ \A d \in Ids : d # r => comment'[d] = comment[d]
      /\ \A d \in Ids : comment'[d] # NoComment <=> comment[d] # NoComment
      /\ \A d \in There : comment'[d].parent = comment[d].parent
  <2>1. CASE r \in There
    <3>1. comment' = [comment EXCEPT ![r].resolved = ~@]
      BY <2>1 DEF ResolveComment
    <3>2. [comment[r] EXCEPT !.resolved = ~@] \in Row
          /\ [comment[r] EXCEPT !.resolved = ~@].parent = comment[r].parent
      BY <1>c, <2>1, RowFacts, Zenon DEF Row
    <3>3. comment'[r] = [comment[r] EXCEPT !.resolved = ~@]
      BY <1>c, <1>k, <3>1 DEF CommentsTypeOK
    <3>4. QED
      BY <1>c, <1>k, <2>1, <3>1, <3>2, <3>3, CommentsAssumption DEF CommentsTypeOK, There
  <2>2. CASE r \notin There
    BY <1>c, <2>2 DEF ResolveComment, CommentsTypeOK, There
  <2>3. QED
    BY <2>1, <2>2
<1>2. There' = There /\ Roots(comment') = Roots(comment)
  BY <1>1 DEF There, Roots
<1>3. ASSUME NEW d \in There' \ Roots(comment')
      PROVE  comment'[d].parent \in Roots(comment') /\ ~comment'[d].resolved
  <2>1. d # r /\ d \in Ids /\ d \in There \ Roots(comment)
    BY <1>k, <1>2, <1>3 DEF There
  <2>2. QED
    BY <1>1, <1>2, <2>1 DEF CommentsInv
<1>4. QED
  BY <1>1, <1>2, <1>3, <1>c, CallsStay
  DEF ResolveComment, CommentsInv, CommentsTypeOK, There, Roots

\* A row goes with the replies to it, so no reply loses its root alone.
LEMMA DeleteRows ==
    ASSUME CommentsInv, NEW u \in Writers, DeleteComment(u)
    PROVE  CommentsInv'
<1> DEFINE gone == asked[u].id
<1>c. CommentsTypeOK /\ gone \in Ids
  BY DEF CommentsInv, DeleteComment, KnowsRoot
<1>1. \A d \in Ids : comment'[d] =
          IF d = gone \/ (d \in There /\ comment[d].parent = gone)
          THEN NoComment ELSE comment[d]
  BY DEF DeleteComment
<1>2. comment' \in [Ids -> Row \cup {NoComment}]
  BY <1>c DEF DeleteComment, CommentsTypeOK
<1>3. /\ There' \subseteq There
      /\ \A d \in There' : comment'[d] = comment[d] /\ d # gone /\ comment[d].parent # gone
  BY <1>1 DEF There
<1>4. Roots(comment') = Roots(comment) \cap There'
  BY <1>3 DEF Roots, There
<1>5. ASSUME NEW d \in There' \ Roots(comment')
      PROVE  comment'[d].parent \in Roots(comment') /\ ~comment'[d].resolved
  <2>1. /\ d \in There \ Roots(comment) /\ comment'[d] = comment[d]
        /\ comment[d].parent # gone
    BY <1>3, <1>4, <1>5
  <2>2. comment[d].parent \in Roots(comment) /\ ~comment[d].resolved
    BY <2>1 DEF CommentsInv
  <2>3. comment[d].parent \in There'
    BY <1>1, <1>c, <2>1, <2>2, CommentsAssumption DEF Roots, There
  <2>4. QED
    BY <1>4, <2>1, <2>2, <2>3
<1>6. QED
  BY <1>2, <1>3, <1>4, <1>5, <1>c, CallsStay
  DEF DeleteComment, CommentsInv, CommentsTypeOK

\* A call that begins has found its row, and the root it is in.
LEMMA AskRows ==
    ASSUME CommentsInv, NEW u \in Writers, NEW c \in Ids,
           NEW kind \in {"reply", "resolve", "delete"}, AskComment(u, kind, c)
    PROVE  CommentsInv'
<1>c. CommentsTypeOK
  BY DEF CommentsInv
<1>1. RootOf(c) \in Roots(comment) /\ RootOf(c) \in Ids /\ RootOf(c) # NoComment
  BY CommentsAssumption DEF AskComment, CommentsInv, RootOf, Roots, There
<1>2. /\ UNCHANGED <<comment, after>>
      /\ asked' = [asked EXCEPT ![u] = [kind |-> kind, id |-> c, root |-> RootOf(c)]]
  BY DEF AskComment
<1>3. asked' \in [Writers -> [kind : {"nothing", "reply", "resolve", "delete"},
                              id : Ids \cup {NoComment}, root : Ids \cup {NoComment}]]
  BY <1>c, <1>1, <1>2 DEF CommentsTypeOK
<1>4. ASSUME NEW v \in Writers
      PROVE  KnowsRoot(v)' /\ (asked'[v].kind # "nothing" => asked'[v].root # NoComment)
  <2>1. CASE v = u
    BY <1>c, <1>1, <1>2, <2>1 DEF CommentsTypeOK, KnowsRoot, There, Roots
  <2>2. CASE v # u
    BY <1>c, <1>2, <2>2 DEF CommentsInv, CommentsTypeOK, KnowsRoot, There, Roots
  <2>3. QED
    BY <2>1, <2>2
<1>5. QED
  BY <1>c, <1>2, <1>3, <1>4 DEF CommentsInv, CommentsTypeOK, There, Roots

\* A reply whose root has gone is an error; the others are inserted under it.
LEMMA ReplyRows == ASSUME CommentsInv, NEW u \in Writers, Reply(u) PROVE CommentsInv'
<1>1. CASE asked[u].root \in There
  <2>1. asked[u].root \in Roots(comment)
    BY <1>1 DEF Reply, CommentsInv, KnowsRoot
  <2>2. PICK c \in Fresh, agent \in BOOLEAN : Insert(u, c, asked[u].root, agent)
    BY <1>1 DEF Reply
  <2>3. QED
    BY <2>1, <2>2, InsertRows DEF Reply, Answered
<1>2. CASE asked[u].root \notin There
  <2>1. UNCHANGED <<comment, after>> /\ Answered(u)
    BY <1>2 DEF Reply
  <2>2. There' = There /\ Roots(comment') = Roots(comment) /\ Roots(comment) \subseteq There
    BY <2>1 DEF There, Roots
  <2>3. QED
    BY <2>1, <2>2, CallsStay DEF CommentsInv, CommentsTypeOK, There, Roots
<1>3. QED
  BY <1>1, <1>2

LEMMA CommentsStepInv == CommentsInv /\ [CommentsNext]_commentVars => CommentsInv'
<1> SUFFICES ASSUME CommentsInv, [CommentsNext]_commentVars PROVE CommentsInv'
  OBVIOUS
<1>1. ASSUME NEW u \in Writers, CreateComment(u) PROVE CommentsInv'
  BY <1>1, InsertRows DEF CreateComment
<1>2. ASSUME NEW u \in Writers, MemberStep(u) PROVE CommentsInv'
  BY <1>1, <1>2, AskRows, ReplyRows, ResolveRows, DeleteRows DEF MemberStep
<1>3. ASSUME UNCHANGED <<comment, asked>>, after' \subseteq Ids PROVE CommentsInv'
  BY <1>3 DEF CommentsInv, CommentsTypeOK, KnowsRoot, There, Roots
<1>4. ASSUME NEW c \in Ids, TriggerAgentRun(c) PROVE CommentsInv'
  BY <1>3, <1>4 DEF TriggerAgentRun, CommentsInv, CommentsTypeOK
<1>5. CASE RestartWeb
  BY <1>5 DEF RestartWeb, CommentsInv, CommentsTypeOK, KnowsRoot, NotAsked, There, Roots
<1>6. CASE UNCHANGED commentVars
  BY <1>3, <1>6 DEF commentVars, CommentsInv, CommentsTypeOK
<1>7. QED
  BY <1>2, <1>4, <1>5, <1>6, CommentsSplit

\* No row is there at first.
LEMMA CommentsInitInv == CommentsInit => CommentsInv
<1> SUFFICES ASSUME CommentsInit PROVE CommentsInv
  OBVIOUS
<1>1. There = {}
  BY DEF CommentsInit, There
<1>2. QED
  BY <1>1 DEF CommentsInit, CommentsInv, CommentsTypeOK, KnowsRoot, NotAsked

\* A row that is there is a root or a reply to one, so the threads show all of them.
LEMMA InvShowsAll == CommentsInv => ThreadsStayWhole
<1> SUFFICES ASSUME CommentsInv PROVE ThreadsShowAll
  BY DEF CommentsInv, ThreadsStayWhole
<1>1. ASSUME NEW c \in There, c \notin Roots(comment)
      PROVE  \E r \in Roots(comment) : c \in Threads(comment)[r]
  BY <1>1 DEF CommentsInv, Threads, There
<1>2. ASSUME NEW r \in Roots(comment), NEW c \in Threads(comment)[r] PROVE c \in There
  BY <1>2 DEF Threads, There
<1>3. Roots(comment) \subseteq There
  BY DEF Roots, There
<1>4. \A c \in There \ Roots(comment) : ~comment[c].resolved
  BY DEF CommentsInv
<1>5. QED
  BY <1>1, <1>2, <1>3, <1>4 DEF ThreadsShowAll

\* Every comment is in a thread of the sidebar, and no reply is a thread or marked resolved,
\* however replies, answers and deletions of any number of members are mixed
\* (actions/comments.ts:109-231).
THEOREM EveryCommentIsShown == CommentsSpec => []ThreadsStayWhole
<1>1. QED
  BY CommentsInitInv, CommentsStepInv, InvShowsAll, PTL DEF CommentsSpec

-----------------------------------------------------------------------------
(***************************************************************************)
(* Suggestions, for any number of them, of reviewers, blocks and edits:    *)
(* decisions are final but for calls that cross, and an accepted text goes *)
(* to its block.                                                           *)
(***************************************************************************)

\* No identifier is on two blocks of a body.
Distinct(body) == IsInjective([i \in DOMAIN body |-> body[i].id])

\* What the call of a reviewer knows: the body he saw, how many decisions there were, from
\* the check on that there was none, and once it is decided that his decision is on record.
CallKnows(r) ==
    LET v == verdict[r]
        s == proposal[v.of]
    IN verdict[r] # NoVerdict =>
       /\ s # NoProposal /\ Distinct(v.live)
       /\ v.stage = "sent" => v.known <= Len(decisions[v.of])
       /\ v.stage = "checked" => v.known = 0
       /\ v.stage # "sent" /\ v.decision = "ACCEPTED" =>
             Applies(v.live, s) /\ v.applied = Applied(v.live, s)
       /\ v.stage = "answered" =>
             \E i \in DOMAIN decisions[v.of] : decisions[v.of][i] = v.decision

\* The inductive invariant.
ReviewInv ==
    /\ SuggestionsTypeOK
    /\ \A r \in Reviewers : CallKnows(r)

LEMMA DistinctBlocks ==
    ASSUME NEW body
    PROVE  Distinct(body) <=>
              \A i, j \in DOMAIN body : body[i].id = body[j].id => i = j
BY DEF Distinct, IsInjective

\* Replacing a text keeps the blocks and their identifiers.
LEMMA ReplacedBlocks ==
    ASSUME NEW body \in Seq(Block), NEW i \in DOMAIN body, NEW w \in Words
    PROVE  /\ Replaced(body, i, w) \in Seq(Block)
           /\ DOMAIN Replaced(body, i, w) = DOMAIN body
           /\ \A j \in DOMAIN body : Replaced(body, i, w)[j] =
                 IF j = i THEN [body[j] EXCEPT !.text = w] ELSE body[j]
           /\ \A j \in DOMAIN body : Replaced(body, i, w)[j].id = body[j].id
<1> DEFINE new == [body[i] EXCEPT !.text = w]
<1>1. body[i] \in Block /\ i \in 1..Len(body)
  BY ElementOfSeq, LenProperties
<1>2. new \in Block /\ new.id = body[i].id
  BY <1>1 DEF Block
<1>3. Replaced(body, i, w) = [body EXCEPT ![i] = new]
  BY DEF Replaced
<1> HIDE DEF new
<1>4. [body EXCEPT ![i] = new] \in Seq(Block)
  BY <1>1, <1>2, ExceptSeq
<1>5. /\ DOMAIN [body EXCEPT ![i] = new] = DOMAIN body
      /\ \A j \in DOMAIN body : [body EXCEPT ![i] = new][j] = IF j = i THEN new ELSE body[j]
  OBVIOUS
<1>6. \A j \in DOMAIN body : (IF j = i THEN new ELSE body[j]).id = body[j].id
  BY <1>2
<1>7. new = [body[i] EXCEPT !.text = w]
  BY DEF new
<1>8. \A j \in DOMAIN body : (IF j = i THEN new ELSE body[j])
                         = (IF j = i THEN [body[j] EXCEPT !.text = w] ELSE body[j])
  BY <1>7, Zenon
<1>9. QED
  BY <1>3, <1>4, <1>5, <1>6, <1>8, Zenon

LEMMA ReplacedDistinct ==
    ASSUME NEW body \in Seq(Block), NEW i \in DOMAIN body, NEW w \in Words, Distinct(body)
    PROVE  Distinct(Replaced(body, i, w))
<1> DEFINE d == Replaced(body, i, w)
<1>1. DOMAIN d = DOMAIN body /\ \A j \in DOMAIN body : d[j].id = body[j].id
  BY ReplacedBlocks
<1> HIDE DEF d
<1>2. Distinct(d)
  BY <1>1, DistinctBlocks
<1>3. QED
  BY <1>2 DEF d

\* A new block on top, with an identifier of its own.
LEMMA InsertedBlocks ==
    ASSUME NEW body \in Seq(Block), NEW b \in Block, Distinct(body),
           \A i \in DOMAIN body : body[i].id # b.id
    PROVE  <<b>> \o body \in Seq(Block) /\ Distinct(<<b>> \o body)
<1> DEFINE d == <<b>> \o body
<1>1. <<b>> \in Seq(Block) /\ Len(<<b>>) = 1 /\ <<b>>[1] = b
  OBVIOUS
<1>2. /\ d \in Seq(Block) /\ Len(d) = 1 + Len(body)
      /\ \A i \in 1..(1 + Len(body)) : d[i] = IF i <= 1 THEN <<b>>[i] ELSE body[i - 1]
  BY <1>1, ConcatProperties
<1>3. /\ Len(body) \in Nat /\ DOMAIN body = 1..Len(body) /\ DOMAIN d = 1..(1 + Len(body))
  BY <1>2, LenProperties
<1> HIDE DEF d
<1>4. d[1] = b /\ \A i \in 2..(1 + Len(body)) : i - 1 \in DOMAIN body /\ d[i] = body[i - 1]
  BY <1>1, <1>2, <1>3
<1>5. ASSUME NEW i \in DOMAIN d, NEW j \in DOMAIN d, d[i].id = d[j].id PROVE i = j
  <2>1. (i = 1 \/ i \in 2..(1 + Len(body))) /\ (j = 1 \/ j \in 2..(1 + Len(body)))
    BY <1>3
  <2>2. CASE i = 1 \/ j = 1
    BY <1>4, <1>5, <2>1, <2>2
  <2>3. CASE i \in 2..(1 + Len(body)) /\ j \in 2..(1 + Len(body))
    <3>1. i - 1 = j - 1
      BY <1>4, <1>5, <2>3, DistinctBlocks
    <3>2. QED
      BY <1>3, <2>3, <3>1
  <2>4. QED
    BY <2>1, <2>2, <2>3
<1>6. QED
  BY <1>2, <1>5, DistinctBlocks DEF d

\* Removing a block.
LEMMA RemovedBlocks ==
    ASSUME NEW body \in Seq(Block), NEW k \in DOMAIN body, Distinct(body)
    PROVE  RemoveAt(body, k) \in Seq(Block) /\ Distinct(RemoveAt(body, k))
<1> DEFINE front == SubSeq(body, 1, k - 1)
           back == SubSeq(body, k + 1, Len(body))
           d == front \o back
           n == Len(body)
<1>1. n \in Nat /\ DOMAIN body = 1..n /\ k \in 1..n /\ k \in Int /\ n \in Int
      /\ \A i \in 1..n : body[i] \in Block
  BY LenProperties, ElementOfSeq
<1>2. /\ front \in Seq(Block) /\ Len(front) = k - 1
      /\ \A i \in 1..(k - 1) : front[i] = body[i]
  <2>1. \A i \in 1..(k - 1) : body[i] \in Block
    BY <1>1
  <2>2. /\ front \in Seq(Block) /\ Len(front) = IF 1 <= k - 1 THEN (k - 1) - 1 + 1 ELSE 0
        /\ \A i \in 1..((k - 1) - 1 + 1) : front[i] = body[1 + i - 1]
    BY <1>1, <2>1, SubSeqProperties
  <2> HIDE DEF front
  <2>3. QED
    BY <1>1, <2>2
<1>3. /\ back \in Seq(Block) /\ Len(back) = n - k
      /\ \A i \in 1..(n - k) : back[i] = body[i + k]
  <2>1. \A i \in (k + 1)..n : body[i] \in Block
    BY <1>1
  <2>2. /\ back \in Seq(Block) /\ Len(back) = IF k + 1 <= n THEN n - (k + 1) + 1 ELSE 0
        /\ \A i \in 1..(n - (k + 1) + 1) : back[i] = body[(k + 1) + i - 1]
    BY <1>1, <2>1, SubSeqProperties
  <2> HIDE DEF back
  <2>3. n - (k + 1) + 1 = n - k /\ (k + 1 > n => n - k = 0)
    BY <1>1
  <2>4. \A i \in 1..(n - k) : (k + 1) + i - 1 = i + k
    BY <1>1
  <2>5. QED
    BY <2>2, <2>3, <2>4
<1> HIDE DEF front, back
<1>4. /\ d \in Seq(Block) /\ Len(d) = Len(front) + Len(back)
      /\ \A i \in 1..(Len(front) + Len(back)) :
            d[i] = IF i <= Len(front) THEN front[i] ELSE back[i - Len(front)]
  BY <1>2, <1>3, ConcatProperties
<1>5. DOMAIN d = 1..(n - 1)
  <2>1. Len(d) = n - 1
    BY <1>1, <1>2, <1>3, <1>4
  <2>2. QED
    BY <1>4, <2>1, LenProperties
<1> HIDE DEF d, n
<1>6. ASSUME NEW i \in 1..(n - 1)
      PROVE  /\ d[i] = body[IF i < k THEN i ELSE i + 1]
             /\ (IF i < k THEN i ELSE i + 1) \in DOMAIN body
  <2>1. i \in 1..(Len(front) + Len(back)) /\ Len(front) = k - 1
    BY <1>1, <1>2, <1>3
  <2>2. CASE i < k
    BY <1>1, <1>2, <1>4, <2>1, <2>2
  <2>3. CASE ~(i < k)
    <3> DEFINE j == i - (k - 1)
    <3>1. d[i] = back[j]
      BY <1>1, <1>4, <2>1, <2>3
    <3>2. j \in 1..(n - k) /\ j + k = i + 1 /\ i + 1 \in 1..n
      BY <1>1, <2>3
    <3> HIDE DEF j
    <3>3. back[j] = body[i + 1]
      BY <1>3, <3>2
    <3>4. QED
      BY <1>1, <2>3, <3>1, <3>2, <3>3
  <2>4. QED
    BY <2>2, <2>3
<1>7. ASSUME NEW i \in DOMAIN d, NEW j \in DOMAIN d, d[i].id = d[j].id PROVE i = j
  <2>1. (IF i < k THEN i ELSE i + 1) = (IF j < k THEN j ELSE j + 1)
    BY <1>5, <1>6, <1>7, DistinctBlocks
  <2>2. QED
    BY <1>1, <1>5, <2>1
<1>8. QED
  BY <1>4, <1>7, DistinctBlocks DEF d, front, back, n, RemoveAt

\* A suggestion is not "no suggestion", nor a call "no call".
LEMMA ReviewNothings ==
    /\ NoProposal \notin Suggestion /\ NoVerdict \notin Verdict
    /\ \A v \in Verdict \cup {NoVerdict} : v = NoVerdict <=> v.stage = "idle"
BY DEF NoProposal, NoVerdict, Suggestion, Verdict

\* What is known of a call that is under way.
LEMMA CallFacts ==
    ASSUME ReviewInv, NEW r \in Reviewers, verdict[r].stage # "idle"
    PROVE  /\ verdict[r] \in Verdict /\ verdict[r] # NoVerdict
           /\ verdict[r].of \in Proposals /\ proposal[verdict[r].of] \in Suggestion
           /\ proposal[verdict[r].of] # NoProposal
<1>1. verdict[r] \in Verdict \cup {NoVerdict}
  BY DEF ReviewInv, SuggestionsTypeOK
<1>2. verdict[r] \in Verdict /\ verdict[r] # NoVerdict
  BY <1>1, ReviewNothings
<1>3. verdict[r].of \in Proposals
  BY <1>2 DEF Verdict
<1>4. proposal[verdict[r].of] # NoProposal
  BY <1>2 DEF ReviewInv, CallKnows
<1>5. QED
  BY <1>2, <1>3, <1>4 DEF ReviewInv, SuggestionsTypeOK

LEMMA SuggestionsInitInv == SuggestionsInit => ReviewInv
<1> SUFFICES ASSUME SuggestionsInit PROVE ReviewInv
  OBVIOUS
<1>1. page \in Seq(Block) /\ Distinct(page)
  <2> DEFINE n == MaxBlocks - 1
  <2>1. n \in Nat /\ \A i \in 1..n : i \in BlockIds
    BY SuggestionsAssumption DEF BlockIds
  <2>2. \A i \in 1..n : [id |-> i, text |-> Draft] \in Block
    BY <2>1, SuggestionsAssumption DEF Block
  <2>3. page = [i \in 1..n |-> [id |-> i, text |-> Draft]]
    BY DEF SuggestionsInit
  <2> HIDE DEF n
  <2>4. page \in Seq(Block)
    BY <2>1, <2>2, <2>3, IsASeq
  <2>5. DOMAIN page = 1..n /\ \A i \in 1..n : page[i].id = i
    BY <2>3
  <2>6. QED
    BY <2>4, <2>5, DistinctBlocks
<1>2. /\ proposal \in [Proposals -> Suggestion \cup {NoProposal}]
      /\ verdict \in [Reviewers -> Verdict \cup {NoVerdict}]
      /\ decisions \in [Proposals -> Seq(Verdicts)] /\ edits \in Nat
  BY DEF SuggestionsInit
<1>3. \A p \in Proposals : decisions[p] = <<>> /\ proposal[p].status = "none"
  BY DEF SuggestionsInit, NoProposal
<1>4. \A r \in Reviewers : verdict[r] = NoVerdict
  BY DEF SuggestionsInit
<1>5. QED
  BY <1>1, <1>2, <1>3, <1>4 DEF ReviewInv, SuggestionsTypeOK, Distinct, CallKnows

\* The body changes, and what calls know of the suggestions does not.
LEMMA EditStep ==
    ASSUME ReviewInv, Edit
    PROVE  ReviewInv'
<1>1. page \in Seq(Block) /\ Distinct(page)
  BY DEF ReviewInv, SuggestionsTypeOK, Distinct
<1>2. page' \in Seq(Block) /\ Distinct(page')
  <2>1. CASE \E i \in DOMAIN page : \E w \in Words \ {page[i].text} :
                page' = Replaced(page, i, w)
    BY <1>1, <2>1, ReplacedBlocks, ReplacedDistinct
  <2>2. CASE \E b \in Block : (\A i \in DOMAIN page : page[i].id # b.id) /\ page' = <<b>> \o page
    BY <1>1, <2>2, InsertedBlocks
  <2>3. CASE \E i \in DOMAIN page : page' = RemoveAt(page, i)
    BY <1>1, <2>3, RemovedBlocks
  <2>4. QED
    BY <2>1, <2>2, <2>3 DEF Edit
<1>3. edits' \in Nat
  BY DEF ReviewInv, SuggestionsTypeOK, Edit
<1>4. SuggestionsTypeOK'
  BY <1>2, <1>3 DEF ReviewInv, SuggestionsTypeOK, Distinct, Edit
<1>5. \A r \in Reviewers : CallKnows(r)'
  BY DEF ReviewInv, CallKnows, Edit
<1>6. QED
  BY <1>4, <1>5 DEF ReviewInv

\* A suggestion that is new is nobody's yet.
LEMMA CreateSuggestionStep ==
    ASSUME ReviewInv, NEW p \in Proposals, CreateSuggestion(p)
    PROVE  ReviewInv'
<1>1. PICK i \in DOMAIN page, w \in Words :
         proposal' = [proposal EXCEPT ![p] =
              [status |-> "PENDING", at |-> i, block |-> page[i].id, text |-> w]]
  BY DEF CreateSuggestion
<1> DEFINE s == [status |-> "PENDING", at |-> i, block |-> page[i].id, text |-> w]
<1>2. s \in Suggestion /\ s.status = "PENDING"
  <2>1. page[i] \in Block /\ i \in Nat \ {0}
    BY ElementOfSeq, LenProperties DEF ReviewInv, SuggestionsTypeOK
  <2>2. QED
    BY <2>1 DEF Suggestion, Block
<1>3. proposal' = [proposal EXCEPT ![p] = s]
  BY <1>1
<1> HIDE DEF s
<1>4. proposal' \in [Proposals -> Suggestion \cup {NoProposal}] /\ proposal'[p] = s
      /\ \A q \in Proposals \ {p} : proposal'[q] = proposal[q]
  BY <1>2, <1>3 DEF ReviewInv, SuggestionsTypeOK
<1>5. decisions[p] = <<>>
  <2>1. proposal[p].status = "none"
    BY DEF CreateSuggestion, NoProposal
  <2>2. decisions[p] # <<>> => Last(decisions[p]) \in Verdicts
    BY DEF ReviewInv, SuggestionsTypeOK, Last
  <2>3. QED
    BY <2>1, <2>2 DEF ReviewInv, SuggestionsTypeOK, Verdicts
<1>6. SuggestionsTypeOK'
  BY <1>2, <1>4, <1>5 DEF ReviewInv, SuggestionsTypeOK, CreateSuggestion
<1>7. ASSUME NEW r \in Reviewers PROVE CallKnows(r)'
  <2>1. CASE verdict[r] = NoVerdict
    BY <2>1 DEF CallKnows, CreateSuggestion
  <2>2. CASE verdict[r] # NoVerdict
    <3>1. verdict[r] \in Verdict \cup {NoVerdict}
      BY DEF ReviewInv, SuggestionsTypeOK
    <3>2. verdict[r].stage # "idle"
      BY <2>2, <3>1, ReviewNothings
    <3>3. verdict[r].of \in Proposals \ {p}
      BY <3>2, CallFacts DEF CreateSuggestion
    <3>4. proposal'[verdict[r].of] = proposal[verdict[r].of]
      BY <1>4, <3>3
    <3>5. QED
      BY <3>4 DEF ReviewInv, CallKnows, CreateSuggestion
  <2>3. QED
    BY <2>1, <2>2
<1>8. QED
  BY <1>6, <1>7 DEF ReviewInv

\* The call of r moves on, or ends, and the rows stay: what the others know does too.
LEMMA CallMoves ==
    ASSUME ReviewInv, NEW r \in Reviewers, NEW v \in Verdict \cup {NoVerdict},
           verdict' = [verdict EXCEPT ![r] = v], UNCHANGED <<proposal, decisions, edits>>,
           page' \in Seq(Block), Distinct(page'), CallKnows(r)'
    PROVE  ReviewInv'
<1>1. verdict' \in [Reviewers -> Verdict \cup {NoVerdict}]
  BY DEF ReviewInv, SuggestionsTypeOK
<1>2. SuggestionsTypeOK'
  BY <1>1 DEF ReviewInv, SuggestionsTypeOK, Distinct
<1>3. ASSUME NEW q \in Reviewers PROVE CallKnows(q)'
  <2>1. CASE q = r
    BY <2>1
  <2>2. CASE q # r
    <3>1. verdict'[q] = verdict[q]
      BY <2>2 DEF ReviewInv, SuggestionsTypeOK
    <3>2. QED
      BY <3>1 DEF ReviewInv, CallKnows
  <2>3. QED
    BY <2>1, <2>2
<1>4. QED
  BY <1>2, <1>3 DEF ReviewInv

LEMMA AskToResolveStep ==
    ASSUME ReviewInv, NEW r \in Reviewers, NEW p \in Proposals, NEW d \in Verdicts,
           AskToResolve(r, p, d)
    PROVE  ReviewInv'
<1> DEFINE v == [stage |-> "sent", of |-> p, decision |-> d, live |-> page,
                 applied |-> <<>>, known |-> Len(decisions[p])]
<1>1. page \in Seq(Block) /\ Distinct(page) /\ Len(decisions[p]) \in Nat
      /\ UNCHANGED <<page, proposal, decisions, edits>> /\ proposal[p] # NoProposal
  BY LenProperties DEF ReviewInv, SuggestionsTypeOK, Distinct, AskToResolve
<1>2. v \in Verdict /\ <<>> \in Seq(Block)
  BY <1>1, EmptySeq DEF Verdict
<1>3. v.stage = "sent" /\ v.of = p /\ v.live = page /\ v.known = Len(decisions[p])
  OBVIOUS
<1>4. verdict' = [verdict EXCEPT ![r] = v]
  BY DEF AskToResolve
<1> HIDE DEF v
<1>5. verdict'[r] = v
  BY <1>4 DEF ReviewInv, SuggestionsTypeOK
<1>6. CallKnows(r)'
  BY <1>1, <1>3, <1>5 DEF CallKnows
<1>7. page' \in Seq(Block) /\ Distinct(page')
  BY <1>1
<1>8. QED
  BY <1>1, <1>2, <1>4, <1>6, <1>7, CallMoves

\* The call ends without an effect.
LEMMA CallEnds ==
    ASSUME ReviewInv, NEW r \in Reviewers, verdict' = [verdict EXCEPT ![r] = NoVerdict],
           UNCHANGED <<proposal, decisions, edits>>, page' \in Seq(Block), Distinct(page')
    PROVE  ReviewInv'
<1>1. verdict'[r] = NoVerdict
  BY DEF ReviewInv, SuggestionsTypeOK
<1>2. CallKnows(r)'
  BY <1>1 DEF CallKnows
<1>3. QED
  BY <1>2, CallMoves

\* A suggestion that is pending has no decision yet, so the call had seen none.
LEMMA PendingIsUndecided ==
    ASSUME ReviewInv, NEW p \in Proposals, proposal[p].status = "PENDING"
    PROVE  decisions[p] = <<>>
<1>1. decisions[p] # <<>> => Last(decisions[p]) \in Verdicts
  BY DEF ReviewInv, SuggestionsTypeOK, Last
<1>2. QED
  BY <1>1 DEF ReviewInv, SuggestionsTypeOK, Verdicts

LEMMA CheckSuggestionStep ==
    ASSUME ReviewInv, NEW r \in Reviewers, CheckSuggestion(r)
    PROVE  ReviewInv'
<1> DEFINE v == verdict[r]
           s == proposal[v.of]
           done == IF v.decision = "ACCEPTED" THEN Applied(v.live, s) ELSE <<>>
           w == [v EXCEPT !.stage = "checked", !.applied = done]
<1>1. /\ page' \in Seq(Block) /\ Distinct(page')
      /\ UNCHANGED <<page, proposal, decisions, edits>>
  BY DEF ReviewInv, SuggestionsTypeOK, Distinct, CheckSuggestion
<1>2. v \in Verdict /\ v # NoVerdict /\ v.of \in Proposals /\ s \in Suggestion
      /\ s # NoProposal /\ v.stage = "sent"
  BY CallFacts DEF CheckSuggestion
<1>3. CASE s.status = "PENDING" /\ (v.decision = "ACCEPTED" => Applies(v.live, s))
  <2>1. verdict' = [verdict EXCEPT ![r] = w]
    BY <1>3 DEF CheckSuggestion
  <2>2. done \in Seq(Block)
    <3>1. CASE v.decision = "ACCEPTED"
      <4>1. v.live \in Seq(Block) /\ s.at \in DOMAIN v.live /\ s.text \in Words
        BY <1>2, <1>3, <3>1 DEF Verdict, Suggestion, Applies
      <4>2. QED
        BY <3>1, <4>1, ReplacedBlocks DEF Applied
    <3>2. CASE v.decision # "ACCEPTED"
      BY <3>2, EmptySeq
    <3>3. QED
      BY <3>1, <3>2
  <2>3. w \in Verdict /\ w.stage = "checked" /\ w.applied = done /\ w.of = v.of
        /\ w.live = v.live /\ w.known = v.known /\ w.decision = v.decision
    <3> HIDE DEF done
    <3>1. QED
      BY <1>2, <2>2 DEF Verdict
  <2>4. v.known = 0
    <3>1. decisions[v.of] = <<>>
      BY <1>2, <1>3, PendingIsUndecided
    <3>2. v.known \in Nat /\ v.known <= Len(decisions[v.of])
      BY <1>2 DEF ReviewInv, CallKnows, Verdict
    <3>3. QED
      BY <3>1, <3>2, EmptySeq
  <2>5. Distinct(v.live)
    BY <1>2 DEF ReviewInv, CallKnows
  <2>6. v.decision = "ACCEPTED" => Applies(v.live, s) /\ done = Applied(v.live, s)
    BY <1>3
  <2>7. verdict'[r] = w
    BY <2>1 DEF ReviewInv, SuggestionsTypeOK
  <2> HIDE DEF w, done
  <2>8. CallKnows(r)'
    BY <1>1, <1>2, <2>3, <2>4, <2>5, <2>6, <2>7 DEF CallKnows
  <2>9. QED
    BY <1>1, <2>1, <2>3, <2>8, CallMoves
<1>4. CASE ~(s.status = "PENDING" /\ (v.decision = "ACCEPTED" => Applies(v.live, s)))
  <2>1. verdict' = [verdict EXCEPT ![r] = NoVerdict]
    BY <1>4 DEF CheckSuggestion
  <2>2. QED
    BY <1>1, <2>1, CallEnds
<1>5. QED
  BY <1>3, <1>4

\* The decision goes on record, behind those that others have written meanwhile.
LEMMA CommitDecisionStep ==
    ASSUME ReviewInv, NEW r \in Reviewers, CommitDecision(r)
    PROVE  ReviewInv'
<1> DEFINE v == verdict[r]
           p == v.of
           s == [proposal[p] EXCEPT !.status = v.decision]
           ds == Append(decisions[p], v.decision)
           w == [v EXCEPT !.stage = "answered"]
<1>1. v \in Verdict /\ v # NoVerdict /\ p \in Proposals /\ proposal[p] \in Suggestion
      /\ proposal[p] # NoProposal /\ v.stage = "checked" /\ v.decision \in Verdicts
  BY CallFacts DEF CommitDecision, Verdict
<1>2. s \in Suggestion /\ s # NoProposal /\ s.status = v.decision /\ s.at = proposal[p].at
      /\ s.text = proposal[p].text
  <2>1. s \in Suggestion /\ s.status = v.decision /\ s.at = proposal[p].at
        /\ s.text = proposal[p].text
    BY <1>1 DEF Suggestion
  <2>2. QED
    BY <2>1, ReviewNothings
<1>3. ds \in Seq(Verdicts) /\ ds # <<>> /\ Len(ds) = Len(decisions[p]) + 1
      /\ ds[Len(ds)] = v.decision /\ Len(ds) \in DOMAIN ds /\ Last(ds) = v.decision
      /\ Len(decisions[p]) \in Nat
      /\ \A i \in DOMAIN decisions[p] : i \in DOMAIN ds /\ ds[i] = decisions[p][i]
  <2>1. decisions[p] \in Seq(Verdicts)
    BY <1>1 DEF ReviewInv, SuggestionsTypeOK
  <2>2. /\ ds \in Seq(Verdicts) /\ ds # <<>> /\ Len(ds) = Len(decisions[p]) + 1
        /\ \A i \in 1..Len(decisions[p]) : ds[i] = decisions[p][i]
        /\ ds[Len(decisions[p]) + 1] = v.decision
    BY <1>1, <2>1, AppendProperties
  <2> HIDE DEF ds, v, p
  <2>3. /\ Len(decisions[p]) \in Nat /\ DOMAIN decisions[p] = 1..Len(decisions[p])
        /\ DOMAIN ds = 1..Len(ds)
    BY <2>1, <2>2, LenProperties
  <2>4. QED
    BY <2>2, <2>3 DEF Last
<1>4. w \in Verdict /\ w.stage = "answered" /\ w.of = p /\ w.live = v.live
      /\ w.applied = v.applied /\ w.decision = v.decision
  BY <1>1 DEF Verdict
<1>5. /\ proposal' = [proposal EXCEPT ![p] = s] /\ decisions' = [decisions EXCEPT ![p] = ds]
      /\ verdict' = [verdict EXCEPT ![r] = w] /\ UNCHANGED <<page, edits>>
  BY DEF CommitDecision
<1> HIDE DEF s, ds, w
<1>6. /\ proposal' \in [Proposals -> Suggestion \cup {NoProposal}] /\ proposal'[p] = s
      /\ \A q \in Proposals \ {p} : proposal'[q] = proposal[q]
  BY <1>1, <1>2, <1>5 DEF ReviewInv, SuggestionsTypeOK
<1>7. /\ decisions' \in [Proposals -> Seq(Verdicts)] /\ decisions'[p] = ds
      /\ \A q \in Proposals \ {p} : decisions'[q] = decisions[q]
  BY <1>1, <1>3, <1>5 DEF ReviewInv, SuggestionsTypeOK
<1>8. /\ verdict' \in [Reviewers -> Verdict \cup {NoVerdict}] /\ verdict'[r] = w
      /\ \A q \in Reviewers \ {r} : verdict'[q] = verdict[q]
  BY <1>4, <1>5 DEF ReviewInv, SuggestionsTypeOK
<1>9. SuggestionsTypeOK'
  <2>1. ASSUME NEW q \in Proposals
        PROVE  IF decisions'[q] = <<>> THEN proposal'[q].status \in {"none", "PENDING"}
               ELSE proposal'[q].status = Last(decisions'[q])
    BY <1>2, <1>3, <1>6, <1>7 DEF ReviewInv, SuggestionsTypeOK
  <2>2. QED
    BY <1>5, <1>6, <1>7, <1>8, <2>1 DEF ReviewInv, SuggestionsTypeOK
<1>10. ASSUME NEW q \in Reviewers PROVE CallKnows(q)'
  <2>1. CASE q = r
    <3>1. Distinct(v.live)
      BY <1>1 DEF ReviewInv, CallKnows
    <3>2. v.decision = "ACCEPTED" => Applies(v.live, proposal[p])
                                     /\ v.applied = Applied(v.live, proposal[p])
      BY <1>1 DEF ReviewInv, CallKnows
    <3>3. v.decision = "ACCEPTED" => Applies(v.live, s) /\ v.applied = Applied(v.live, s)
      BY <1>2, <3>2 DEF Applies, Applied
    <3> HIDE DEF v, p
    <3>4. QED
      BY <1>2, <1>3, <1>4, <1>6, <1>7, <1>8, <2>1, <3>1, <3>3 DEF CallKnows
  <2>2. CASE q # r /\ verdict[q] = NoVerdict
    BY <1>8, <2>2 DEF CallKnows
  <2>3. CASE q # r /\ verdict[q] # NoVerdict
    <3> DEFINE u == verdict[q]
    <3>1. u \in Verdict /\ u.of \in Proposals /\ verdict'[q] = u /\ u # NoVerdict
      <4>1. u \in Verdict
        BY <2>3 DEF ReviewInv, SuggestionsTypeOK
      <4>2. QED
        BY <1>8, <2>3, <4>1 DEF Verdict
    <3>2. CallKnows(q)
      BY DEF ReviewInv
    <3>3. CASE u.of # p
      <4>1. proposal'[u.of] = proposal[u.of] /\ decisions'[u.of] = decisions[u.of]
        BY <1>6, <1>7, <3>1, <3>3
      <4>2. QED
        BY <3>1, <3>2, <4>1 DEF CallKnows
    <3>4. CASE u.of = p
      <4>1. proposal'[u.of] = s /\ decisions'[u.of] = ds /\ s # NoProposal
            /\ Distinct(u.live)
        BY <1>2, <1>6, <1>7, <3>1, <3>2, <3>4 DEF CallKnows
      <4>2. u.stage = "sent" => u.known <= Len(ds)
        <5>1. u.known \in Nat /\ (u.stage = "sent" => u.known <= Len(decisions[p]))
          BY <3>1, <3>2, <3>4 DEF CallKnows, Verdict
        <5>2. QED
          BY <1>3, <5>1
      <4>3. u.stage = "checked" => u.known = 0
        BY <3>1, <3>2 DEF CallKnows
      <4>4. u.stage # "sent" /\ u.decision = "ACCEPTED" =>
               Applies(u.live, s) /\ u.applied = Applied(u.live, s)
        <5>1. u.stage # "sent" /\ u.decision = "ACCEPTED" =>
               Applies(u.live, proposal[p]) /\ u.applied = Applied(u.live, proposal[p])
          BY <3>1, <3>2, <3>4 DEF CallKnows
        <5>2. QED
          BY <1>2, <5>1 DEF Applies, Applied
      <4>5. u.stage = "answered" => \E i \in DOMAIN ds : ds[i] = u.decision
        <5>1. u.stage = "answered" =>
                 \E i \in DOMAIN decisions[p] : decisions[p][i] = u.decision
          BY <3>1, <3>2, <3>4 DEF CallKnows
        <5>2. QED
          BY <1>3, <5>1
      <4> HIDE DEF u
      <4>6. verdict'[q] = u
        BY <3>1
      <4>7. QED
        BY <4>1, <4>2, <4>3, <4>4, <4>5, <4>6 DEF CallKnows
    <3>5. QED
      BY <3>3, <3>4
  <2>4. QED
    BY <2>1, <2>2, <2>3
<1>11. QED
  BY <1>9, <1>10 DEF ReviewInv

\* What the reviewer's editor gets is the body he saw, with one text replaced.
LEMMA AnswerFacts ==
    ASSUME ReviewInv, NEW r \in Reviewers, verdict[r].stage = "answered",
           verdict[r].decision = "ACCEPTED"
    PROVE  LET v == verdict[r]
               s == proposal[v.of]
           IN /\ v.live \in Seq(Block) /\ s.at \in DOMAIN v.live /\ s.text \in Words
              /\ v.applied = Replaced(v.live, s.at, s.text) /\ Distinct(v.live)
<1>1. /\ verdict[r] \in Verdict /\ verdict[r] # NoVerdict
      /\ proposal[verdict[r].of] \in Suggestion
  BY CallFacts
<1>2. QED
  BY <1>1 DEF ReviewInv, CallKnows, Verdict, Suggestion, Applies, Applied

LEMMA AnswerStep ==
    ASSUME ReviewInv, NEW r \in Reviewers, ApplyAnswer(r) \/ LoseAnswer(r)
    PROVE  ReviewInv'
<1>1. page \in Seq(Block) /\ Distinct(page)
  BY DEF ReviewInv, SuggestionsTypeOK, Distinct
<1>2. page' \in Seq(Block) /\ Distinct(page')
  <2>1. CASE page' = page
    BY <1>1, <2>1
  <2>2. CASE page' # page
    <3>1. verdict[r].stage = "answered" /\ verdict[r].decision = "ACCEPTED"
          /\ page' = verdict[r].applied
      BY <2>2 DEF ApplyAnswer, LoseAnswer
    <3>2. QED
      BY <3>1, AnswerFacts, ReplacedBlocks, ReplacedDistinct
  <2>3. QED
    BY <2>1, <2>2
<1>3. verdict' = [verdict EXCEPT ![r] = NoVerdict] /\ UNCHANGED <<proposal, decisions, edits>>
  BY DEF ApplyAnswer, LoseAnswer
<1>4. QED
  BY <1>2, <1>3, CallEnds

LEMMA SuggestionsStepInv ==
    ReviewInv /\ [SuggestionsNext]_suggestionVars => ReviewInv'
<1> SUFFICES ASSUME ReviewInv, [SuggestionsNext]_suggestionVars PROVE ReviewInv'
  OBVIOUS
<1>1. CASE UNCHANGED suggestionVars
  BY <1>1 DEF ReviewInv, SuggestionsTypeOK, CallKnows, suggestionVars
<1>2. CASE Edit
  BY <1>2, EditStep
<1>3. ASSUME NEW p \in Proposals, CreateSuggestion(p) PROVE ReviewInv'
  BY <1>3, CreateSuggestionStep
<1>4. ASSUME NEW r \in Reviewers, NEW p \in Proposals, NEW d \in Verdicts,
             AskToResolve(r, p, d)
      PROVE  ReviewInv'
  BY <1>4, AskToResolveStep
<1>5. ASSUME NEW r \in Reviewers, CheckSuggestion(r) PROVE ReviewInv'
  BY <1>5, CheckSuggestionStep
<1>6. ASSUME NEW r \in Reviewers, CommitDecision(r) PROVE ReviewInv'
  BY <1>6, CommitDecisionStep
<1>7. ASSUME NEW r \in Reviewers, ApplyAnswer(r) \/ LoseAnswer(r) PROVE ReviewInv'
  BY <1>7, AnswerStep
<1>8. QED
  BY <1>1, <1>2, <1>3, <1>4, <1>5, <1>6, <1>7 DEF SuggestionsNext

\* Only a commit writes decisions, and the call it ends had seen none.
LEMMA DecidedOnce ==
    ASSUME ReviewInv, [SuggestionsNext]_suggestionVars, NEW p \in Proposals,
           decisions'[p] # decisions[p]
    PROVE  \E r \in Reviewers : verdict[r].of = p /\ verdict[r].known = 0
<1>1. PICK r \in Reviewers : CommitDecision(r)
  BY DEF SuggestionsNext, suggestionVars, Edit, CreateSuggestion, AskToResolve,
         CheckSuggestion, ApplyAnswer, LoseAnswer
<1>2. verdict[r].stage = "checked" /\ verdict[r] # NoVerdict /\ verdict[r].of \in Proposals
  BY <1>1, CallFacts DEF CommitDecision
<1>3. verdict[r].known = 0
  BY <1>2 DEF ReviewInv, CallKnows
<1>4. decisions' = [decisions EXCEPT ![verdict[r].of] = Append(@, verdict[r].decision)]
  BY <1>1 DEF CommitDecision
<1>5. verdict[r].of = p
  BY <1>2, <1>4 DEF ReviewInv, SuggestionsTypeOK
<1>6. QED
  BY <1>3, <1>5

\* Without an edit, the body is changed by an answer, which was to accept.
LEMMA ChangedByAnswer ==
    ASSUME ReviewInv, [SuggestionsNext]_suggestionVars, page' # page, edits' = edits
    PROVE  \E r \in Reviewers :
              /\ ApplyAnswer(r) /\ verdict[r].decision = "ACCEPTED"
              /\ page' = verdict[r].applied
<1>1. ~Edit
  BY DEF Edit, ReviewInv, SuggestionsTypeOK
<1>2. QED
  BY <1>1 DEF SuggestionsNext, suggestionVars, CreateSuggestion, AskToResolve,
         CheckSuggestion, CommitDecision, ApplyAnswer, LoseAnswer

\* An answer that accepted is of a suggestion that is accepted, unless it was decided again.
LEMMA AppliedWasAccepted ==
    ASSUME ReviewInv, NEW r \in Reviewers, verdict[r].stage = "answered",
           verdict[r].decision = "ACCEPTED"
    PROVE  /\ verdict[r].of \in Proposals
           /\ \/ proposal[verdict[r].of].status = "ACCEPTED"
              \/ Len(decisions[verdict[r].of]) > 1
<1> DEFINE p == verdict[r].of
           ds == decisions[p]
<1>1. p \in Proposals /\ verdict[r] # NoVerdict
  BY CallFacts
<1>2. PICK i \in DOMAIN ds : ds[i] = "ACCEPTED"
  BY <1>1 DEF ReviewInv, CallKnows
<1>3. ds \in Seq(Verdicts)
  BY <1>1 DEF ReviewInv, SuggestionsTypeOK
<1>4. ds # <<>> => proposal[p].status = Last(ds)
  BY <1>1 DEF ReviewInv, SuggestionsTypeOK
<1> HIDE DEF ds
<1>5. Len(ds) \in Nat /\ i \in 1..Len(ds)
  BY <1>3, LenProperties
<1>6. CASE Len(ds) = 1
  <2>1. ds # <<>>
    BY <1>6
  <2>2. i = 1
    BY <1>5, <1>6
  <2>3. proposal[p].status = ds[1]
    BY <1>4, <1>6, <2>1 DEF Last
  <2>4. QED
    BY <1>1, <1>2, <2>2, <2>3
<1>7. CASE Len(ds) # 1
  <2>1. Len(ds) > 1
    BY <1>5, <1>7
  <2>2. QED
    BY <1>1, <2>1 DEF ds
<1>8. QED
  BY <1>6, <1>7

\* The body with the text of one block replaced, wherever it stands.
TextReplaced(body, b, w) ==
    [i \in DOMAIN body |-> IF body[i].id = b THEN [body[i] EXCEPT !.text = w] ELSE body[i]]

\* Replacing by position is replacing by identifier, where the block stands there.
LEMMA ReplacedByIdentifier ==
    ASSUME NEW body \in Seq(Block), Distinct(body), NEW i \in DOMAIN body, NEW w \in Words,
           NEW b, body[i].id = b
    PROVE  Replaced(body, i, w) = TextReplaced(body, b, w)
<1> DEFINE d == Replaced(body, i, w)
           Text(j) == [body[j] EXCEPT !.text = w]
<1>1. \A j \in DOMAIN body : body[j].id = b <=> j = i
  BY DistinctBlocks
<1>2. d \in Seq(Block) /\ DOMAIN d = DOMAIN body
      /\ \A j \in DOMAIN body : d[j] = IF j = i THEN Text(j) ELSE body[j]
  BY ReplacedBlocks
<1> HIDE DEF d, Text
<1>3. \A j \in DOMAIN body : d[j] = IF body[j].id = b THEN Text(j) ELSE body[j]
  BY <1>1, <1>2
<1>4. d \in [1..Len(d) -> Block] /\ 1..Len(d) = DOMAIN body
  BY <1>2, LenProperties
<1>5. d = [j \in DOMAIN body |-> IF body[j].id = b THEN Text(j) ELSE body[j]]
  BY <1>3, <1>4
<1>6. QED
  BY <1>5, Zenon DEF d, Text, TextReplaced

LEMMA AcceptedTouchesItsBlock ==
    ASSUME ReviewInv, [SuggestionsNext]_suggestionVars, page' # page, edits' = edits,
           NEW r \in Reviewers, verdict[r].stage = "answered", verdict'[r] = NoVerdict,
           verdict[r].live = page, NEW s, s = proposal[verdict[r].of],
           s.at \in DOMAIN page, page[s.at].id = s.block
    PROVE  page' = TextReplaced(page, s.block, s.text)
<1>1. PICK q \in Reviewers : /\ ApplyAnswer(q) /\ verdict[q].decision = "ACCEPTED"
                             /\ page' = verdict[q].applied
  BY ChangedByAnswer
<1>2. q = r
  <2>1. verdict[r] # NoVerdict
    BY DEF NoVerdict
  <2>2. q # r => verdict'[r] = verdict[r]
    BY <1>1 DEF ApplyAnswer, ReviewInv, SuggestionsTypeOK
  <2>3. QED
    BY <2>1, <2>2
<1>3. page \in Seq(Block) /\ Distinct(page)
  BY DEF ReviewInv, SuggestionsTypeOK, Distinct
<1>4. s.text \in Words /\ page' = Replaced(page, s.at, s.text)
  BY <1>1, <1>2, AnswerFacts
<1>5. QED
  BY <1>3, <1>4, ReplacedByIdentifier

\* What the reviewers are promised, whoever crosses them: a decision is final for who asks
\* after it, what was rejected is not applied unless two crossed, and what was accepted
\* goes to its block (suggestions.ts:128-130, suggestions-panel.tsx:53-61).
THEOREM DecisionsAlwaysStand == SuggestionsSpec => DecisionsStand
<1>1. ReviewInv /\ [SuggestionsNext]_suggestionVars =>
         \A p \in Proposals : decisions[p] # <<>> /\ decisions'[p] # decisions[p] =>
            \E r \in Reviewers : verdict[r].of = p /\ verdict[r].known = 0
  BY DecidedOnce
<1>2. ReviewInv /\ [SuggestionsNext]_suggestionVars =>
         (page' # page /\ edits' = edits =>
            \E p \in Proposals : proposal[p].status = "ACCEPTED" \/ Len(decisions[p]) > 1)
  <2> SUFFICES ASSUME ReviewInv, [SuggestionsNext]_suggestionVars, page' # page,
                      edits' = edits
               PROVE  \E p \in Proposals :
                         proposal[p].status = "ACCEPTED" \/ Len(decisions[p]) > 1
    OBVIOUS
  <2>1. PICK r \in Reviewers : ApplyAnswer(r) /\ verdict[r].decision = "ACCEPTED"
    BY ChangedByAnswer
  <2>2. verdict[r].stage = "answered"
    BY <2>1 DEF ApplyAnswer
  <2>3. QED
    BY <2>1, <2>2, AppliedWasAccepted
<1>3. ReviewInv /\ [SuggestionsNext]_suggestionVars =>
         \A r \in Reviewers :
            LET s == proposal[verdict[r].of] IN
            /\ verdict[r].stage = "answered" /\ page' # page /\ edits' = edits
            /\ verdict[r].live = page /\ verdict'[r] = NoVerdict
            /\ s.at \in DOMAIN page /\ page[s.at].id = s.block
            => page' = TextReplaced(page, s.block, s.text)
  BY AcceptedTouchesItsBlock
<1>4. ReviewInv => SuggestionsTypeOK
  BY DEF ReviewInv
<1>5. QED
  BY <1>1, <1>2, <1>3, <1>4, SuggestionsInitInv, SuggestionsStepInv, PTL
  DEF SuggestionsSpec, DecisionsStand, DecisionIsFinal, RejectedIsNotApplied,
      AcceptTouchesItsBlock, TextReplaced

-----------------------------------------------------------------------------
(***************************************************************************)
(* DocumentTree, for any users, titles, templates and number of documents  *)
(* and calls: what holds of frontmatter, slugs and order while actions     *)
(* overlap, and where they have to.                                        *)
(***************************************************************************)

\* The order of the natural numbers, as a relation.
Before == {p \in Nat \X Nat : p[1] < p[2]}

\* A set of natural numbers has a least member.
LEMMA LeastExists ==
    ASSUME NEW S \in SUBSET Nat, S # {}
    PROVE  \E x \in S : \A y \in S : x <= y
<1>1. IsWellFoundedOn(Before, Nat)
  BY NatLessThanWellFounded DEF OpToRel, Before
<1>2. PICK x \in S : \A y \in S : ~ (<<y, x>> \in Before)
  BY <1>1, WFMin
<1>3. ASSUME NEW y \in S PROVE x <= y
  <2>1. <<y, x>> \in Nat \X Nat /\ <<y, x>> \notin Before
    BY <1>2
  <2>2. ~(y < x)
    BY <2>1 DEF Before
  <2>3. QED
    BY <2>2
<1>4. QED
  BY <1>3

\* A set of them that has a bound has a greatest.
LEMMA GreatestExists ==
    ASSUME NEW N \in Nat, NEW S \in SUBSET (0..N), S # {}
    PROVE  \E x \in S : \A y \in S : x >= y
<1> DEFINE T == {n \in Nat : N - n \in S}
<1>1. \A y \in S : N - y \in T /\ N - (N - y) = y
  OBVIOUS
<1>2. T \in SUBSET Nat /\ T # {}
  BY <1>1
<1>3. PICK n \in T : \A m \in T : n <= m
  BY <1>2, LeastExists
<1>4. n \in Nat /\ N - n \in S
  BY <1>3
<1>5. ASSUME NEW y \in S PROVE N - n >= y
  <2>1. n <= N - y
    BY <1>1, <1>3
  <2>2. QED
    BY <1>4, <2>1
<1>6. QED
  BY <1>4, <1>5

\* What the type invariant says of a call.
TreeCallFits(k) ==
    /\ \E D \in SUBSET DocNumbers : k \in TreeCall(D)
    /\ k.kind \in {"order", "insert", "copy", "ingest", "insertIngested"} => Len(k.slugs) = 1
    /\ k.kind = "annotate" => DOMAIN k.fms = {k.at}

\* The slugs of a call differ, and none of the documents there were when it looked has one
\* of them; while none was created since it counted, its order comes after all there are;
\* and what it read of a document has the order that this has, unless that may have moved.
TreeCallKnows(k) ==
    /\ k.kind \in Inserting \cup {"order"} =>
          /\ k.at <= born
          /\ \A i, j \in DOMAIN k.slugs : k.slugs[i] = k.slugs[j] => i = j
          /\ \A d \in Rows : \A i \in DOMAIN k.slugs : d <= k.at => doc[d].slug # k.slugs[i]
    /\ k.kind = "insert" =>
          /\ k.counted <= born
          /\ k.counted = born /\ ~moved /\ ~raced => \A d \in Rows : doc[d].fm.order < k.order
    /\ \A d \in DOMAIN k.fms : d <= born
    /\ ~moved => \A d \in DOMAIN k.fms : d \in Rows => k.fms[d].order = doc[d].fm.order

\* The inductive invariant.
TreeInv ==
    /\ TreeTypeOK
    /\ \A d \in Rows : wanted[d] \in Frontmatter
    /\ FrontmatterKept /\ RefusedByRaceOnly /\ OrderFollowsCreation
    /\ \A c \in Callers : TreeCallKnows(treeCall[c])

LEMMA TreeFacts ==
    ASSUME TreeTypeOK
    PROVE  /\ DocNumbers \subseteq Nat \ {0} /\ born \in Nat
           /\ \A d \in Rows : /\ d \in DocNumbers /\ doc[d] \in DocRow /\ doc[d].slug \in Slug
                              /\ doc[d].fm \in Frontmatter /\ doc[d].fm.order \in Nat
           /\ \A d \in DocNumbers : d \notin Rows => doc[d] = NoDoc
           /\ \A c \in Callers : /\ TreeCallFits(treeCall[c])
                                 /\ treeCall[c].at \in 0..MaxDocs /\ treeCall[c].order \in Nat
                                 /\ treeCall[c].onto \in 0..MaxDocs
                                 /\ treeCall[c].counted \in 0..MaxDocs
                                 /\ treeCall[c].slugs \in Seq(Slug)
                                 /\ DOMAIN treeCall[c].fms \subseteq DocNumbers
                                 /\ \A d \in DOMAIN treeCall[c].fms :
                                       treeCall[c].fms[d] \in Frontmatter
<1>1. DocNumbers \subseteq Nat \ {0} /\ born \in Nat
  BY TreeAssumption DEF DocNumbers, TreeTypeOK
<1>2. \A d \in Rows : d \in DocNumbers /\ doc[d] \in DocRow
  BY DEF Rows, TreeTypeOK
<1>3. \A r \in DocRow : r.slug \in Slug /\ r.fm \in Frontmatter /\ r.fm.order \in Nat
  BY DEF DocRow, Frontmatter
<1>4. ASSUME NEW c \in Callers
      PROVE  /\ treeCall[c].at \in 0..MaxDocs /\ treeCall[c].order \in Nat
             /\ treeCall[c].onto \in 0..MaxDocs
             /\ treeCall[c].counted \in 0..MaxDocs
             /\ treeCall[c].slugs \in Seq(Slug)
             /\ DOMAIN treeCall[c].fms \subseteq DocNumbers
             /\ \A d \in DOMAIN treeCall[c].fms : treeCall[c].fms[d] \in Frontmatter
  <2>1. PICK D \in SUBSET DocNumbers : treeCall[c] \in TreeCall(D)
    BY DEF TreeTypeOK
  <2>2. QED
    BY <2>1 DEF TreeCall
<1>5. \A d \in DocNumbers : d \notin Rows => doc[d] = NoDoc
  BY DEF Rows
<1>6. \A c \in Callers : TreeCallFits(treeCall[c])
  BY DEF TreeTypeOK, TreeCallFits
<1>7. QED
  BY <1>1, <1>2, <1>3, <1>4, <1>5, <1>6

LEMMA IdleFits ==
    /\ TreeCallFits(Idle) /\ TreeCallKnows(Idle) /\ Idle \in TreeCall({})
    /\ Idle.kind = "idle" /\ Idle.slugs = <<>> /\ Idle.at = 0 /\ Idle.onto = 0
    /\ Idle.counted = 0 /\ Idle.order = 0 /\ DOMAIN Idle.fms = {}
<1>1. <<>> \in [{} -> Frontmatter] /\ <<>> \in Seq(Slug) /\ DOMAIN <<>> = {}
  OBVIOUS
<1>2. Idle \in TreeCall({})
  BY <1>1, TreeAssumption DEF Idle, TreeCall, TreeKinds
<1>3. QED
  BY <1>1, <1>2 DEF TreeCallFits, TreeCallKnows, Idle, Inserting

\* Of finitely many slugs, one of as many numbers and one more is free.
LEMMA UniqueSlugIsFree ==
    ASSUME NEW taken, IsFiniteSet(taken), NEW base \in Bases
    PROVE  UniqueSlug(base, taken) \in Slug /\ UniqueSlug(base, taken) \notin taken
<1> DEFINE slug(n) == [base |-> base, n |-> n]
           N == 1 + Cardinality(taken)
           Untaken == {n \in 1..N : slug(n) \notin taken}
<1>1. Cardinality(taken) \in Nat
  BY FS_CardinalityType
<1>2. Untaken # {}
  <2>1. SUFFICES ASSUME Untaken = {} PROVE FALSE
    OBVIOUS
  <2> DEFINE f == [n \in 1..N |-> slug(n)]
  <2>2. \A n \in 1..N : slug(n) \in taken
    BY <2>1
  <2>3. \A m, n \in 1..N : slug(m) = slug(n) => m = n
    OBVIOUS
  <2>4. f \in Injection(1..N, taken)
    BY <2>2, <2>3 DEF Injection, IsInjective
  <2>5. Cardinality(1..N) <= Cardinality(taken)
    BY <2>4, FS_Injection
  <2>6. Cardinality(1..N) = N
    BY <1>1, FS_Interval
  <2>7. QED
    BY <2>5, <2>6, <1>1
<1>3. Min(Untaken) \in Untaken
  <2>1. Untaken \in SUBSET Nat
    OBVIOUS
  <2>2. \E x \in Untaken : \A y \in Untaken : x <= y
    BY <2>1, <1>2, LeastExists
  <2> HIDE DEF Untaken
  <2>3. QED
    BY <2>2 DEF Min
<1>4. UniqueSlug(base, taken) = slug(Min(Untaken))
  BY DEF UniqueSlug
<1>5. QED
  BY <1>3, <1>4 DEF Slug

LEMMA TakenIsFinite ==
    ASSUME TreeTypeOK
    PROVE  IsFiniteSet(Taken)
<1>1. IsFiniteSet(DocNumbers)
  BY TreeAssumption, FS_Interval DEF DocNumbers
<1>2. IsFiniteSet(Rows)
  BY <1>1, FS_Subset DEF Rows
<1> DEFINE f == [d \in Rows |-> doc[d].slug]
<1>3. f \in Surjection(Rows, Taken)
  BY DEF Surjection, Taken
<1>4. QED
  BY <1>2, <1>3, FS_Surjection

LEMMA TreeInitInv == TreeInit => TreeInv
<1> SUFFICES ASSUME TreeInit PROVE TreeInv
  OBVIOUS
<1>1. Rows = {} /\ 0 \in 0..MaxDocs /\ 0 \in 0..MaxTreeCalls
  BY TreeAssumption DEF TreeInit, Rows
<1>2. \A c \in Callers : TreeCallFits(treeCall[c]) /\ TreeCallKnows(treeCall[c])
  BY IdleFits DEF TreeInit
<1>3. DOMAIN treeCall = Callers
  BY DEF TreeInit
<1>4. TreeTypeOK
  BY <1>1, <1>2, <1>3 DEF TreeInit, TreeTypeOK, TreeCallFits
<1>5. QED
  BY <1>1, <1>2, <1>4 DEF TreeInit, TreeInv, FrontmatterKept, RefusedByRaceOnly,
     OrderFollowsCreation

-----------------------------------------------------------------------------
\* A call that moves on, while the rows stay.
LEMMA TreeCallMoves ==
    ASSUME TreeInv, NEW c \in Callers, NEW k, TreeCallFits(k), TreeCallKnows(k),
           treeCall' = [treeCall EXCEPT ![c] = k], treeCalls' \in 0..MaxTreeCalls,
           depends' \subseteq Rows \X Rows,
           UNCHANGED <<doc, born, treeHistories>>
    PROVE  TreeInv'
<1>1. Rows' = Rows
  BY DEF Rows
<1>2. /\ DOMAIN treeCall' = Callers /\ treeCall'[c] = k
      /\ \A b \in Callers : b # c => treeCall'[b] = treeCall[b]
  BY DEF TreeInv, TreeTypeOK
<1>3. \A b \in Callers : TreeCallFits(treeCall'[b]) /\ TreeCallKnows(treeCall'[b])
  <2>1. \A b \in Callers : TreeCallFits(treeCall[b]) /\ TreeCallKnows(treeCall[b])
    BY TreeFacts DEF TreeInv
  <2>2. QED
    BY <2>1, <1>2
<1>4. TreeTypeOK'
  BY <1>1, <1>2, <1>3 DEF TreeInv, TreeTypeOK, TreeCallFits, treeHistories
<1>5. ASSUME NEW b \in Callers PROVE TreeCallKnows(treeCall[b])'
  BY <1>1, <1>3 DEF TreeCallKnows, treeHistories
<1>6. QED
  BY <1>1, <1>4, <1>5 DEF TreeInv, FrontmatterKept, RefusedByRaceOnly, OrderFollowsCreation,
     treeHistories

\* What calls know stands while documents keep their slugs and new ones get new numbers, and
\* while no order changes without saying so.
LEMMA CallsStillKnow ==
    ASSUME TreeInv, \A b \in Callers : treeCall'[b] \in {Idle, treeCall[b]},
           born' \in Nat, born <= born', \A d \in Rows' : d <= born',
           \A d \in Rows' : d <= born => d \in Rows /\ doc'[d].slug = doc[d].slug,
           moved => moved', raced => raced',
           ~moved' => \A d \in Rows' : d <= born => doc'[d].fm.order = doc[d].fm.order
    PROVE  \A b \in Callers : TreeCallKnows(treeCall[b])'
<1> SUFFICES ASSUME NEW b \in Callers PROVE TreeCallKnows(treeCall[b])'
  OBVIOUS
<1>a. TreeTypeOK /\ born \in Nat /\ \A d \in Rows : d \in Nat
  BY TreeFacts DEF TreeInv
<1>1. CASE treeCall'[b] = Idle
  BY <1>1, IdleFits DEF TreeCallKnows, Inserting
<1>2. CASE treeCall'[b] = treeCall[b]
  <2> DEFINE k == treeCall[b]
  <2>1. TreeCallKnows(k) /\ k.at \in Nat /\ k.counted \in Nat
    BY <1>a, TreeFacts DEF TreeInv
  <2>2. \A d \in DOMAIN k.fms : d \in Nat
    BY <1>a, TreeFacts
  <2>3. \A d \in Rows' : d \in Nat
    BY DEF Rows, DocNumbers
  <2> HIDE DEF k
  <2>4. k.kind \in Inserting \cup {"order"} =>
          /\ k.at <= born'
          /\ \A i, j \in DOMAIN k.slugs : k.slugs[i] = k.slugs[j] => i = j
          /\ \A d \in Rows' : \A i \in DOMAIN k.slugs : d <= k.at => doc'[d].slug # k.slugs[i]
    BY <1>a, <2>1, <2>3 DEF TreeCallKnows
  <2>5. k.kind = "insert" =>
          /\ k.counted <= born'
          /\ k.counted = born' /\ ~moved' /\ ~raced' =>
                \A d \in Rows' : doc'[d].fm.order < k.order
    <3> SUFFICES ASSUME k.kind = "insert"
                 PROVE  /\ k.counted <= born'
                        /\ k.counted = born' /\ ~moved' /\ ~raced' =>
                              \A d \in Rows' : doc'[d].fm.order < k.order
      OBVIOUS
    <3>1. /\ k.counted <= born
          /\ k.counted = born /\ ~moved /\ ~raced => \A d \in Rows : doc[d].fm.order < k.order
      BY <2>1 DEF TreeCallKnows
    <3>2. k.counted = born' => born' = born
      BY <3>1, <2>1, <1>a
    <3>3. QED
      BY <3>1, <3>2, <2>1, <1>a
  <2>6. \A d \in DOMAIN k.fms : d <= born'
    BY <1>a, <2>1, <2>2 DEF TreeCallKnows
  <2>7. ~moved' => \A d \in DOMAIN k.fms : d \in Rows' => k.fms[d].order = doc'[d].fm.order
    BY <2>1 DEF TreeCallKnows
  <2>8. QED
    BY <1>2, <2>4, <2>5, <2>6, <2>7 DEF TreeCallKnows, k
<1>3. QED
  BY <1>1, <1>2

\* A call that returns leaves types of calls as they are.
LEMMA CallReturns ==
    ASSUME TreeTypeOK, NEW c \in Callers, Return(c)
    PROVE  /\ DOMAIN treeCall' = Callers /\ treeCalls' \in 0..MaxTreeCalls
           /\ \A b \in Callers : /\ treeCall'[b] \in {Idle, treeCall[b]}
                                 /\ TreeCallFits(treeCall'[b])
<1>1. DOMAIN treeCall' = Callers /\ treeCalls' \in 0..MaxTreeCalls
  BY DEF TreeTypeOK, Return
<1>2. \A b \in Callers : treeCall'[b] \in {Idle, treeCall[b]}
  BY DEF TreeTypeOK, Return
<1>3. QED
  BY <1>1, <1>2, IdleFits, TreeFacts

\* A call that returns without having written anything.
LEMMA ReturnInv ==
    ASSUME TreeInv, NEW c \in Callers, Return(c), UNCHANGED <<treeRows, treeHistories>>
    PROVE  TreeInv'
<1>1. TreeTypeOK /\ treeCalls' \in 0..MaxTreeCalls /\ treeCall' = [treeCall EXCEPT ![c] = Idle]
  BY CallReturns DEF TreeInv, Return
<1>2. depends' \subseteq Rows \X Rows /\ UNCHANGED <<doc, born, treeHistories>>
  BY <1>1 DEF treeRows, TreeTypeOK
<1>3. QED
  BY <1>1, <1>2, IdleFits, TreeCallMoves

\* Rows are added under the next numbers, with frontmatter of their own.
LEMMA RowsAreAdded ==
    ASSUME TreeTypeOK, NEW c \in Callers, NEW orders, AddRows(c, orders),
           \A i \in DOMAIN treeCall[c].slugs : orders[i] \in Nat
    PROVE  /\ born' \in 0..MaxDocs /\ born <= born'
           /\ NewDocs(c) \subseteq DocNumbers /\ NewDocs(c) = (born + 1)..born'
           /\ doc' \in [DocNumbers -> DocRow \cup {NoDoc}]
           /\ wanted' \in [DocNumbers -> Frontmatter \cup {NoDoc}]
           /\ Rows' = Rows \cup NewDocs(c)
           /\ \A d \in Rows : /\ d \notin NewDocs(c) /\ d <= born
                              /\ doc'[d] = doc[d] /\ wanted'[d] = wanted[d]
           /\ \A d \in NewDocs(c) : /\ d > born /\ d <= born'
                                    /\ doc'[d].fm = wanted'[d] /\ wanted'[d] \in Frontmatter
                                    /\ doc'[d].fm.order = orders[d - born]
<1> DEFINE slugs == treeCall[c].slugs
           n == Len(slugs)
<1>1. /\ slugs \in Seq(Slug) /\ n \in Nat /\ DOMAIN slugs = 1..n
      /\ born \in Nat /\ MaxDocs \in Nat
  BY TreeFacts, TreeAssumption
<1>2. /\ born' = born + n /\ born' <= MaxDocs
      /\ doc' = [d \in DocNumbers |-> IF d \in NewDocs(c) THEN NewRow(c, orders, d) ELSE doc[d]]
      /\ wanted' = [d \in DocNumbers |-> IF d \in NewDocs(c)
                                         THEN NewFrontmatter(orders[d - born]) ELSE wanted[d]]
  BY DEF AddRows
<1>3. born' \in 0..MaxDocs /\ born <= born' /\ NewDocs(c) = (born + 1)..born'
  BY <1>1, <1>2 DEF NewDocs
<1>4. NewDocs(c) \subseteq DocNumbers
  BY <1>1, <1>3 DEF DocNumbers
<1>5. ASSUME NEW d \in NewDocs(c)
      PROVE  /\ NewRow(c, orders, d) \in DocRow
             /\ NewRow(c, orders, d).fm = NewFrontmatter(orders[d - born])
             /\ NewFrontmatter(orders[d - born]) \in Frontmatter
             /\ NewFrontmatter(orders[d - born]).order = orders[d - born]
             /\ d > born /\ d <= born'
  <2>1. d \in (born + 1)..(born + n) /\ d - born \in 1..n
    BY <1>1, <1>2, <1>3
  <2>2. orders[d - born] \in Nat /\ slugs[d - born] \in Slug
    BY <2>1, <1>1
  <2>3. /\ NewFrontmatter(orders[d - born]) \in Frontmatter
        /\ NewFrontmatter(orders[d - born]).order = orders[d - born]
    BY <2>2 DEF NewFrontmatter, Frontmatter
  <2>4. QED
    BY <2>1, <2>2, <2>3, <1>1, <1>2 DEF NewRow, DocRow
<1>6. ASSUME NEW d \in NewDocs(c)
      PROVE  doc'[d] = NewRow(c, orders, d) /\ wanted'[d] = NewFrontmatter(orders[d - born])
  BY <1>2, <1>4
<1>7. ASSUME NEW d \in DocNumbers, d \notin NewDocs(c)
      PROVE  doc'[d] = doc[d] /\ wanted'[d] = wanted[d]
  BY <1>2, <1>7
<1>8. doc' \in [DocNumbers -> DocRow \cup {NoDoc}]
  <2>1. \A d \in DocNumbers : doc'[d] \in DocRow \cup {NoDoc}
    BY <1>5, <1>6, <1>7 DEF TreeTypeOK
  <2>2. QED
    BY <2>1, <1>2
<1>9. wanted' \in [DocNumbers -> Frontmatter \cup {NoDoc}]
  <2>1. \A d \in DocNumbers : wanted'[d] \in Frontmatter \cup {NoDoc}
    BY <1>5, <1>6, <1>7 DEF TreeTypeOK
  <2>2. QED
    BY <2>1, <1>2
<1>10. ASSUME NEW d \in Rows
       PROVE  d \notin NewDocs(c) /\ d <= born /\ doc'[d] = doc[d] /\ wanted'[d] = wanted[d]
  <2>1. d \in DocNumbers /\ d <= born /\ d \in Nat
    BY TreeFacts DEF TreeTypeOK
  <2>2. d \notin NewDocs(c)
    BY <2>1, <1>1, <1>3
  <2>3. QED
    BY <2>1, <2>2, <1>7
<1>11. Rows' = Rows \cup NewDocs(c)
  <2>1. \A d \in NewDocs(c) : d \in DocNumbers /\ doc'[d] # NoDoc
    BY <1>4, <1>5, <1>6, NoDocAssumption
  <2>2. \A d \in DocNumbers : d \notin NewDocs(c) => doc'[d] = doc[d]
    BY <1>7
  <2>3. QED
    BY <2>1, <2>2, <1>10 DEF Rows
<1>12. \A d \in NewDocs(c) : /\ d > born /\ d <= born'
                             /\ doc'[d].fm = wanted'[d] /\ wanted'[d] \in Frontmatter
                             /\ doc'[d].fm.order = orders[d - born]
  BY <1>5, <1>6
<1>13. QED
  BY <1>3, <1>4, <1>8, <1>9, <1>10, <1>11, <1>12

\* Documents are created: whoever looked before knows only of those with older numbers.
LEMMA AddRowsInv ==
    ASSUME TreeInv, NEW c \in Callers, NEW orders, AddRows(c, orders),
           \A i \in DOMAIN treeCall[c].slugs : orders[i] \in Nat,
           depends' \subseteq Rows' \X Rows',
           raced' \in BOOLEAN, raced => raced', moved' \in BOOLEAN, moved => moved',
           ~moved' /\ ~raced' => /\ NewDocs(c) = {born + 1}
                                 /\ \A d \in Rows : doc[d].fm.order < orders[1]
    PROVE  TreeInv'
<1>a. TreeTypeOK /\ born \in Nat
  BY TreeFacts DEF TreeInv
<1>b. Return(c) /\ UNCHANGED <<overwritten, refused>>
  BY DEF AddRows
<1>1. /\ born' \in 0..MaxDocs /\ born <= born'
      /\ NewDocs(c) \subseteq DocNumbers /\ NewDocs(c) = (born + 1)..born'
      /\ doc' \in [DocNumbers -> DocRow \cup {NoDoc}]
      /\ wanted' \in [DocNumbers -> Frontmatter \cup {NoDoc}]
      /\ Rows' = Rows \cup NewDocs(c)
      /\ \A d \in Rows : /\ d \notin NewDocs(c) /\ d <= born
                         /\ doc'[d] = doc[d] /\ wanted'[d] = wanted[d]
      /\ \A d \in NewDocs(c) : /\ d > born /\ d <= born'
                               /\ doc'[d].fm = wanted'[d] /\ wanted'[d] \in Frontmatter
                               /\ doc'[d].fm.order = orders[d - born]
  BY <1>a, RowsAreAdded
<1>2. born' \in Nat /\ \A d \in Rows' : d \in Nat /\ d <= born'
  BY <1>1, <1>a, TreeFacts
<1>3. TreeTypeOK'
  BY <1>a, <1>b, <1>1, <1>2, CallReturns DEF TreeTypeOK, TreeCallFits
<1>4. (\A d \in Rows' : wanted'[d] \in Frontmatter) /\ FrontmatterKept'
  BY <1>b, <1>1 DEF TreeInv, FrontmatterKept
<1>5. OrderFollowsCreation'
  <2> SUFFICES ASSUME ~moved', ~raced', NEW d \in Rows', NEW e \in Rows', d < e
               PROVE  doc'[d].fm.order < doc'[e].fm.order
    BY DEF OrderFollowsCreation
  <2>1. /\ ~moved /\ ~raced /\ NewDocs(c) = {born + 1}
        /\ \A f \in Rows : doc[f].fm.order < orders[1]
    OBVIOUS
  <2>2. \A f \in NewDocs(c) : doc'[f].fm.order = orders[1]
    BY <2>1, <1>1, <1>a
  <2>3. d \in Rows
    BY <2>1, <1>1, <1>2, <1>a
  <2>4. CASE e \in NewDocs(c)
    BY <2>1, <2>2, <2>3, <2>4, <1>1
  <2>5. CASE e \in Rows
    BY <2>1, <2>3, <2>5, <1>1 DEF TreeInv, OrderFollowsCreation
  <2>6. QED
    BY <2>4, <2>5, <1>1
<1>6. \A d \in Rows' : d <= born => /\ d \in Rows /\ doc'[d].slug = doc[d].slug
                                    /\ doc'[d].fm.order = doc[d].fm.order
  BY <1>1, <1>2, <1>a
<1>7. \A b \in Callers : treeCall'[b] \in {Idle, treeCall[b]}
  BY <1>a, <1>b, CallReturns
<1>8. \A b \in Callers : TreeCallKnows(treeCall[b])'
  BY <1>1, <1>2, <1>6, <1>7, CallsStillKnow
<1>9. QED
  BY <1>b, <1>3, <1>4, <1>5, <1>8 DEF TreeInv, RefusedByRaceOnly

\* A call is refused for a slug that was taken after it looked.
LEMMA RefuseRowsInv ==
    ASSUME TreeInv, NEW c \in Callers, RefuseRows(c)
    PROVE  TreeInv'
<1> DEFINE k == treeCall[c]
<1>a. TreeTypeOK /\ TreeCallKnows(k) /\ k.at \in Nat /\ \A d \in Rows : d \in Nat
  BY TreeFacts DEF TreeInv
<1>b. k.kind \in Inserting /\ ~Free(k.slugs) /\ Return(c)
      /\ UNCHANGED <<treeRows, wanted, overwritten, raced, moved>>
  BY DEF RefuseRows
<1>1. \A i, j \in DOMAIN k.slugs : k.slugs[i] = k.slugs[j] => i = j
  BY <1>a, <1>b DEF TreeCallKnows
<1>2. PICK i \in DOMAIN k.slugs : k.slugs[i] \in Taken
  BY <1>b, <1>1 DEF Free
<1>3. PICK d \in Rows : doc[d].slug = k.slugs[i]
  BY <1>2 DEF Taken
<1>4. d > k.at
  BY <1>a, <1>b, <1>2, <1>3 DEF TreeCallKnows
<1>5. refused' = refused
  <2>1. ~ \A e \in Rows : \A h \in DOMAIN k.slugs : e > k.at => doc[e].slug # k.slugs[h]
    BY <1>2, <1>3, <1>4
  <2>2. refused' = (refused \/ \A e \in Rows : \A h \in DOMAIN k.slugs :
                                  e > k.at => doc[e].slug # k.slugs[h])
    BY DEF RefuseRows
  <2>3. refused \in BOOLEAN
    BY <1>a DEF TreeTypeOK
  <2> HIDE DEF k
  <2>4. QED
    BY <2>1, <2>2, <2>3
<1>6. UNCHANGED <<treeRows, treeHistories>>
  BY <1>b, <1>5 DEF treeHistories
<1>7. QED
  BY <1>b, <1>6, ReturnInv

\* A document goes, with the edges at it.
LEMMA DeleteRowInv ==
    ASSUME TreeInv, NEW n \in DocNumbers, DeleteRow(n)
    PROVE  TreeInv'
<1>a. TreeTypeOK /\ born \in Nat
  BY TreeFacts DEF TreeInv
<1>b. UNCHANGED <<born, treeCall, treeCalls, overwritten, raced, moved, refused>>
  BY DEF DeleteRow
<1>1. /\ doc' \in [DocNumbers -> DocRow \cup {NoDoc}]
      /\ wanted' \in [DocNumbers -> Frontmatter \cup {NoDoc}]
      /\ doc'[n] = NoDoc
      /\ \A d \in DocNumbers : d # n => doc'[d] = doc[d] /\ wanted'[d] = wanted[d]
  BY <1>a DEF DeleteRow, TreeTypeOK
<1>2. Rows' = Rows \ {n}
  BY <1>1 DEF Rows
<1>3. \A d \in Rows' : d \in Rows /\ doc'[d] = doc[d] /\ wanted'[d] = wanted[d]
  BY <1>1, <1>2 DEF Rows
<1>4. depends' \subseteq Rows' \X Rows'
  <2>1. depends \subseteq Rows \X Rows /\ depends' = {e \in depends : n \notin {e[1], e[2]}}
    BY <1>a DEF DeleteRow, TreeTypeOK
  <2>2. ASSUME NEW e \in depends' PROVE e \in Rows' \X Rows'
    <3>1. e \in Rows \X Rows /\ e[1] # n /\ e[2] # n
      BY <2>1
    <3>2. QED
      BY <3>1, <1>2
  <2>3. QED
    BY <2>2
<1>5. TreeTypeOK'
  BY <1>a, <1>b, <1>1, <1>2, <1>4 DEF TreeTypeOK, TreeCall
<1>6. \A c \in Callers : TreeCallKnows(treeCall[c])'
  <2>1. \A d \in Rows' : d <= born'
    BY <1>a, <1>b, <1>3 DEF TreeTypeOK
  <2>2. QED
    BY <1>a, <1>b, <1>3, <2>1, CallsStillKnow
<1>7. QED
  BY <1>b, <1>3, <1>5, <1>6 DEF TreeInv, FrontmatterKept, RefusedByRaceOnly,
     OrderFollowsCreation

LEMMA FrontmatterChanges ==
    /\ \A fm \in Frontmatter, o \in OwnerNames :
          Owned(fm, o) \in Frontmatter /\ Owned(fm, o).order = fm.order
    /\ \A fm \in Frontmatter, n \in Nat : Placed(fm, n) \in Frontmatter
    /\ \A r \in DocRow, fm \in Frontmatter :
          /\ Rewritten(r, fm) \in DocRow
          /\ Rewritten(r, fm).slug = r.slug /\ Rewritten(r, fm).fm = fm
BY DEF Owned, Placed, Rewritten, Frontmatter, DocRow

\* Frontmatter is written over what was read: it is what was wanted if that still stood.
LEMMA WriteInv ==
    ASSUME TreeInv, NEW c \in Callers, NEW fms, DOMAIN fms \subseteq Rows,
           \A d \in DOMAIN fms : fms[d] \in Frontmatter,
           WriteFrontmatter(c, fms), Return(c), moved' \in BOOLEAN, moved => moved',
           wanted' \in [DocNumbers -> Frontmatter \cup {NoDoc}],
           \A d \in Rows : wanted'[d] \in Frontmatter,
           \A d \in Rows \ (overwritten \cup Stale(c)) :
              wanted'[d] = IF d \in DOMAIN fms THEN fms[d] ELSE wanted[d],
           ~moved' => \A d \in DOMAIN fms : fms[d].order = doc[d].fm.order
    PROVE  TreeInv'
<1>a. TreeTypeOK /\ born \in Nat /\ \A d \in Rows : d <= born
  BY TreeFacts DEF TreeInv, TreeTypeOK
<1>b. overwritten' = overwritten \cup Stale(c) /\ overwritten' \subseteq DocNumbers
  <2>1. Stale(c) \subseteq DocNumbers
    BY <1>a, TreeFacts DEF Stale
  <2>2. QED
    BY <2>1, <1>a DEF WriteFrontmatter, TreeTypeOK
<1>c. UNCHANGED <<depends, born, raced, refused>>
  BY DEF WriteFrontmatter
<1>1. ASSUME NEW d \in Rows
      PROVE  /\ doc'[d] \in DocRow /\ doc'[d].slug = doc[d].slug
             /\ doc'[d].fm = IF d \in DOMAIN fms THEN fms[d] ELSE doc[d].fm
  <2>1. doc[d] \in DocRow /\ d \in DocNumbers
    BY <1>a, TreeFacts
  <2>2. doc'[d] = IF d \in DOMAIN fms THEN Rewritten(doc[d], fms[d]) ELSE doc[d]
    BY <2>1 DEF WriteFrontmatter
  <2>3. QED
    BY <2>1, <2>2, FrontmatterChanges
<1>2. \A d \in DocNumbers : d \notin Rows => doc'[d] = NoDoc
  BY <1>a, TreeFacts DEF WriteFrontmatter
<1>3. Rows' = Rows /\ doc' \in [DocNumbers -> DocRow \cup {NoDoc}]
  <2>1. \A d \in DocNumbers : doc'[d] # NoDoc <=> d \in Rows
    BY <1>1, <1>2, NoDocAssumption
  <2>2. \A d \in DocNumbers : doc'[d] \in DocRow \cup {NoDoc}
    BY <1>1, <1>2
  <2>3. DOMAIN doc' = DocNumbers /\ doc' = [d \in DOMAIN doc' |-> doc'[d]]
    BY DEF WriteFrontmatter
  <2>4. QED
    BY <2>1, <2>2, <2>3, <1>a, TreeFacts DEF Rows
<1>4. TreeTypeOK'
  BY <1>a, <1>b, <1>c, <1>3, CallReturns DEF TreeTypeOK, TreeCallFits
<1>5. FrontmatterKept'
  <2> SUFFICES ASSUME NEW d \in Rows \ overwritten' PROVE doc'[d].fm = wanted'[d]
    BY <1>3 DEF FrontmatterKept
  <2>1. doc[d].fm = wanted[d] /\ d \in Rows \ (overwritten \cup Stale(c))
    BY <1>b DEF TreeInv, FrontmatterKept
  <2>2. QED
    BY <2>1, <1>1
<1>6. ASSUME ~moved', NEW d \in Rows PROVE doc'[d].fm.order = doc[d].fm.order
  BY <1>1, <1>6
<1>7. OrderFollowsCreation'
  <2> SUFFICES ASSUME ~moved', ~raced'
               PROVE  \A d, e \in Rows : d < e => doc'[d].fm.order < doc'[e].fm.order
    BY <1>3 DEF OrderFollowsCreation
  <2>1. ~moved /\ ~raced
    BY <1>c
  <2>2. QED
    BY <2>1, <1>6 DEF TreeInv, OrderFollowsCreation
<1>8. \A b \in Callers : TreeCallKnows(treeCall[b])'
  BY <1>a, <1>c, <1>1, <1>3, <1>6, CallReturns, CallsStillKnow
<1>9. QED
  BY <1>c, <1>3, <1>4, <1>5, <1>7, <1>8 DEF TreeInv, RefusedByRaceOnly

LEMMA UpdateFrontmatterInv ==
    ASSUME TreeInv, NEW c \in Callers, UpdateFrontmatter(c)
    PROVE  TreeInv'
<1> DEFINE n == treeCall[c].at
           fms == treeCall[c].fms
<1>a. TreeTypeOK
  BY DEF TreeInv
<1>b. /\ DOMAIN fms = {n} /\ n \in DocNumbers /\ fms[n] \in Frontmatter
      /\ Return(c) /\ UNCHANGED moved /\ moved \in BOOLEAN
  <2>1. DOMAIN fms = {n}
    BY <1>a DEF TreeTypeOK, UpdateFrontmatter
  <2>2. QED
    BY <2>1, <1>a, TreeFacts DEF UpdateFrontmatter, TreeTypeOK
<1>1. CASE doc[n] = NoDoc
  <2>1. UNCHANGED <<treeRows, treeHistories>>
    BY <1>1, <1>b DEF UpdateFrontmatter, treeHistories
  <2>2. QED
    BY <2>1, <1>b, ReturnInv
<1>2. CASE doc[n] # NoDoc
  <2>1. PICK o \in OwnerNames :
          /\ WriteFrontmatter(c, [fms EXCEPT ![n] = Owned(@, o)])
          /\ wanted' = [wanted EXCEPT ![n] = Owned(@, o)]
    BY <1>2 DEF UpdateFrontmatter
  <2> DEFINE new == [fms EXCEPT ![n] = Owned(@, o)]
  <2>2. n \in Rows /\ wanted[n] \in Frontmatter
    BY <1>2, <1>b DEF Rows, TreeInv
  <2>3. DOMAIN new = {n} /\ new[n] = Owned(fms[n], o)
    BY <1>b
  <2>4. new[n] \in Frontmatter /\ new[n].order = fms[n].order /\ Owned(wanted[n], o) \in Frontmatter
    BY <2>2, <2>3, <1>b, FrontmatterChanges
  <2>5. n \notin Stale(c) => fms[n] = doc[n].fm
    BY <1>b, <1>2 DEF Stale
  <2>6. ~moved => fms[n].order = doc[n].fm.order
    BY <1>b, <2>2 DEF TreeInv, TreeCallKnows
  <2> HIDE DEF new
  <2>7. /\ wanted' \in [DocNumbers -> Frontmatter \cup {NoDoc}]
        /\ wanted'[n] = Owned(wanted[n], o)
        /\ \A d \in Rows : d # n => wanted'[d] = wanted[d]
    BY <2>1, <2>4, <1>b, <1>a, TreeFacts DEF TreeTypeOK
  <2>8. \A d \in Rows : wanted'[d] \in Frontmatter
    BY <2>4, <2>7 DEF TreeInv
  <2>9. ASSUME NEW d \in Rows \ (overwritten \cup Stale(c))
        PROVE  wanted'[d] = IF d \in DOMAIN new THEN new[d] ELSE wanted[d]
    <3>1. d = n => fms[n] = wanted[n]
      BY <2>9, <2>5, <2>2 DEF TreeInv, FrontmatterKept
    <3>2. QED
      BY <3>1, <2>3, <2>7
  <2>10. WriteFrontmatter(c, new)
    BY <2>1 DEF new
  <2>11. \A d \in DOMAIN new : new[d] \in Frontmatter /\ (~moved' => new[d].order = doc[d].fm.order)
    BY <2>3, <2>4, <2>6, <1>b
  <2>12. QED
    BY <2>2, <2>3, <2>7, <2>8, <2>9, <2>10, <2>11, <1>b, WriteInv
<1>3. QED
  BY <1>1, <1>2

LEMMA ReorderInv ==
    ASSUME TreeInv, NEW c \in Callers, Reorder(c)
    PROVE  TreeInv'
<1> DEFINE fms == treeCall[c].fms
           D == DOMAIN fms
<1>a. TreeTypeOK /\ Return(c)
  BY DEF TreeInv, Reorder
<1>1. CASE ~(D \subseteq Rows)
  BY <1>1, <1>a, ReturnInv DEF Reorder
<1>2. CASE D \subseteq Rows
  <2>1. PICK order \in [D -> 0..(Cardinality(D) - 1)] :
          /\ WriteFrontmatter(c, Reordered(c, order))
          /\ wanted' = [d \in DocNumbers |->
                IF d \in D THEN Placed(wanted[d], order[d]) ELSE wanted[d]]
    BY <1>2 DEF Reorder
  <2> DEFINE new == Reordered(c, order)
  <2>2. moved'
    BY <1>2 DEF Reorder
  <2>2b. moved' \in BOOLEAN
    BY <1>2 DEF Reorder
  <2>3. DOMAIN new = D /\ \A d \in D : new[d] = Placed(fms[d], order[d]) /\ order[d] \in Nat
    <3>1. \A d \in D : order[d] \in 0..(Cardinality(D) - 1)
      BY <2>1
    <3>2. QED
      BY <3>1 DEF Reordered
  <2>4. \A d \in D : /\ fms[d] \in Frontmatter /\ wanted[d] \in Frontmatter
                     /\ new[d] \in Frontmatter /\ Placed(wanted[d], order[d]) \in Frontmatter
    <3>1. \A d \in D : fms[d] \in Frontmatter /\ wanted[d] \in Frontmatter
      BY <1>a, <1>2, TreeFacts DEF TreeInv
    <3>2. QED
      BY <3>1, <2>3, FrontmatterChanges
  <2>5. \A d \in DocNumbers :
            wanted'[d] = IF d \in D THEN Placed(wanted[d], order[d]) ELSE wanted[d]
    BY <2>1
  <2>6. wanted' \in [DocNumbers -> Frontmatter \cup {NoDoc}]
    <3>1. \A d \in DocNumbers : wanted'[d] \in Frontmatter \cup {NoDoc}
      BY <2>4, <2>5, <1>a DEF TreeTypeOK
    <3>2. QED
      BY <2>1, <3>1
  <2> HIDE DEF new
  <2>7. \A d \in Rows : d \in DocNumbers /\ wanted'[d] \in Frontmatter
    BY <2>4, <2>5, <1>a, TreeFacts DEF TreeInv
  <2>8. ASSUME NEW d \in Rows \ (overwritten \cup Stale(c))
        PROVE  wanted'[d] = IF d \in DOMAIN new THEN new[d] ELSE wanted[d]
    <3>1. d \in D => fms[d] = doc[d].fm
      BY <2>8 DEF Stale, Rows
    <3>2. d \in D => fms[d] = wanted[d]
      BY <3>1, <2>8 DEF TreeInv, FrontmatterKept
    <3>3. QED
      BY <3>2, <2>3, <2>5, <2>7
  <2>9. WriteFrontmatter(c, new)
    BY <2>1 DEF new
  <2>10. QED
    BY <1>2, <1>a, <2>2, <2>2b, <2>3, <2>4, <2>6, <2>7, <2>8, <2>9, WriteInv
<1>3. QED
  BY <1>1, <1>2

\* A call that begins has a place in the numbers of calls.
LEMMA BeginInv ==
    ASSUME TreeInv, NEW c \in Callers, NEW k, TreeCallFits(k), TreeCallKnows(k), Begin(c, k)
    PROVE  TreeInv'
<1>1. treeCalls' \in 0..MaxTreeCalls /\ depends \subseteq Rows \X Rows
  BY TreeAssumption DEF Begin, TreeInv, TreeTypeOK
<1>2. QED
  BY <1>1, TreeCallMoves DEF Begin, treeRows

\* What an action reads, of rows that are there, is frontmatter as it is.
LEMMA ReadingFits ==
    ASSUME TreeInv, NEW D \in SUBSET Rows, NEW kind \in {"annotate", "reorder"},
           NEW at \in 0..MaxDocs, kind = "annotate" => D = {at},
           NEW k, k = [Idle EXCEPT !.kind = kind, !.at = at, !.fms = ReadOf(D)]
    PROVE  TreeCallFits(k) /\ TreeCallKnows(k)
<1>1. ReadOf(D) \in [D -> Frontmatter] /\ D \in SUBSET DocNumbers
  BY TreeFacts DEF ReadOf, TreeInv
<1>2. k \in TreeCall(D) /\ k.kind = kind /\ k.at = at /\ k.fms = ReadOf(D)
  BY <1>1, IdleFits DEF TreeCall, TreeKinds
<1>3. DOMAIN k.fms = D /\ \A d \in D : k.fms[d] = doc[d].fm /\ d <= born
  BY <1>2 DEF ReadOf, TreeInv, TreeTypeOK
<1>4. TreeCallFits(k)
  BY <1>1, <1>2, <1>3 DEF TreeCallFits
<1>5. TreeCallKnows(k)
  BY <1>2, <1>3 DEF TreeCallKnows, Inserting
<1>6. QED
  BY <1>4, <1>5

\* A call that names documents or slugs, and has read no frontmatter.
LEMMA NamingFits ==
    ASSUME TreeInv, NEW kind \in {"order", "copy", "template", "ingest", "depend"},
           NEW slugs \in Seq(Slug), NEW at \in 0..MaxDocs, NEW onto \in 0..MaxDocs,
           kind \in {"order", "copy", "ingest"} => Len(slugs) = 1,
           kind \in {"order", "copy", "template"} => at = born /\ Free(slugs),
           NEW k, k = [Idle EXCEPT !.kind = kind, !.slugs = slugs, !.at = at, !.onto = onto]
    PROVE  TreeCallFits(k) /\ TreeCallKnows(k)
<1>1. k \in TreeCall({}) /\ k.kind = kind /\ k.slugs = slugs /\ k.at = at /\ k.fms = Idle.fms
  BY IdleFits DEF TreeCall, TreeKinds, Inserting
<1>2. TreeCallFits(k)
  BY <1>1 DEF TreeCallFits
<1>3. DOMAIN k.fms = {} /\ born \in Nat
  BY <1>1, IdleFits, TreeFacts DEF TreeInv
<1>4. Free(slugs) => /\ \A i, j \in DOMAIN slugs : slugs[i] = slugs[j] => i = j
                     /\ \A d \in Rows : \A i \in DOMAIN slugs : doc[d].slug # slugs[i]
  BY DEF Free, Taken
<1>5. kind \notin {"ingest", "depend"} => /\ k.at = born
                                          /\ \A i, j \in DOMAIN slugs : slugs[i] = slugs[j] => i = j
                                          /\ \A d \in Rows : \A i \in DOMAIN slugs :
                                                doc[d].slug # slugs[i]
  BY <1>1, <1>4
<1>6. TreeCallKnows(k)
  BY <1>1, <1>3, <1>5 DEF TreeCallKnows, Inserting
<1>7. QED
  BY <1>2, <1>6

\* A call that goes on to insert keeps its slug.
GoneOn(call, kind, order, at, counted) ==
    [call EXCEPT !.kind = kind, !.order = order, !.at = at, !.counted = counted]

LEMMA GoingOnFits ==
    ASSUME TreeInv, NEW c \in Callers, treeCall[c].kind \in {"order", "ingest"},
           NEW kind \in {"insert", "insertIngested"}, NEW order \in Nat, NEW at \in 0..MaxDocs,
           NEW counted \in 0..MaxDocs,
           NEW k, k = GoneOn(treeCall[c], kind, order, at, counted)
    PROVE  /\ TreeCallFits(k) /\ k.kind = kind /\ k.order = order /\ k.at = at
           /\ k.counted = counted /\ k.slugs = treeCall[c].slugs /\ k.fms = treeCall[c].fms
           /\ k.slugs \in Seq(Slug) /\ Len(k.slugs) = 1
<1>1. PICK D \in SUBSET DocNumbers : treeCall[c] \in TreeCall(D)
  BY DEF TreeInv, TreeTypeOK
<1>2. Len(treeCall[c].slugs) = 1
  BY DEF TreeInv, TreeTypeOK
<1>3. /\ k \in TreeCall(D) /\ k.kind = kind /\ k.order = order /\ k.at = at
      /\ k.counted = counted /\ k.slugs = treeCall[c].slugs /\ k.fms = treeCall[c].fms
      /\ k.slugs \in Seq(Slug)
  BY <1>1 DEF GoneOn, TreeCall, TreeKinds, Inserting
<1>4. TreeCallFits(k)
  BY <1>2, <1>3 DEF TreeCallFits
<1>5. QED
  BY <1>2, <1>3, <1>4

\* A call looks for a slug of its own.
LEMMA ReadSlugsInv ==
    ASSUME TreeInv, NEW c \in Callers, ReadSlugs(c)
    PROVE  TreeInv'
<1>a. TreeTypeOK /\ born \in 0..MaxDocs /\ 0 \in 0..MaxDocs
  BY TreeAssumption DEF TreeInv, TreeTypeOK
<1>1. PICK base \in Bases, kind \in {"order", "copy"} :
        Begin(c, [Idle EXCEPT !.kind = kind, !.slugs = <<UniqueSlug(base, Taken)>>, !.at = born])
  BY DEF ReadSlugs
<1> DEFINE slug == UniqueSlug(base, Taken)
           slugs == <<slug>>
<1>2. slug \in Slug /\ slug \notin Taken
  BY <1>a, TakenIsFinite, UniqueSlugIsFree
<1> HIDE DEF slug
<1>3. slugs \in Seq(Slug) /\ Len(slugs) = 1 /\ DOMAIN slugs = {1} /\ slugs[1] = slug
  BY <1>2
<1> HIDE DEF slugs
<1>4. Free(slugs)
  BY <1>2, <1>3 DEF Free
<1> DEFINE k == [Idle EXCEPT !.kind = kind, !.slugs = slugs, !.at = born, !.onto = 0]
<1>5. k = [Idle EXCEPT !.kind = kind, !.slugs = slugs, !.at = born]
  BY IdleFits DEF TreeCall
<1>6. Begin(c, k)
  BY <1>1, <1>5 DEF slugs, slug
<1>7. k = [Idle EXCEPT !.kind = kind, !.slugs = slugs, !.at = born, !.onto = 0]
  OBVIOUS
<1> HIDE DEF k
<1>8. TreeCallFits(k) /\ TreeCallKnows(k)
  BY <1>a, <1>3, <1>4, <1>7, NamingFits
<1>9. QED
  BY <1>6, <1>8, BeginInv

\* The slugs of a template are free and differ: each is new to those before it.
LEMMA ReservedAreFree ==
    ASSUME TreeTypeOK, NEW n \in Nat,
           NEW slugs \in [1..n -> [base : Bases, n : Nat]],
           \A i \in 1..n : slugs[i] = UniqueSlug(slugs[i].base,
                                                 Taken \cup {slugs[j] : j \in 1..(i - 1)})
    PROVE  slugs \in Seq(Slug) /\ Free(slugs)
<1>1. ASSUME NEW i \in 1..n
      PROVE  slugs[i] \in Slug /\ slugs[i] \notin Taken /\ \A j \in 1..(i - 1) : slugs[i] # slugs[j]
  <2> DEFINE before == {slugs[j] : j \in 1..(i - 1)}
             taken == Taken \cup before
  <2>1. IsFiniteSet(taken)
    <3>1. IsFiniteSet(1..(i - 1))
      <4>1. i - 1 \in Int
        OBVIOUS
      <4> DEFINE last == i - 1
      <4> HIDE DEF last
      <4>2. IsFiniteSet(1..last)
        BY <4>1, FS_Interval DEF last
      <4>3. QED
        BY <4>2 DEF last
    <3> DEFINE f == [j \in 1..(i - 1) |-> slugs[j]]
    <3>2. f \in Surjection(1..(i - 1), before)
      BY DEF Surjection
    <3>3. IsFiniteSet(before)
      BY <3>1, <3>2, FS_Surjection
    <3> HIDE DEF before
    <3>4. QED
      BY <3>3, TakenIsFinite, FS_Union
  <2>2. slugs[i] = UniqueSlug(slugs[i].base, taken) /\ slugs[i].base \in Bases
    OBVIOUS
  <2>3. before \subseteq taken /\ Taken \subseteq taken /\ \A j \in 1..(i - 1) : slugs[j] \in before
    OBVIOUS
  <2> HIDE DEF taken, before
  <2>4. slugs[i] \in Slug /\ slugs[i] \notin taken
    BY <2>1, <2>2, UniqueSlugIsFree
  <2>5. QED
    BY <2>3, <2>4
<1>2. DOMAIN slugs = 1..n /\ slugs \in [1..n -> Slug]
  BY <1>1
<1>3. \A i, j \in 1..n : slugs[i] = slugs[j] => i = j
  <2> SUFFICES ASSUME NEW i \in 1..n, NEW j \in 1..n, i < j PROVE slugs[i] # slugs[j]
    OBVIOUS
  <2>1. i \in 1..(j - 1)
    OBVIOUS
  <2>2. QED
    BY <2>1, <1>1
<1>4. Free(slugs)
  BY <1>1, <1>2, <1>3 DEF Free
<1>5. QED
  BY <1>2, <1>4

LEMMA ReserveSlugsInv ==
    ASSUME TreeInv, NEW c \in Callers, ReserveSlugs(c)
    PROVE  TreeInv'
<1>a. TreeTypeOK /\ born \in 0..MaxDocs /\ 0 \in 0..MaxDocs
  BY TreeAssumption DEF TreeInv, TreeTypeOK
<1>1. PICK slugs \in SlugLists :
        /\ \A i \in DOMAIN slugs :
              slugs[i] = UniqueSlug(slugs[i].base, Taken \cup {slugs[j] : j \in 1..(i - 1)})
        /\ Begin(c, [Idle EXCEPT !.kind = "template", !.slugs = slugs, !.at = born])
  BY DEF ReserveSlugs
<1>2. PICK n \in 1..TemplateSize :
        slugs \in [1..n -> [base : Bases, n : 1..(Cardinality(Taken) + n)]]
  BY DEF SlugLists
<1>3. n \in Nat /\ slugs \in [1..n -> [base : Bases, n : Nat]] /\ DOMAIN slugs = 1..n
  BY <1>2
<1>4. slugs \in Seq(Slug) /\ Free(slugs)
  <2>1. \A i \in 1..n :
           slugs[i] = UniqueSlug(slugs[i].base, Taken \cup {slugs[j] : j \in 1..(i - 1)})
    BY <1>1, <1>3
  <2>2. QED
    BY <1>a, <1>3, <2>1, ReservedAreFree
<1> DEFINE k == [Idle EXCEPT !.kind = "template", !.slugs = slugs, !.at = born, !.onto = 0]
<1>5. k = [Idle EXCEPT !.kind = "template", !.slugs = slugs, !.at = born]
  BY IdleFits DEF TreeCall
<1>6. Begin(c, k)
  BY <1>1, <1>5
<1>7. k = [Idle EXCEPT !.kind = "template", !.slugs = slugs, !.at = born, !.onto = 0]
  OBVIOUS
<1> HIDE DEF k
<1>8. TreeCallFits(k) /\ TreeCallKnows(k)
  BY <1>a, <1>4, <1>7, NamingFits
<1>9. QED
  BY <1>6, <1>8, BeginInv

LEMMA ReadNewestInv ==
    ASSUME TreeInv, NEW c \in Callers, ReadNewest(c)
    PROVE  TreeInv'
<1> DEFINE order == 1 + IF Rows = {} THEN 0 ELSE doc[Max(Rows)].fm.order
<1>a. /\ TreeTypeOK /\ TreeCallKnows(treeCall[c]) /\ treeCall[c].kind = "order"
      /\ treeCall[c].at \in 0..MaxDocs /\ treeCalls \in 0..MaxTreeCalls
      /\ depends \subseteq Rows \X Rows /\ born \in 0..MaxDocs /\ born \in Nat
  BY TreeFacts DEF TreeInv, TreeTypeOK, ReadNewest
<1>1. Rows # {} => Max(Rows) \in Rows /\ \A d \in Rows : d <= Max(Rows)
  <2> SUFFICES ASSUME Rows # {} PROVE Max(Rows) \in Rows /\ \A d \in Rows : d <= Max(Rows)
    OBVIOUS
  <2>1. Rows \in SUBSET (0..born) /\ born \in Nat
    BY <1>a, TreeFacts DEF TreeTypeOK
  <2>2. \E x \in Rows : \A y \in Rows : x >= y
    BY <2>1, GreatestExists
  <2>3. Max(Rows) \in Rows /\ \A y \in Rows : Max(Rows) >= y
    BY <2>2 DEF Max
  <2>4. QED
    BY <2>1, <2>3
<1>2. order \in Nat
  BY <1>1, <1>a, TreeFacts
<1>3. ASSUME ~moved, ~raced, NEW d \in Rows PROVE doc[d].fm.order < order
  <2>1. d = Max(Rows) \/ d < Max(Rows)
    BY <1>1, <1>a, TreeFacts
  <2>2. doc[d].fm.order <= doc[Max(Rows)].fm.order
    BY <2>1, <1>1, <1>3, <1>a, TreeFacts DEF TreeInv, OrderFollowsCreation
  <2>3. doc[d].fm.order \in Nat /\ doc[Max(Rows)].fm.order \in Nat
    BY <1>1, <1>a, TreeFacts
  <2>4. QED
    BY <2>2, <2>3
<1> HIDE DEF order
<1>4. PICK k : k = GoneOn(treeCall[c], "insert", order, treeCall[c].at, born)
  OBVIOUS
<1>5. treeCall' = [treeCall EXCEPT ![c] = k] /\ UNCHANGED <<treeRows, treeCalls, treeHistories>>
  <2>1. k = [treeCall[c] EXCEPT !.kind = "insert", !.counted = born, !.order = order]
    <3>1. PICK D \in SUBSET DocNumbers : treeCall[c] \in TreeCall(D)
      BY DEF TreeInv, TreeTypeOK
    <3>2. QED
      BY <1>4, <3>1 DEF GoneOn, TreeCall
  <2>2. QED
    BY <2>1 DEF ReadNewest, Advance, order
<1>6. /\ TreeCallFits(k) /\ k.kind = "insert" /\ k.order = order /\ k.at = treeCall[c].at
      /\ k.counted = born /\ k.slugs = treeCall[c].slugs /\ k.fms = treeCall[c].fms
  BY <1>a, <1>2, <1>4, GoingOnFits
<1>7. TreeCallKnows(k)
  BY <1>a, <1>3, <1>6 DEF TreeCallKnows, Inserting
<1>8. QED
  BY <1>a, <1>5, <1>6, <1>7, TreeCallMoves DEF treeRows

LEMMA UpsertIngestedInv ==
    ASSUME TreeInv, NEW c \in Callers, UpsertIngested(c)
    PROVE  TreeInv'
<1>a. /\ TreeTypeOK /\ treeCall[c].kind = "ingest" /\ treeCalls \in 0..MaxTreeCalls
      /\ depends \subseteq Rows \X Rows /\ born \in 0..MaxDocs /\ born \in Nat
      /\ treeCall[c].order \in Nat /\ treeCall[c].counted \in 0..MaxDocs
      /\ TreeCallKnows(treeCall[c])
  BY TreeFacts DEF TreeInv, TreeTypeOK, UpsertIngested
<1>1. CASE treeCall[c].slugs[1] \in Taken
  <2>1. treeCall' = [treeCall EXCEPT ![c] = Idle]
        /\ UNCHANGED <<treeRows, treeCalls, treeHistories>>
    BY <1>1 DEF UpsertIngested, Advance
  <2>2. QED
    BY <1>a, <2>1, IdleFits, TreeCallMoves DEF treeRows
<1>2. CASE treeCall[c].slugs[1] \notin Taken
  <2>1. PICK k : k = GoneOn(treeCall[c], "insertIngested", treeCall[c].order, born,
                            treeCall[c].counted)
    OBVIOUS
  <2>2. k = [treeCall[c] EXCEPT !.kind = "insertIngested", !.at = born]
    <3>1. PICK D \in SUBSET DocNumbers : treeCall[c] \in TreeCall(D)
      BY DEF TreeInv, TreeTypeOK
    <3>2. QED
      BY <2>1, <3>1 DEF GoneOn, TreeCall
  <2>3. treeCall' = [treeCall EXCEPT ![c] = k] /\ UNCHANGED <<treeRows, treeCalls, treeHistories>>
    BY <1>2, <2>2 DEF UpsertIngested, Advance
  <2>4. /\ TreeCallFits(k) /\ k.kind = "insertIngested" /\ k.at = born
        /\ k.slugs = treeCall[c].slugs /\ k.fms = treeCall[c].fms
        /\ k.slugs \in Seq(Slug) /\ Len(k.slugs) = 1
    BY <1>a, <2>1, GoingOnFits
  <2>5. DOMAIN k.slugs = {1} /\ \A d \in Rows : doc[d].slug # k.slugs[1]
    BY <1>2, <2>4 DEF Taken
  <2>6. TreeCallKnows(k)
    BY <1>a, <2>4, <2>5 DEF TreeCallKnows, Inserting
  <2>7. QED
    BY <1>a, <2>3, <2>4, <2>6, TreeCallMoves DEF treeRows
<1>3. QED
  BY <1>1, <1>2

\* An edge is made between rows that are there.
LEMMA CreateDependencyInv ==
    ASSUME TreeInv, NEW c \in Callers, CreateDependency(c)
    PROVE  TreeInv'
<1>1. /\ TreeTypeOK /\ Return(c) /\ treeCall' = [treeCall EXCEPT ![c] = Idle]
      /\ UNCHANGED <<doc, born, treeHistories>>
  BY DEF TreeInv, CreateDependency, Return
<1>2. treeCalls' \in 0..MaxTreeCalls
  BY <1>1, CallReturns
<1>3. depends' \subseteq Rows \X Rows
  BY <1>1 DEF CreateDependency, TreeTypeOK
<1>4. QED
  BY <1>1, <1>2, <1>3, IdleFits, TreeCallMoves

LEMMA TreeBegins ==
    ASSUME TreeInv, NEW c \in Callers,
           \/ \E d \in DocNumbers : ReadFrontmatter(c, d)
           \/ \E D \in SUBSET DocNumbers : ReadForReorder(c, D)
           \/ FindIngested(c)
           \/ \E d, e \in DocNumbers : FindDependency(c, d, e)
    PROVE  TreeInv'
<1>a. TreeTypeOK /\ DocNumbers \subseteq 0..MaxDocs /\ 0 \in 0..MaxDocs
  BY TreeAssumption DEF TreeInv, DocNumbers
<1>1. ASSUME NEW d \in DocNumbers, ReadFrontmatter(c, d) PROVE TreeInv'
  <2>1. PICK k : k = [Idle EXCEPT !.kind = "annotate", !.at = d, !.fms = ReadOf({d})]
    OBVIOUS
  <2>2. Begin(c, k) /\ {d} \in SUBSET Rows /\ d \in 0..MaxDocs
    BY <1>1, <2>1, <1>a DEF ReadFrontmatter, Rows
  <2>3. TreeCallFits(k) /\ TreeCallKnows(k)
    BY <2>1, <2>2, ReadingFits
  <2>4. QED
    BY <2>2, <2>3, BeginInv
<1>2. ASSUME NEW D \in SUBSET DocNumbers, ReadForReorder(c, D) PROVE TreeInv'
  <2>1. PICK k : k = [Idle EXCEPT !.kind = "reorder", !.at = 0, !.fms = ReadOf(D)]
    OBVIOUS
  <2>2. k = [Idle EXCEPT !.kind = "reorder", !.fms = ReadOf(D)]
    BY <2>1, IdleFits DEF TreeCall
  <2>3. Begin(c, k) /\ D \in SUBSET Rows
    BY <1>2, <2>2 DEF ReadForReorder
  <2>4. TreeCallFits(k) /\ TreeCallKnows(k)
    BY <1>a, <2>1, <2>3, ReadingFits
  <2>5. QED
    BY <2>3, <2>4, BeginInv
<1>3. ASSUME FindIngested(c) PROVE TreeInv'
  <2>1. PICK base \in Bases :
          Begin(c, [Idle EXCEPT !.kind = "ingest", !.slugs = <<[base |-> base, n |-> 1]>>])
    BY <1>3 DEF FindIngested
  <2> DEFINE slugs == <<[base |-> base, n |-> 1]>>
  <2>2. slugs \in Seq(Slug) /\ Len(slugs) = 1
    BY DEF Slug
  <2> HIDE DEF slugs
  <2>3. PICK k : k = [Idle EXCEPT !.kind = "ingest", !.slugs = slugs, !.at = 0, !.onto = 0]
    OBVIOUS
  <2>4. k = [Idle EXCEPT !.kind = "ingest", !.slugs = slugs]
    BY <2>3, IdleFits DEF TreeCall
  <2>5. Begin(c, k)
    BY <2>1, <2>4 DEF slugs
  <2>6. TreeCallFits(k) /\ TreeCallKnows(k)
    BY <2>2, <2>3, <1>a, NamingFits
  <2>7. QED
    BY <2>5, <2>6, BeginInv
<1>4. ASSUME NEW d \in DocNumbers, NEW e \in DocNumbers, FindDependency(c, d, e) PROVE TreeInv'
  <2>1. PICK k : k = [Idle EXCEPT !.kind = "depend", !.slugs = <<>>, !.at = d, !.onto = e]
    OBVIOUS
  <2>2. k = [Idle EXCEPT !.kind = "depend", !.at = d, !.onto = e]
    BY <2>1, IdleFits DEF TreeCall
  <2>3. Begin(c, k) /\ <<>> \in Seq(Slug)
    <3>1. Begin(c, [Idle EXCEPT !.kind = "depend", !.at = d, !.onto = e])
      BY <1>4, Zenon DEF FindDependency
    <3>2. QED
      BY <2>2, <3>1
  <2>4. TreeCallFits(k) /\ TreeCallKnows(k)
    BY <1>a, <2>1, <2>3, NamingFits
  <2>5. QED
    BY <2>3, <2>4, BeginInv
<1>5. QED
  BY <1>1, <1>2, <1>3, <1>4

\* One document is created: by createDocument after all there are, otherwise wherever its
\* order puts it.
LEMMA CreateRowInv ==
    ASSUME TreeInv, NEW c \in Callers, CreateRow(c) \/ CopyTemplate(c) \/ CreateIngested(c)
    PROVE  TreeInv'
<1>a. /\ TreeTypeOK /\ TreeCallKnows(treeCall[c]) /\ treeCall[c].order \in Nat
      /\ moved \in BOOLEAN /\ raced \in BOOLEAN /\ born \in Nat
      /\ treeCall[c].kind \in {"insert", "copy", "insertIngested"}
  BY TreeFacts DEF TreeInv, TreeTypeOK, CreateRow, CopyTemplate, CreateIngested
<1>b. treeCall[c].slugs \in Seq(Slug) /\ Len(treeCall[c].slugs) = 1
  BY <1>a, TreeFacts DEF TreeTypeOK
<1>c. DOMAIN treeCall[c].slugs = {1} /\ NewDocs(c) = {born + 1}
  BY <1>a, <1>b DEF NewDocs
<1>d. ASSUME NEW orders, AddRows(c, orders), UNCHANGED depends, orders[1] \in Nat
      PROVE  /\ depends' \subseteq Rows' \X Rows'
             /\ \A i \in DOMAIN treeCall[c].slugs : orders[i] \in Nat
  <2>1. \A i \in DOMAIN treeCall[c].slugs : orders[i] \in Nat
    BY <1>c, <1>d
  <2>2. Rows' = Rows \cup NewDocs(c)
    BY <1>a, <1>d, <2>1, RowsAreAdded
  <2>3. QED
    BY <2>1, <2>2, <1>a, <1>d DEF TreeTypeOK
<1>1. CASE CreateRow(c)
  <2>1. PICK orders : orders = <<treeCall[c].order>>
    OBVIOUS
  <2>2. /\ treeCall[c].kind = "insert" /\ AddRows(c, orders) /\ UNCHANGED <<depends, moved>>
        /\ raced' = (raced \/ treeCall[c].counted # born) /\ orders[1] = treeCall[c].order
    BY <1>1, <2>1, Zenon DEF CreateRow
  <2>3. raced' \in BOOLEAN /\ (raced => raced') /\ (~raced' => ~raced /\ treeCall[c].counted = born)
    BY <2>2, <1>a
  <2>4. ~moved' /\ ~raced' => \A d \in Rows : doc[d].fm.order < orders[1]
    BY <1>a, <2>2, <2>3 DEF TreeCallKnows
  <2>5. QED
    BY <1>a, <1>c, <1>d, <2>2, <2>3, <2>4, AddRowsInv
<1>2. ASSUME NEW n \in {0, 1}, AddRows(c, <<n>>), moved' = TRUE, UNCHANGED <<depends, raced>>
      PROVE  TreeInv'
  <2>1. PICK orders : orders = <<n>>
    OBVIOUS
  <2>2. AddRows(c, orders) /\ orders[1] \in Nat
    BY <1>2, <2>1
  <2>3. QED
    BY <1>a, <1>d, <1>2, <2>2, AddRowsInv
<1>3. QED
  BY <1>1, <1>2 DEF CopyTemplate, CreateIngested

\* The documents of a template are created, with the edges among them.
LEMMA InsertTemplateInv ==
    ASSUME TreeInv, NEW c \in Callers, InsertTemplate(c)
    PROVE  TreeInv'
<1>a. /\ TreeTypeOK /\ raced \in BOOLEAN
  BY DEF TreeInv, TreeTypeOK
<1>1. PICK orders \in [DOMAIN treeCall[c].slugs -> 0..(TemplateSize - 1)] : AddRows(c, orders)
  BY DEF InsertTemplate
<1>2. \A i \in DOMAIN treeCall[c].slugs : orders[i] \in Nat
  BY <1>1
<1>3. PICK edges \in SUBSET {e \in NewDocs(c) \X NewDocs(c) : e[1] # e[2]} :
        depends' = depends \cup edges
  BY DEF InsertTemplate
<1>4. Rows' = Rows \cup NewDocs(c)
  BY <1>a, <1>1, <1>2, RowsAreAdded
<1>5. depends' \subseteq Rows' \X Rows'
  <2>1. edges \subseteq NewDocs(c) \X NewDocs(c) /\ depends \subseteq Rows \X Rows
    BY <1>a DEF TreeTypeOK
  <2>2. QED
    BY <2>1, <1>3, <1>4
<1>6. moved' = TRUE /\ UNCHANGED raced
  BY DEF InsertTemplate
<1>7. QED
  BY <1>a, <1>1, <1>2, <1>5, <1>6, AddRowsInv

LEMMA TreeStepInv == TreeInv /\ [TreeNext]_treeVars => TreeInv'
<1> SUFFICES ASSUME TreeInv, [TreeNext]_treeVars PROVE TreeInv'
  OBVIOUS
<1>1. CASE UNCHANGED treeVars
  <2>1. Rows' = Rows
    BY <1>1 DEF treeVars, treeRows, Rows
  <2>2. QED
    BY <1>1, <2>1 DEF treeVars, treeRows, treeHistories, TreeInv, TreeTypeOK, TreeCallKnows,
       FrontmatterKept, RefusedByRaceOnly, OrderFollowsCreation
<1>2. CASE \E d \in DocNumbers : DeleteRow(d)
  BY <1>2, DeleteRowInv
<1>3. ASSUME NEW c \in Callers,
             ReadSlugs(c) \/ ReadNewest(c) \/ ReserveSlugs(c) \/ UpsertIngested(c)
      PROVE  TreeInv'
  BY <1>3, ReadSlugsInv, ReadNewestInv, ReserveSlugsInv, UpsertIngestedInv
<1>4. ASSUME NEW c \in Callers,
             \/ \E d \in DocNumbers : ReadFrontmatter(c, d)
             \/ \E D \in SUBSET DocNumbers : ReadForReorder(c, D)
             \/ FindIngested(c)
             \/ \E d, e \in DocNumbers : FindDependency(c, d, e)
      PROVE  TreeInv'
  BY <1>4, TreeBegins
<1>5. ASSUME NEW c \in Callers, CreateRow(c) \/ CopyTemplate(c) \/ CreateIngested(c)
      PROVE  TreeInv'
  BY <1>5, CreateRowInv
<1>6. ASSUME NEW c \in Callers, InsertTemplate(c) \/ RefuseRows(c) PROVE TreeInv'
  BY <1>6, InsertTemplateInv, RefuseRowsInv
<1>7. ASSUME NEW c \in Callers, UpdateFrontmatter(c) \/ Reorder(c) \/ CreateDependency(c)
      PROVE  TreeInv'
  BY <1>7, UpdateFrontmatterInv, ReorderInv, CreateDependencyInv
<1>8. QED
  BY <1>1, <1>2, <1>3, <1>4, <1>5, <1>6, <1>7 DEF TreeNext

\* However many calls overlap: what users wrote in the frontmatter of a document stays,
\* unless that document was written over unread; a document is refused for its slug only
\* where one with that slug was created after the call had looked; and documents follow
\* each other as createDocument made them, until a reorder, an ingest, a template or a
\* count that another creation overtook (documents.ts:66-85, 245-279, 341-395, 481-511;
\* templates.ts:50-147; slug.ts:22-28).
THEOREM TheTreeAlwaysHolds == TreeSpec => []TreeHolds
<1>1. TreeInv => TreeHolds
  BY DEF TreeInv, TreeHolds
<1>2. QED
  BY <1>1, TreeInitInv, TreeStepInv, PTL DEF TreeSpec

-----------------------------------------------------------------------------
(***************************************************************************)
(* DocumentBody, for any documents, bodies and number of writes: the       *)
(* copies of a body stay in step.                                          *)
(***************************************************************************)

\* The inductive invariant.  A document that is not there has no Yjs state; a room that
\* counts updates has an editor, and what is to be folded is there.
BodyInv ==
    /\ BodyTypeOK
    /\ CopiesAgree
    /\ \A d \in Docs : d \notin made => ydoc[d] = NoBody
    /\ \A d \in Docs : counter[d] => /\ tab[d].stage # "closed"
                                     /\ d \in made => ydoc[d] # NoBody

Identified == {b \in Body : b.ids}
Tab == [stage : EditorStages, initial : Maybe]

LEMMA BodyFacts ==
    ASSUME BodyInv
    PROVE  /\ \A b \in Body : /\ Projected(b) \in Body /\ Projected(b) # NoBody
                              /\ Projected(b).ids = b.ids
                              /\ Adopted(b) \in Identified /\ Adopted(b) # NoBody
           /\ Closed \in Tab /\ Closed.stage = "closed"
           /\ \A d \in Docs : /\ json[d] \in Maybe /\ rows[d] \in Maybe
                              /\ ydoc[d] \in Identified \cup {NoBody}
                              /\ ydoc[d] # NoBody => ydoc[d] \in Body
                              /\ tab[d] \in Tab /\ tab[d].initial \in Maybe
                              /\ tab[d].stage \in EditorStages
                              /\ stash[d] \in Maybe /\ snapshots[d] \in SUBSET Maybe
           /\ NoBody \notin Body /\ Maybe = Body \cup {NoBody}
           /\ writes \in Nat /\ writes + 1 # writes
<1>1. \A b \in Body : /\ Projected(b) \in Body /\ Projected(b).ids = b.ids
                      /\ Adopted(b) \in Identified
  BY DEF Projected, Adopted, Body, Identified
<1>2. Closed \in Tab /\ Closed.stage = "closed"
  BY DEF Closed, Tab, EditorStages, Maybe
<1>3. \A d \in Docs : /\ json[d] \in Maybe /\ rows[d] \in Maybe
                      /\ ydoc[d] \in Identified \cup {NoBody}
                      /\ tab[d] \in Tab
                      /\ stash[d] \in Maybe /\ snapshots[d] \in SUBSET Maybe
  BY DEF BodyInv, BodyTypeOK, Identified, Tab
<1>4. Identified \subseteq Body
  BY DEF Identified
<1>5. QED
  BY <1>1, <1>2, <1>3, <1>4, NoBodyAssumption DEF Tab, Maybe, BodyInv, BodyTypeOK

LEMMA BodyInitInv == BodyInit => BodyInv
<1> SUFFICES ASSUME BodyInit PROVE BodyInv
  OBVIOUS
<1>1. Closed \in [stage : EditorStages, initial : Maybe]
  BY DEF Closed, EditorStages, Maybe
<1>2. BodyTypeOK
  BY <1>1 DEF BodyInit, BodyTypeOK, Maybe
<1>3. QED
  BY <1>2 DEF BodyInit, BodyInv, CopiesAgree

\* A body is written to pages and rows of documents that were there or come to be.
LEMMA ProjectKeeps ==
    ASSUME BodyInv, NEW D \in SUBSET Docs, NEW b \in Body, Project(D, b), writes' \in Nat,
           UNCHANGED <<live, tab, snapshots, stash>>,
           \A d \in D : d \in made \/ ~counter[d]
    PROVE  BodyInv'
<1>1. /\ UNCHANGED <<ydoc, unfolded, counter, tab, snapshots, stash>>
      /\ made \subseteq made'
  BY DEF live, Project, stored
<1>2. CASE /\ json' = [d \in Docs |-> IF d \in D THEN b ELSE json[d]]
           /\ rows' = WithRows(D, b)
           /\ past' = past \cup {d \in D : ydoc[d] # NoBody}
           /\ made' = made \cup D
           /\ UNCHANGED rejected
  <2>1. /\ json' \in [Docs -> Maybe] /\ rows' \in [Docs -> Maybe]
        /\ \A d \in Docs : d \notin D => json'[d] = json[d] /\ rows'[d] = rows[d]
    BY <1>2, BodyFacts DEF WithRows
  <2>2. BodyTypeOK'
    BY <1>1, <1>2, <2>1 DEF BodyInv, BodyTypeOK
  <2>3. ASSUME NEW d \in Docs, ydoc'[d] # NoBody, ~unfolded'[d], d \notin past'
        PROVE  json'[d] = Projected(ydoc'[d]) /\ rows'[d] = json'[d]
    <3>1. ydoc[d] # NoBody /\ ~unfolded[d]
      BY <1>1, <2>3
    <3>2. d \notin past /\ d \notin D
      BY <1>2, <2>3, <3>1
    <3>3. json[d] = Projected(ydoc[d]) /\ rows[d] = json[d]
      BY <3>1, <3>2 DEF BodyInv, CopiesAgree
    <3>4. QED
      BY <1>1, <2>1, <3>2, <3>3
  <2>4. CopiesAgree'
    BY <2>3 DEF CopiesAgree, Projected
  <2>5. ASSUME NEW d \in Docs, d \notin made' PROVE ydoc'[d] = NoBody
    BY <1>1, <2>5 DEF BodyInv
  <2>6. ASSUME NEW d \in Docs, counter'[d]
        PROVE  tab'[d].stage # "closed" /\ (d \in made' => ydoc'[d] # NoBody)
    BY <1>1, <1>2, <2>6 DEF BodyInv
  <2>7. QED
    BY <2>2, <2>4, <2>5, <2>6 DEF BodyInv
<1>3. CASE rejected' = TRUE /\ UNCHANGED <<stored, past>>
  BY <1>1, <1>3 DEF BodyInv, BodyTypeOK, CopiesAgree, stored
<1>4. QED
  BY <1>2, <1>3 DEF Project

LEMMA ActionsInv ==
    ASSUME BodyInv, NEW d \in Docs,
           CreateDocument(d) \/ CreateVersion(d) \/ OpenTab(d) \/ CrashRoom(d) \/ LoseStash(d)
    PROVE  BodyInv'
<1>1. CASE CreateDocument(d)
  <2>1. ~counter[d]
    BY <1>1, BodyFacts DEF CreateDocument, New, BodyInv
  <2>2. UNCHANGED <<json, rows, ydoc, unfolded, counter, tab, snapshots, stash, past, rejected,
                    writes>> /\ made' = made \cup {d}
    BY <1>1 DEF CreateDocument, live, histories
  <2>3. QED
    BY <2>1, <2>2 DEF BodyInv, BodyTypeOK, CopiesAgree
<1>2. CASE CreateVersion(d)
  <2>1. /\ UNCHANGED <<made, json, rows, ydoc, unfolded, counter, tab, stash, past, rejected,
                       writes>>
        /\ snapshots' = [snapshots EXCEPT ![d] = @ \cup {json[d]}]
    BY <1>2 DEF CreateVersion, stored, live, histories
  <2>2. snapshots' \in [Docs -> SUBSET Maybe]
    BY <2>1, BodyFacts DEF BodyInv, BodyTypeOK
  <2>3. QED
    BY <2>1, <2>2 DEF BodyInv, BodyTypeOK, CopiesAgree
<1>3. CASE OpenTab(d)
  <2>1. /\ UNCHANGED <<made, json, rows, ydoc, unfolded, counter, snapshots, stash, past,
                       rejected, writes>>
        /\ tab' = [tab EXCEPT ![d] = [stage |-> "sync", initial |-> json[d]]]
    BY <1>3 DEF OpenTab, stored, live, histories
  <2>2. [stage |-> "sync", initial |-> json[d]] \in Tab
    BY BodyFacts DEF Tab, EditorStages
  <2>3. tab' \in [Docs -> Tab] /\ \A e \in Docs : counter[e] => tab'[e].stage # "closed"
    BY <2>1, <2>2 DEF BodyInv, BodyTypeOK, Tab
  <2>4. QED
    BY <2>1, <2>3 DEF BodyInv, BodyTypeOK, CopiesAgree, Tab
<1>4. CASE CrashRoom(d)
  <2>1. /\ UNCHANGED <<made, json, rows, ydoc, unfolded, tab, snapshots, stash, past,
                       rejected, writes>>
        /\ counter' = [counter EXCEPT ![d] = FALSE]
    BY <1>4 DEF CrashRoom, stored, histories
  <2>2. counter' \in [Docs -> BOOLEAN] /\ \A e \in Docs : counter'[e] => counter[e]
    BY <2>1 DEF BodyInv, BodyTypeOK
  <2>3. QED
    BY <2>1, <2>2 DEF BodyInv, BodyTypeOK, CopiesAgree
<1>5. CASE LoseStash(d)
  <2>1. /\ UNCHANGED <<made, json, rows, ydoc, unfolded, counter, tab, snapshots, past,
                       rejected, writes>>
        /\ stash' = [stash EXCEPT ![d] = NoBody]
    BY <1>5 DEF LoseStash, stored, live, histories
  <2>2. stash' \in [Docs -> Maybe]
    BY <2>1 DEF BodyInv, BodyTypeOK, Maybe
  <2>3. QED
    BY <2>1, <2>2 DEF BodyInv, BodyTypeOK, CopiesAgree
<1>6. QED
  BY <1>1, <1>2, <1>3, <1>4, <1>5

LEMMA WritesInv ==
    ASSUME BodyInv, NEW d \in Docs, SaveDocumentContent(d) \/ DuplicateFromTemplate(d)
    PROVE  BodyInv'
<1>1. writes' \in Nat
  BY BodyFacts DEF SaveDocumentContent, DuplicateFromTemplate, Write
<1>2. CASE SaveDocumentContent(d)
  <2>1. PICK b \in Body : Project({d}, b)
    BY <1>2 DEF SaveDocumentContent, Templated, Ingested
  <2>2. d \in made /\ UNCHANGED <<live, tab, snapshots, stash>>
    BY <1>2 DEF SaveDocumentContent
  <2>3. QED
    BY <1>1, <2>1, <2>2, ProjectKeeps
<1>3. CASE DuplicateFromTemplate(d)
  <2>1. PICK b \in Body : json' = [json EXCEPT ![d] = b]
    BY <1>3 DEF DuplicateFromTemplate, Templated
  <2>2. /\ UNCHANGED <<rows, ydoc, unfolded, counter, tab, snapshots, stash, past, rejected>>
        /\ made' = made \cup {d} /\ d \notin made /\ tab[d] = Closed
    BY <1>3 DEF DuplicateFromTemplate, New, live, histories
  <2>3. json' \in [Docs -> Maybe] /\ \A e \in Docs : e # d => json'[e] = json[e]
    BY <2>1, BodyFacts DEF BodyInv, BodyTypeOK
  <2>4. ydoc[d] = NoBody /\ ~counter[d]
    BY <2>2, BodyFacts DEF BodyInv
  <2>5. BodyTypeOK'
    BY <1>1, <2>2, <2>3 DEF BodyInv, BodyTypeOK
  <2>6. CopiesAgree'
    BY <2>2, <2>3, <2>4 DEF BodyInv, CopiesAgree
  <2>7. QED
    BY <2>2, <2>4, <2>5, <2>6 DEF BodyInv
<1>4. QED
  BY <1>2, <1>3

LEMMA ApplyTemplateInv ==
    ASSUME BodyInv, NEW D \in SUBSET Docs, ApplyTemplate(D)
    PROVE  BodyInv'
<1>1. writes' \in Nat /\ UNCHANGED <<live, tab, snapshots, stash>>
  BY BodyFacts DEF ApplyTemplate, Write
<1>2. PICK b \in Body : Project(D, b)
  BY DEF ApplyTemplate, Templated
<1>3. \A d \in D : ~counter[d]
  BY DEF ApplyTemplate, New, Closed, BodyInv
<1>4. QED
  BY <1>1, <1>2, <1>3, ProjectKeeps

LEMMA DeleteDocumentInv ==
    ASSUME BodyInv, NEW d \in Docs, DeleteDocument(d)
    PROVE  BodyInv'
<1>1. /\ made' = made \ {d} /\ past' = past \ {d}
      /\ UNCHANGED <<counter, tab, stash, rejected, writes>>
  BY DEF DeleteDocument
<1>2. /\ json' \in [Docs -> Maybe] /\ rows' \in [Docs -> Maybe]
      /\ ydoc' \in [Docs -> Identified \cup {NoBody}]
      /\ unfolded' \in [Docs -> BOOLEAN] /\ snapshots' \in [Docs -> SUBSET Maybe]
      /\ ydoc'[d] = NoBody
      /\ \A e \in Docs : e # d => /\ json'[e] = json[e] /\ rows'[e] = rows[e]
                                  /\ ydoc'[e] = ydoc[e] /\ unfolded'[e] = unfolded[e]
  BY DEF DeleteDocument, BodyInv, BodyTypeOK, Maybe, Identified
<1>3. BodyTypeOK'
  BY <1>1, <1>2 DEF BodyInv, BodyTypeOK, Identified
<1>4. CopiesAgree'
  BY <1>1, <1>2 DEF BodyInv, CopiesAgree
<1>5. QED
  BY <1>1, <1>2, <1>3, <1>4 DEF BodyInv

LEMMA RestoreVersionInv ==
    ASSUME BodyInv, NEW d \in Docs, RestoreVersion(d)
    PROVE  BodyInv'
<1>1. PICK v \in snapshots[d] : /\ json' = [json EXCEPT ![d] = v]
                                /\ stash' = [stash EXCEPT ![d] = v]
  BY DEF RestoreVersion
<1>2. /\ UNCHANGED <<made, rows, ydoc, unfolded, counter, tab, snapshots, rejected>>
      /\ past' = past \cup {e \in {d} : ydoc[e] # NoBody} /\ writes' \in Nat
  BY BodyFacts DEF RestoreVersion, live, Write
<1>3. /\ json' \in [Docs -> Maybe] /\ stash' \in [Docs -> Maybe]
      /\ \A e \in Docs : e # d => json'[e] = json[e]
  BY <1>1, BodyFacts DEF BodyInv, BodyTypeOK
<1>4. BodyTypeOK'
  BY <1>2, <1>3 DEF BodyInv, BodyTypeOK
<1>5. CopiesAgree'
  BY <1>2, <1>3 DEF BodyInv, CopiesAgree
<1>6. QED
  BY <1>2, <1>4, <1>5 DEF BodyInv

\* The editor's document changes while its editor is there.
LEMMA EditKeeps ==
    ASSUME BodyInv, NEW d \in Docs, NEW b \in Identified, Edited(d, b),
           UNCHANGED <<stored, snapshots, rejected>>, writes' \in Nat,
           stash' \in [Docs -> Maybe], past' \in {past, past \ {d}},
           tab' \in [Docs -> Tab], tab'[d].stage # "closed",
           \A e \in Docs : e # d => tab'[e] = tab[e]
    PROVE  BodyInv'
<1>1. UNCHANGED <<made, json, rows, snapshots, rejected>>
  BY DEF stored
<1>2. b \in Body /\ b # NoBody
  BY NoBodyAssumption DEF Identified
<1>3. CASE /\ d \in made
           /\ ydoc' = [ydoc EXCEPT ![d] = b]
           /\ unfolded' = [unfolded EXCEPT ![d] = TRUE]
           /\ counter' = [counter EXCEPT ![d] = TRUE]
  <2>1. /\ ydoc' \in [Docs -> Identified \cup {NoBody}] /\ unfolded' \in [Docs -> BOOLEAN]
        /\ counter' \in [Docs -> BOOLEAN] /\ ydoc'[d] = b /\ unfolded'[d]
        /\ \A e \in Docs : e # d => /\ ydoc'[e] = ydoc[e] /\ unfolded'[e] = unfolded[e]
                                    /\ counter'[e] = counter[e]
    BY <1>3 DEF BodyInv, BodyTypeOK, Identified
  <2>2. BodyTypeOK'
    BY <1>1, <2>1 DEF BodyInv, BodyTypeOK, Identified, Tab
  <2>3. CopiesAgree'
    BY <1>1, <2>1 DEF BodyInv, CopiesAgree
  <2>4. QED
    BY <1>1, <1>2, <1>3, <2>1, <2>2, <2>3 DEF BodyInv
<1>4. CASE /\ d \notin made
           /\ counter' = [e \in Docs |-> FALSE]
           /\ UNCHANGED <<ydoc, unfolded>>
  <2>1. BodyTypeOK'
    BY <1>1, <1>4 DEF BodyInv, BodyTypeOK, Tab
  <2>2. CopiesAgree'
    BY <1>1, <1>4 DEF BodyInv, CopiesAgree
  <2>3. QED
    BY <1>1, <1>4, <2>1, <2>2 DEF BodyInv
<1>5. QED
  BY <1>3, <1>4 DEF Edited

\* The editor goes from one stage to the next.
LEMMA StageMoves ==
    ASSUME BodyInv, NEW d \in Docs, NEW s \in EditorStages \ {"closed"},
           tab' = [tab EXCEPT ![d].stage = s]
    PROVE  /\ tab' \in [Docs -> Tab] /\ tab'[d].stage # "closed"
           /\ \A e \in Docs : e # d => tab'[e] = tab[e]
<1>1. [tab[d] EXCEPT !.stage = s] \in Tab /\ [tab[d] EXCEPT !.stage = s].stage = s
  BY BodyFacts DEF Tab
<1>2. tab' = [tab EXCEPT ![d] = [tab[d] EXCEPT !.stage = s]]
  OBVIOUS
<1>3. QED
  BY <1>1, <1>2 DEF BodyInv, BodyTypeOK, Tab

\* No edit comes of it.
LEMMA QuietStage ==
    ASSUME BodyInv, NEW d \in Docs, UNCHANGED <<stored, live, snapshots, histories, writes>>,
           stash' \in [Docs -> Maybe], tab' \in [Docs -> Tab], tab'[d].stage # "closed",
           \A e \in Docs : e # d => tab'[e] = tab[e]
    PROVE  BodyInv'
<1>1. UNCHANGED <<made, json, rows, ydoc, unfolded, counter, snapshots, past, rejected, writes>>
  BY DEF stored, live, histories
<1>2. QED
  BY <1>1 DEF BodyInv, BodyTypeOK, CopiesAgree, Tab

LEMMA SeedEditorInv ==
    ASSUME BodyInv, NEW d \in Docs, SeedEditor(d)
    PROVE  BodyInv'
<1>1. /\ tab' \in [Docs -> Tab] /\ tab'[d].stage # "closed"
      /\ \A e \in Docs : e # d => tab'[e] = tab[e]
  BY StageMoves DEF SeedEditor, EditorStages
<1>2. UNCHANGED <<stored, snapshots, histories, writes>> /\ UNCHANGED <<past, rejected>>
      /\ stash' \in [Docs -> Maybe] /\ writes' \in Nat
  BY DEF SeedEditor, BodyInv, BodyTypeOK, histories
<1>3. CASE ydoc[d] = NoBody /\ tab[d].initial # NoBody
  <2>1. Edited(d, Adopted(tab[d].initial)) /\ Adopted(tab[d].initial) \in Identified
    BY <1>3, BodyFacts DEF SeedEditor
  <2>2. QED
    BY <1>1, <1>2, <2>1, EditKeeps
<1>4. CASE ~(ydoc[d] = NoBody /\ tab[d].initial # NoBody)
  <2>1. UNCHANGED live
    BY <1>4 DEF SeedEditor
  <2>2. QED
    BY <1>1, <1>2, <2>1, QuietStage
<1>5. QED
  BY <1>3, <1>4

LEMMA ApplyStashInv ==
    ASSUME BodyInv, NEW d \in Docs, ApplyStash(d)
    PROVE  BodyInv'
<1>1. /\ tab' \in [Docs -> Tab] /\ tab'[d].stage # "closed"
      /\ \A e \in Docs : e # d => tab'[e] = tab[e]
  BY StageMoves DEF ApplyStash, EditorStages
<1>2. UNCHANGED <<stored, snapshots, rejected, writes>>
      /\ stash' \in [Docs -> Maybe] /\ writes' \in Nat
  BY DEF ApplyStash, BodyInv, BodyTypeOK, Maybe
<1>3. CASE stash[d] # NoBody
  <2>1. /\ Edited(d, Adopted(stash[d])) /\ Adopted(stash[d]) \in Identified
        /\ past' = past \ {d}
    BY <1>3, BodyFacts DEF ApplyStash
  <2>2. QED
    BY <1>1, <1>2, <2>1, EditKeeps
<1>4. CASE stash[d] = NoBody
  <2>1. UNCHANGED live /\ UNCHANGED histories
    BY <1>2, <1>4 DEF ApplyStash, histories
  <2>2. QED
    BY <1>1, <1>2, <2>1, QuietStage
<1>5. QED
  BY <1>3, <1>4

LEMMA TypeInv ==
    ASSUME BodyInv, NEW d \in Docs, Type(d)
    PROVE  BodyInv'
<1>1. PICK b \in Identified : Edited(d, b)
  BY DEF Type, Identified
<1>2. /\ UNCHANGED <<stored, snapshots, rejected, tab, past>> /\ writes' \in Nat
      /\ stash' \in [Docs -> Maybe] /\ tab' \in [Docs -> Tab] /\ tab'[d].stage # "closed"
  BY BodyFacts DEF Type, histories, Write, BodyInv, BodyTypeOK, Tab
<1>3. QED
  BY <1>1, <1>2, EditKeeps

\* The log is folded over pages and rows; of a document that is gone nothing is.
LEMMA FoldKeeps ==
    ASSUME BodyInv, NEW d \in Docs, Folded(d), counter[d],
           UNCHANGED <<ydoc, snapshots, stash, rejected, writes>>,
           tab' \in [Docs -> Tab], \A e \in Docs : e # d => tab'[e] = tab[e]
    PROVE  BodyInv'
<1>1. /\ counter' \in [Docs -> BOOLEAN] /\ ~counter'[d] /\ made' = made
      /\ \A e \in Docs : e # d => counter'[e] = counter[e]
  BY DEF Folded, BodyInv, BodyTypeOK
<1>2. CASE /\ d \in made
           /\ json' = [json EXCEPT ![d] = Projected(ydoc[d])]
           /\ rows' = [rows EXCEPT ![d] = Projected(ydoc[d])]
           /\ unfolded' = [unfolded EXCEPT ![d] = FALSE]
           /\ past' = past \ {d}
  <2>1. Projected(ydoc[d]) \in Maybe
    BY <1>2, BodyFacts DEF BodyInv
  <2>2. /\ json' \in [Docs -> Maybe] /\ rows' \in [Docs -> Maybe]
        /\ unfolded' \in [Docs -> BOOLEAN]
        /\ json'[d] = Projected(ydoc[d]) /\ rows'[d] = json'[d]
        /\ \A e \in Docs : e # d => /\ json'[e] = json[e] /\ rows'[e] = rows[e]
                                    /\ unfolded'[e] = unfolded[e]
    BY <1>2, <2>1 DEF BodyInv, BodyTypeOK
  <2>3. BodyTypeOK'
    BY <1>1, <1>2, <2>2 DEF BodyInv, BodyTypeOK, Tab
  <2>4. CopiesAgree'
    BY <1>2, <2>2 DEF BodyInv, CopiesAgree
  <2>5. QED
    BY <1>1, <2>3, <2>4 DEF BodyInv
<1>3. CASE d \notin made /\ UNCHANGED <<json, rows, unfolded, past>>
  BY <1>1, <1>3 DEF BodyInv, BodyTypeOK, CopiesAgree, Tab
<1>4. QED
  BY <1>2, <1>3 DEF Folded

LEMMA FoldInv ==
    ASSUME BodyInv, NEW d \in Docs, Fold(d) \/ CloseTab(d)
    PROVE  BodyInv'
<1>1. UNCHANGED <<ydoc, snapshots, stash, rejected, writes>>
  BY DEF Fold, CloseTab
<1>2. tab' \in [Docs -> Tab] /\ \A e \in Docs : e # d => tab'[e] = tab[e]
  BY BodyFacts DEF Fold, CloseTab, BodyInv, BodyTypeOK, Tab
<1>3. CASE counter[d]
  BY <1>1, <1>2, <1>3, FoldKeeps DEF Fold, CloseTab
<1>4. CASE ~counter[d]
  <2>1. UNCHANGED <<made, json, rows, unfolded, counter, past>>
    BY <1>4 DEF Fold, CloseTab, stored
  <2>2. QED
    BY <1>1, <1>2, <1>4, <2>1 DEF BodyInv, BodyTypeOK, CopiesAgree, Tab
<1>5. QED
  BY <1>3, <1>4

LEMMA BodyStepInv == BodyInv /\ [BodyNext]_bodyVars => BodyInv'
<1> SUFFICES ASSUME BodyInv, [BodyNext]_bodyVars PROVE BodyInv'
  OBVIOUS
<1>1. CASE UNCHANGED bodyVars
  BY <1>1 DEF bodyVars, stored, live, histories, BodyInv, BodyTypeOK, CopiesAgree
<1>2. CASE BodyNext
  <2>1. ASSUME NEW D \in SUBSET Docs, ApplyTemplate(D) PROVE BodyInv'
    BY <2>1, ApplyTemplateInv
  <2>2. ASSUME NEW d \in Docs,
               \/ CreateDocument(d) \/ CreateVersion(d) \/ OpenTab(d)
               \/ CrashRoom(d) \/ LoseStash(d)
        PROVE  BodyInv'
    BY <2>2, ActionsInv
  <2>3. ASSUME NEW d \in Docs,
               \/ SaveDocumentContent(d) \/ DuplicateFromTemplate(d)
               \/ DeleteDocument(d) \/ RestoreVersion(d)
        PROVE  BodyInv'
    BY <2>3, WritesInv, DeleteDocumentInv, RestoreVersionInv
  <2>4. ASSUME NEW d \in Docs,
               \/ SeedEditor(d) \/ ApplyStash(d) \/ Type(d) \/ CloseTab(d) \/ Fold(d)
        PROVE  BodyInv'
    BY <2>4, SeedEditorInv, ApplyStashInv, TypeInv, FoldInv
  <2>5. QED
    BY <1>2, <2>1, <2>2, <2>3, <2>4 DEF BodyNext
<1>3. QED
  BY <1>1, <1>2

\* An editor's document is replaced by a writer or from the session storage.
NotReplaced == \A d \in made' : ydoc[d] # NoBody /\ ydoc'[d] # ydoc[d] =>
                   writes' # writes \/ stash[d] # NoBody

LEMMA SeedLooksFirst ==
    ASSUME BodyInv, [BodyNext]_bodyVars
    PROVE  NotReplaced
<1> SUFFICES ASSUME NEW d \in made', ydoc[d] # NoBody, ydoc'[d] # ydoc[d], writes' = writes,
                    stash[d] = NoBody
             PROVE  FALSE
  BY DEF NotReplaced
<1>1. ydoc' # ydoc
  OBVIOUS
<1>2. ASSUME NEW D \in SUBSET Docs, ApplyTemplate(D) PROVE FALSE
  BY <1>1, <1>2 DEF ApplyTemplate, live
<1>3. ASSUME NEW e \in Docs,
             \/ CreateDocument(e) \/ CreateVersion(e) \/ OpenTab(e)
             \/ CrashRoom(e) \/ LoseStash(e)
             \/ SaveDocumentContent(e) \/ DuplicateFromTemplate(e) \/ RestoreVersion(e)
             \/ Fold(e) \/ CloseTab(e)
      PROVE  FALSE
  BY <1>1, <1>3 DEF CreateDocument, CreateVersion, OpenTab, CrashRoom, LoseStash,
     SaveDocumentContent, DuplicateFromTemplate, RestoreVersion, Fold, CloseTab, live
<1>4. ASSUME NEW e \in Docs, DeleteDocument(e) PROVE FALSE
  <2>1. d # e /\ ydoc' = [ydoc EXCEPT ![e] = NoBody]
    BY <1>4 DEF DeleteDocument
  <2>2. QED
    BY <2>1
<1>5. ASSUME NEW e \in Docs, NEW b, Edited(e, b) PROVE d = e
  <2>1. d \in Docs /\ DOMAIN ydoc = Docs
    BY BodyStepInv DEF BodyInv, BodyTypeOK
  <2>2. ydoc' = [ydoc EXCEPT ![e] = b]
    BY <1>1, <1>5 DEF Edited
  <2>3. QED
    BY <2>1, <2>2
<1>6. ASSUME NEW e \in Docs, SeedEditor(e) \/ ApplyStash(e) PROVE FALSE
  <2>1. d = e
    BY <1>1, <1>5, <1>6 DEF SeedEditor, ApplyStash, live
  <2>2. QED
    BY <1>1, <1>6, <2>1 DEF SeedEditor, ApplyStash, live
<1>7. ASSUME NEW e \in Docs, Type(e) PROVE FALSE
  BY <1>7, BodyFacts DEF Type, Write
<1>8. CASE UNCHANGED bodyVars
  BY <1>8, <1>1 DEF bodyVars, live
<1>9. QED
  BY <1>2, <1>3, <1>4, <1>6, <1>7, <1>8 DEF BodyNext

\* Through restores, templates, generated bodies, crashes and seeds: once the log is folded
\* the three copies say the same, unless a body was written past the Yjs state; no edited
\* document holds numbered blocks; and the seed replaces nothing (ForgeEditor.tsx:114-143,
\* persistence.ts:116-144).
THEOREM BodiesAlwaysHoldTogether == BodySpec => BodiesHoldTogether
<1>1. BodyInv => BodyTypeOK /\ CopiesAgree /\ EditedNeverInTheWay
  <2> SUFFICES ASSUME BodyInv PROVE EditedNeverInTheWay
    BY DEF BodyInv
  <2> SUFFICES ASSUME NEW d \in Docs, rows[d] # NoBody, ydoc[d] # NoBody, ~unfolded[d],
                      d \notin past
               PROVE  rows[d].ids
    BY DEF EditedNeverInTheWay
  <2>1. rows[d] = Projected(ydoc[d])
    BY DEF BodyInv, CopiesAgree
  <2>2. ydoc[d] \in Body /\ ydoc[d].ids
    BY BodyFacts DEF Identified
  <2>3. QED
    BY <2>1, <2>2, BodyFacts
<1>2. BodyInv /\ [BodyNext]_bodyVars => [NotReplaced]_bodyVars
  BY SeedLooksFirst
<1>3. BodySpec => [](BodyTypeOK /\ CopiesAgree /\ EditedNeverInTheWay)
  BY <1>1, BodyInitInv, BodyStepInv, PTL DEF BodySpec
<1>4. BodySpec => [][NotReplaced]_bodyVars
  BY <1>2, BodyInitInv, BodyStepInv, PTL DEF BodySpec
<1>5. QED
  BY <1>3, <1>4 DEF BodiesHoldTogether, SeedNeverOverwrites, NotReplaced

-----------------------------------------------------------------------------
(***************************************************************************)
(* CommentAnchors, for any number of characters and of changes of the      *)
(* text: a range covers the words it was about and what is between them.   *)
(***************************************************************************)

BlockRow == [there : BOOLEAN, text : 0..MaxRetypes, line : Seq(CharIds), next : Nat \ {0}]
ReaderRow == [known : SUBSET CharIds, erased : SUBSET CharIds, there : BOOLEAN,
              text : 0..MaxRetypes]

\* The places of a line: each character has one.
Places == 1..Len(block.line)
LineFits ==
    /\ \A n \in Places : block.line[n] < block.next
    /\ \A m, n \in Places : block.line[m] = block.line[n] => m = n
    /\ IsFiniteSet(Chars(block.line)) /\ Cardinality(Chars(block.line)) = Len(block.line)

\* What the anchor holds on to is the first and the last of what was selected.
AnchorFits ==
    /\ picked \subseteq Chars(block.line)
    /\ anchor.first \in picked /\ anchor.last \in picked
    /\ \A m, n \in Places : block.line[n] \in picked =>
          /\ block.line[m] = anchor.first => m <= n
          /\ block.line[m] = anchor.last => n <= m

\* The inductive invariant.
AnchorInv ==
    /\ block \in BlockRow /\ reader \in ReaderRow /\ erased \subseteq CharIds
    /\ reader.text <= block.text /\ (block.there => reader.there)
    /\ LineFits
    /\ anchor.kind = "range" => AnchorFits

LEMMA AnchorFacts ==
    ASSUME AnchorInv
    PROVE  /\ block.line \in Seq(CharIds) /\ Len(block.line) \in Nat
           /\ \A n \in Places : block.line[n] \in CharIds
           /\ CharIds \subseteq Nat \ {0}
           /\ block.next \in Nat \ {0} /\ block.text \in Nat /\ block.there \in BOOLEAN
           /\ Chars(block.line) \subseteq CharIds
           /\ \A n \in Places : block.line[n] \in Chars(block.line)
           /\ Places \subseteq Nat /\ IsFiniteSet(Places)
           /\ reader.known \subseteq CharIds /\ reader.erased \subseteq CharIds
           /\ reader.text \in Nat
<1>1. block.line \in Seq(CharIds) /\ Len(block.line) \in Nat
  BY DEF AnchorInv, BlockRow
<1>2. \A n \in Places : block.line[n] \in CharIds
  BY <1>1 DEF Places
<1>3. CharIds \subseteq Nat \ {0}
  BY AnchorAssumption DEF CharIds
<1>4. /\ Chars(block.line) \subseteq CharIds
      /\ \A n \in Places : block.line[n] \in Chars(block.line)
  BY <1>2 DEF Chars, Places
<1>5. Places \subseteq Nat /\ IsFiniteSet(Places)
  BY <1>1, FS_Interval DEF Places
<1>6. block.next \in Nat \ {0} /\ block.text \in Nat /\ block.there \in BOOLEAN /\ reader.text \in Nat
      /\ reader.known \subseteq CharIds /\ reader.erased \subseteq CharIds
  BY AnchorAssumption DEF AnchorInv, BlockRow, ReaderRow
<1>7. QED
  BY <1>1, <1>2, <1>3, <1>4, <1>5, <1>6

\* A character of the block has one place.
LEMMA PlaceFacts ==
    ASSUME AnchorInv, NEW c \in Chars(block.line)
    PROVE  /\ PlaceOf(c) \in Places /\ block.line[PlaceOf(c)] = c
           /\ \A n \in Places : block.line[n] = c => n = PlaceOf(c)
<1>1. \E n \in 1..Len(block.line) : block.line[n] = c
  BY DEF Chars
<1>2. PlaceOf(c) \in 1..Len(block.line) /\ block.line[PlaceOf(c)] = c
  BY <1>1 DEF PlaceOf
<1>3. QED
  BY <1>2 DEF AnchorInv, LineFits, Places

-----------------------------------------------------------------------------
\* The characters that are seen up to a place, by their places.
SeenUpTo(n) == {m \in SeenPlaces : m <= n}

LEMMA SeenFacts ==
    ASSUME AnchorInv
    PROVE  /\ SeenPlaces \subseteq Places /\ IsFiniteSet(SeenPlaces)
           /\ Cardinality(SeenPlaces) \in Nat
           /\ \A n : IsFiniteSet(SeenUpTo(n)) /\ Cardinality(SeenUpTo(n)) \in Nat
<1>1. SeenPlaces \subseteq Places
  BY DEF SeenPlaces, Places
<1>2. IsFiniteSet(SeenPlaces)
  BY <1>1, AnchorFacts, FS_Subset
<1>3. ASSUME NEW n PROVE IsFiniteSet(SeenUpTo(n)) /\ Cardinality(SeenUpTo(n)) \in Nat
  <2>1. SeenUpTo(n) \in SUBSET SeenPlaces
    BY DEF SeenUpTo
  <2>2. IsFiniteSet(SeenUpTo(n))
    BY <1>2, <2>1, FS_Subset
  <2>3. QED
    BY <2>2, FS_CardinalityType
<1>4. QED
  BY <1>1, <1>2, <1>3, FS_CardinalityType

\* From one place to the next the count goes up by one, if a character is seen there.
LEMMA CountsUp ==
    ASSUME AnchorInv, NEW n \in Nat
    PROVE  Cardinality(SeenUpTo(n + 1)) =
              IF n + 1 \in SeenPlaces THEN Cardinality(SeenUpTo(n)) + 1
              ELSE Cardinality(SeenUpTo(n))
<1>1. \A m \in SeenPlaces : m <= n + 1 <=> m <= n \/ m = n + 1
  BY SeenFacts, AnchorFacts
<1>2. n + 1 \notin SeenUpTo(n)
  BY DEF SeenUpTo
<1>3. CASE n + 1 \in SeenPlaces
  <2>1. SeenUpTo(n + 1) = SeenUpTo(n) \cup {n + 1}
    BY <1>1, <1>3 DEF SeenUpTo
  <2>2. Cardinality(SeenUpTo(n) \cup {n + 1}) = Cardinality(SeenUpTo(n)) + 1
    BY <1>2, SeenFacts, FS_AddElement
  <2>3. QED
    BY <1>3, <2>1, <2>2
<1>4. CASE n + 1 \notin SeenPlaces
  <2>1. SeenUpTo(n + 1) = SeenUpTo(n)
    BY <1>1, <1>4 DEF SeenUpTo
  <2>2. QED
    BY <1>4, <2>1
<1>5. QED
  BY <1>3, <1>4

\* So there is an n-th character that is seen, up to their number.
LEMMA NthSeenFacts ==
    ASSUME AnchorInv, NEW k \in 1..Cardinality(SeenPlaces)
    PROVE  NthSeen(k) \in SeenPlaces /\ Cardinality(SeenUpTo(NthSeen(k))) = k
<1> DEFINE S == {n \in Nat : Cardinality(SeenUpTo(n)) >= k}
<1>1. SeenUpTo(Len(block.line)) = SeenPlaces
  BY AnchorFacts, SeenFacts DEF SeenUpTo, Places
<1>2. Len(block.line) \in S
  BY <1>1, AnchorFacts, SeenFacts
<1>3. PICK n \in S : \A m \in S : n <= m
  BY <1>2, LeastExists
<1>4. n # 0
  <2>1. SeenUpTo(0) = {}
    BY SeenFacts, AnchorFacts DEF SeenUpTo, Places
  <2>2. Cardinality(SeenUpTo(0)) = 0
    BY <2>1, FS_EmptySet
  <2>3. QED
    BY <1>3, <2>2, SeenFacts
<1>5. n - 1 \in Nat /\ (n - 1) + 1 = n /\ n - 1 \notin S
  BY <1>3, <1>4
<1>6. /\ Cardinality(SeenUpTo(n - 1)) < k /\ Cardinality(SeenUpTo(n)) >= k
      /\ Cardinality(SeenUpTo(n - 1)) \in Nat /\ k \in Nat
  BY <1>3, <1>5, SeenFacts
<1>7. n \in SeenPlaces /\ Cardinality(SeenUpTo(n)) = k
  BY <1>5, <1>6, CountsUp
<1>8. \E m \in SeenPlaces : Cardinality({q \in SeenPlaces : q <= m}) = k
  BY <1>7 DEF SeenUpTo
<1>9. QED
  BY <1>8 DEF NthSeen, SeenUpTo

LEMMA NthSeenInOrder ==
    ASSUME AnchorInv, NEW k \in 1..Cardinality(SeenPlaces), NEW j \in 1..Cardinality(SeenPlaces),
           k <= j
    PROVE  NthSeen(k) <= NthSeen(j)
<1> SUFFICES ASSUME NthSeen(k) > NthSeen(j) PROVE FALSE
  BY NthSeenFacts, SeenFacts, AnchorFacts
<1>1. NthSeen(k) \in SeenPlaces /\ NthSeen(j) \in SeenPlaces
      /\ NthSeen(k) \in Nat /\ NthSeen(j) \in Nat
  BY NthSeenFacts, SeenFacts, AnchorFacts
<1>2. SeenUpTo(NthSeen(j)) \in SUBSET SeenUpTo(NthSeen(k))
  BY <1>1, SeenFacts, AnchorFacts DEF SeenUpTo
<1>3. Cardinality(SeenUpTo(NthSeen(k))) = k /\ Cardinality(SeenUpTo(NthSeen(j))) = j
  BY NthSeenFacts
<1>4. j <= k /\ (j = k => SeenUpTo(NthSeen(j)) = SeenUpTo(NthSeen(k)))
  BY <1>2, <1>3, SeenFacts, FS_Subset
<1>5. NthSeen(k) \in SeenUpTo(NthSeen(k)) /\ NthSeen(k) \notin SeenUpTo(NthSeen(j))
  BY <1>1 DEF SeenUpTo
<1>6. QED
  BY <1>4, <1>5, SeenFacts

LEMMA AnchorInitInv == AnchorInit => AnchorInv
<1> SUFFICES ASSUME AnchorInit PROVE AnchorInv
  OBVIOUS
<1>1. /\ block.there /\ block.text = 0 /\ block.line = <<1, 2>> /\ block.next = 3
      /\ Len(block.line) = 2 /\ block.line[1] = 1 /\ block.line[2] = 2
  BY DEF AnchorInit
<1>2. 1 \in CharIds /\ 2 \in CharIds /\ <<1, 2>> \in Seq(CharIds)
  BY AnchorAssumption DEF CharIds
<1>3. block \in BlockRow /\ reader \in ReaderRow
  BY <1>2, AnchorAssumption DEF AnchorInit, BlockRow, ReaderRow
<1>4. Chars(block.line) = {1, 2} /\ Places = {1, 2}
  BY <1>1 DEF Chars, Places
<1>5. IsFiniteSet({1, 2}) /\ Cardinality({1, 2}) = 2
  <2>1. IsFiniteSet({1}) /\ Cardinality({1}) = 1
    BY FS_Singleton
  <2>2. {1, 2} = {1} \cup {2}
    OBVIOUS
  <2>3. QED
    BY <2>1, <2>2, FS_AddElement
<1>6. LineFits
  BY <1>1, <1>4, <1>5 DEF LineFits
<1>7. reader.text <= block.text /\ reader.there /\ erased = {} /\ anchor.kind = "none"
  BY <1>1 DEF AnchorInit, NoAnchor
<1>8. QED
  BY <1>3, <1>6, <1>7 DEF AnchorInv

\* The anchor of a selection is on its first and its last character.
LEMMA StartThreadInv ==
    ASSUME AnchorInv, StartThread
    PROVE  AnchorInv'
<1>1. UNCHANGED <<block, erased, reader>>
  BY DEF StartThread
<1>2. PICK lo \in 0..Cardinality(SeenPlaces), hi \in 0..Cardinality(SeenPlaces) :
         /\ lo <= hi
         /\ \/ anchor' = [NoAnchor EXCEPT !.kind = "block"]
            \/ /\ lo # hi /\ anchor' = RangeOf(lo, hi)
               /\ picked' = {block.line[NthSeen(k)] : k \in (lo + 1)..hi}
  BY DEF StartThread
<1>3. LineFits' /\ Places' = Places
  BY <1>1 DEF AnchorInv, LineFits, Places, Chars
<1>4. CASE anchor' = [NoAnchor EXCEPT !.kind = "block"]
  <2>1. anchor'.kind = "block"
    BY <1>4 DEF NoAnchor
  <2>2. QED
    BY <1>1, <1>3, <2>1 DEF AnchorInv
<1>5. CASE /\ lo # hi /\ anchor' = RangeOf(lo, hi)
           /\ picked' = {block.line[NthSeen(k)] : k \in (lo + 1)..hi}
  <2>1. /\ lo + 1 \in (lo + 1)..hi /\ hi \in (lo + 1)..hi
        /\ \A k \in (lo + 1)..hi : k \in 1..Cardinality(SeenPlaces) /\ lo + 1 <= k /\ k <= hi
    BY <1>2, <1>5, SeenFacts
  <2>2. \A k \in (lo + 1)..hi : NthSeen(k) \in Places
    BY <2>1, NthSeenFacts, SeenFacts
  <2>3. \A k \in (lo + 1)..hi : NthSeen(lo + 1) <= NthSeen(k) /\ NthSeen(k) <= NthSeen(hi)
    BY <2>1, NthSeenInOrder
  <2>4. /\ anchor'.first = block.line[NthSeen(lo + 1)]
        /\ anchor'.last = block.line[NthSeen(hi)]
    BY <1>5 DEF RangeOf
  <2>5. anchor'.first \in picked' /\ anchor'.last \in picked'
    BY <1>5, <2>1, <2>4
  <2>6. picked' \subseteq Chars(block.line)
    BY <1>5, <2>2, AnchorFacts
  <2>7. ASSUME NEW m \in Places, NEW n \in Places, block.line[n] \in picked'
        PROVE  /\ block.line[m] = anchor'.first => m <= n
               /\ block.line[m] = anchor'.last => n <= m
    <3>1. PICK k \in (lo + 1)..hi : block.line[n] = block.line[NthSeen(k)]
      BY <1>5, <2>7
    <3>2. n = NthSeen(k)
      BY <2>2, <3>1 DEF AnchorInv, LineFits
    <3>3. block.line[m] = anchor'.first => m = NthSeen(lo + 1)
      BY <2>1, <2>2, <2>4 DEF AnchorInv, LineFits
    <3>4. block.line[m] = anchor'.last => m = NthSeen(hi)
      BY <2>1, <2>2, <2>4 DEF AnchorInv, LineFits
    <3>5. QED
      BY <2>3, <3>2, <3>3, <3>4
  <2>8. AnchorFits'
    BY <1>1, <1>3, <2>5, <2>6, <2>7 DEF AnchorFits, Chars
  <2>9. QED
    BY <1>1, <1>3, <2>8 DEF AnchorInv
<1>6. QED
  BY <1>2, <1>4, <1>5

\* A character that is put between two moves those after it, and none past another.
LEMMA InsertedLine ==
    ASSUME AnchorInv, NEW at \in 0..Len(block.line), InsertChar(at)
    PROVE  /\ block' \in BlockRow /\ block'.next = block.next + 1
           /\ block'.text = block.text /\ block'.there = block.there
           /\ Len(block'.line) = Len(block.line) + 1
           /\ \A n \in 1..Len(block'.line) :
                 block'.line[n] = IF n <= at THEN block.line[n]
                                  ELSE IF n = at + 1 THEN block.next ELSE block.line[n - 1]
<1> DEFINE A == SubSeq(block.line, 1, at)
           B == SubSeq(block.line, at + 1, Len(block.line))
           M == A \o <<block.next>>
           L == M \o B
<1>1. block.next \in CharIds /\ block.next + 1 \in Nat \ {0}
  BY AnchorFacts, AnchorAssumption DEF InsertChar, CharIds
<1>2. /\ A \in Seq(CharIds) /\ Len(A) = at /\ \A n \in 1..at : A[n] = block.line[n]
  BY AnchorFacts, SubSeqProperties
<1>3. /\ B \in Seq(CharIds) /\ Len(B) = Len(block.line) - at
      /\ \A n \in 1..(Len(block.line) - at) : B[n] = block.line[at + n]
  BY AnchorFacts, SubSeqProperties
<1>4. block' = [block EXCEPT !.next = block.next + 1, !.line = L]
  BY DEF InsertChar
<1> HIDE DEF A, B
<1>5. /\ M \in Seq(CharIds) /\ Len(M) = at + 1 /\ M[at + 1] = block.next
      /\ \A n \in 1..at : M[n] = block.line[n]
  <2>1. <<block.next>> \in Seq(CharIds) /\ Len(<<block.next>>) = 1 /\ <<block.next>>[1] = block.next
    BY <1>1
  <2>2. /\ M \in Seq(CharIds) /\ Len(M) = at + 1
        /\ \A n \in 1..(at + 1) : M[n] = IF n <= at THEN A[n] ELSE <<block.next>>[n - at]
    BY <1>2, <2>1, ConcatProperties
  <2>3. at + 1 \in 1..(at + 1) /\ ~(at + 1 <= at) /\ (at + 1) - at = 1
    OBVIOUS
  <2>4. M[at + 1] = block.next
    BY <2>1, <2>2, <2>3
  <2>5. ASSUME NEW n \in 1..at PROVE M[n] = block.line[n]
    BY <1>2, <2>2
  <2>6. QED
    BY <2>2, <2>4, <2>5
<1> HIDE DEF M
<1>6. /\ L \in Seq(CharIds) /\ Len(L) = Len(block.line) + 1
      /\ \A n \in 1..(Len(block.line) + 1) : L[n] = IF n <= at + 1 THEN M[n] ELSE B[n - (at + 1)]
  <2>1. /\ L \in Seq(CharIds) /\ Len(L) = Len(M) + Len(B)
        /\ \A n \in 1..(Len(M) + Len(B)) : L[n] = IF n <= Len(M) THEN M[n] ELSE B[n - Len(M)]
    BY <1>3, <1>5, ConcatProperties
  <2>2. Len(M) + Len(B) = Len(block.line) + 1
    <3>1. Len(block.line) \in Nat /\ at \in Nat
      BY AnchorFacts
    <3>2. \A k, q \in Nat : (q + 1) + (k - q) = k + 1
      OBVIOUS
    <3>3. Len(M) = at + 1 /\ Len(B) = Len(block.line) - at
      BY <1>3, <1>5
    <3>4. QED
      BY <3>1, <3>2, <3>3
  <2>3. QED
    BY <1>5, <2>1, <2>2
<1>7. ASSUME NEW n \in 1..(Len(block.line) + 1)
      PROVE  L[n] = IF n <= at THEN block.line[n]
                    ELSE IF n = at + 1 THEN block.next ELSE block.line[n - 1]
  <2>1. CASE n <= at
    <3>1. n \in 1..at /\ n <= at + 1
      BY <2>1, AnchorFacts
    <3>2. QED
      BY <1>5, <1>6, <2>1, <3>1
  <2>2. CASE n = at + 1
    BY <1>5, <1>6, <2>2, AnchorFacts
  <2>3. CASE n > at + 1
    <3>1. L[n] = B[n - (at + 1)]
      BY <1>6, <2>3
    <3>2. n - (at + 1) \in 1..(Len(block.line) - at) /\ at + (n - (at + 1)) = n - 1
      BY <2>3, AnchorFacts
    <3>3. QED
      BY <1>3, <2>3, <3>1, <3>2
  <2>4. n <= at \/ n = at + 1 \/ n > at + 1
    BY AnchorFacts
  <2>5. QED
    BY <2>1, <2>2, <2>3, <2>4
<1> HIDE DEF L
<1>8. /\ block' \in BlockRow /\ block'.next = block.next + 1 /\ block'.line = L
      /\ block'.text = block.text /\ block'.there = block.there
  BY <1>1, <1>4, <1>6 DEF AnchorInv, BlockRow
<1>9. QED
  BY <1>6, <1>7, <1>8

LEMMA InsertCharInv ==
    ASSUME AnchorInv, NEW at \in 0..Len(block.line), InsertChar(at)
    PROVE  AnchorInv'
<1> DEFINE Came(n) == IF n <= at THEN n ELSE n - 1
<1>1. UNCHANGED <<erased, anchor, picked, reader>> /\ block.there
  BY DEF InsertChar
<1>2. Len(block.line) \in Nat /\ at \in Nat /\ at <= Len(block.line)
  BY AnchorFacts
<1>3. /\ Places' = 1..(Len(block.line) + 1)
       /\ \A n \in 1..(Len(block.line) + 1) :
             block'.line[n] = IF n <= at THEN block.line[n]
                              ELSE IF n = at + 1 THEN block.next ELSE block.line[n - 1]
  BY InsertedLine DEF Places
<1>4. at + 1 \in Places' /\ ~(at + 1 <= at)
  BY <1>2, <1>3
<1>5. /\ Places' = 1..(Len(block.line) + 1) /\ at + 1 \in Places'
      /\ block'.line[at + 1] = block.next
  BY <1>3, <1>4
<1>6. ASSUME NEW n \in Places' \ {at + 1}
      PROVE  Came(n) \in Places /\ block'.line[n] = block.line[Came(n)]
  <2>1. n \in 1..(Len(block.line) + 1) /\ n \in Nat /\ n # at + 1
    BY <1>2, <1>3
  <2>2. CASE n <= at
    BY <1>2, <1>3, <2>1, <2>2 DEF Places
  <2>3. CASE ~(n <= at)
    <3>1. n - 1 \in 1..Len(block.line)
      BY <1>2, <2>1, <2>3
    <3>2. QED
      BY <1>3, <2>1, <2>3, <3>1 DEF Places
  <2>4. QED
    BY <2>2, <2>3
<1>7. ASSUME NEW m \in Places' \ {at + 1}, NEW n \in Places' \ {at + 1}
      PROVE  (m <= n <=> Came(m) <= Came(n)) /\ (Came(m) = Came(n) => m = n)
  <2>1. m \in Nat /\ n \in Nat /\ m # at + 1 /\ n # at + 1
    BY <1>2, <1>3
  <2>2. QED
    BY <1>2, <2>1
<1> HIDE DEF Came
<1>8. block.next \notin Chars(block.line)
  BY AnchorFacts DEF AnchorInv, LineFits, Chars, Places
<1>9. Chars(block'.line) = Chars(block.line) \cup {block.next}
  <2>1. ASSUME NEW n \in Places PROVE block.line[n] \in Chars(block'.line)
    <3>1. CASE n <= at
      <4>1. n \in Places' /\ n # at + 1
        BY <1>5, <3>1, AnchorFacts DEF Places
      <4>2. block'.line[n] = block.line[n]
        BY <1>6, <3>1, <4>1 DEF Came
      <4>3. QED
        BY <4>1, <4>2 DEF Chars, Places
    <3>2. CASE n > at
      <4>1. n + 1 \in Places' /\ n + 1 # at + 1 /\ ~(n + 1 <= at) /\ (n + 1) - 1 = n
        BY <1>5, <3>2, AnchorFacts DEF Places
      <4>2. block'.line[n + 1] = block.line[n]
        BY <1>6, <4>1 DEF Came
      <4>3. QED
        BY <4>1, <4>2 DEF Chars, Places
    <3>3. QED
      BY <3>1, <3>2, AnchorFacts
  <2>2. ASSUME NEW n \in Places' PROVE block'.line[n] \in Chars(block.line) \cup {block.next}
    BY <1>5, <1>6, AnchorFacts
  <2>3. Chars(block'.line) = {block'.line[n] : n \in Places'}
    BY DEF Chars, Places
  <2>4. Chars(block.line) = {block.line[n] : n \in Places} /\ block.next \in Chars(block'.line)
    BY <1>5, <2>3 DEF Chars, Places
  <2>5. Chars(block.line) \cup {block.next} \subseteq Chars(block'.line)
    BY <2>1, <2>4
  <2>6. Chars(block'.line) \subseteq Chars(block.line) \cup {block.next}
    BY <2>2, <2>3
  <2>7. QED
    BY <2>5, <2>6
<1>10. IsFiniteSet(Chars(block'.line)) /\ Cardinality(Chars(block'.line)) = Len(block'.line)
  <2>1. IsFiniteSet(Chars(block.line)) /\ Cardinality(Chars(block.line)) = Len(block.line)
    BY DEF AnchorInv, LineFits
  <2>2. QED
    BY <1>8, <1>9, <2>1, InsertedLine, FS_AddElement
<1>11. \A n \in Places' : block'.line[n] < block'.next
  <2>1. \A n \in Places : block.line[n] < block.next /\ block.line[n] \in Nat
    BY AnchorFacts DEF AnchorInv, LineFits
  <2>2. block'.next = block.next + 1 /\ block.next \in Nat
    BY InsertedLine, AnchorFacts
  <2>3. ASSUME NEW n \in Places' \ {at + 1} PROVE block'.line[n] < block'.next
    BY <1>6, <2>1, <2>2
  <2>4. QED
    BY <1>5, <2>2, <2>3
<1>12. ASSUME NEW m \in Places', NEW n \in Places', block'.line[m] = block'.line[n]
      PROVE  m = n
  <2>1. \A q \in Places' \ {at + 1} : block'.line[q] # block.next
    BY <1>6, <1>8, AnchorFacts
  <2>2. CASE m # at + 1 /\ n # at + 1
    <3>1. Came(m) = Came(n)
      BY <1>6, <1>12, <2>2 DEF AnchorInv, LineFits
    <3>2. QED
      BY <1>7, <2>2, <3>1
  <2>3. QED
    BY <1>5, <1>12, <2>1, <2>2
<1>13. LineFits'
  BY <1>10, <1>11, <1>12 DEF LineFits
<1>14. ASSUME anchor'.kind = "range" PROVE AnchorFits'
  <2>1. AnchorFits
    BY <1>1, <1>14 DEF AnchorInv
  <2>2. block.next \notin picked
    BY <1>8, <2>1 DEF AnchorFits
  <2>3. ASSUME NEW m \in Places', NEW n \in Places', block'.line[n] \in picked
        PROVE  /\ block'.line[m] = anchor.first => m <= n
               /\ block'.line[m] = anchor.last => n <= m
    <3>1. n # at + 1
      BY <1>5, <2>2, <2>3
    <3>2. anchor.first # block.next /\ anchor.last # block.next
      BY <2>1, <2>2 DEF AnchorFits
    <3>3. CASE m = at + 1
      BY <1>5, <3>2, <3>3
    <3>4. CASE m # at + 1
      <4>1. /\ block.line[Came(n)] \in picked /\ Came(n) \in Places /\ Came(m) \in Places
            /\ block'.line[m] = block.line[Came(m)]
        BY <1>6, <2>3, <3>1, <3>4
      <4>2. /\ block.line[Came(m)] = anchor.first => Came(m) <= Came(n)
            /\ block.line[Came(m)] = anchor.last => Came(n) <= Came(m)
        BY <2>1, <4>1 DEF AnchorFits
      <4>3. QED
        BY <1>7, <3>1, <3>4, <4>1, <4>2
    <3>5. QED
      BY <3>3, <3>4
  <2>4. picked \subseteq Chars(block'.line)
    BY <1>9, <2>1 DEF AnchorFits
  <2>5. QED
    BY <1>1, <2>1, <2>3, <2>4 DEF AnchorFits
<1>15. QED
  BY <1>1, <1>13, <1>14, InsertedLine DEF AnchorInv

\* Nothing else moves a character, nor the anchor.
LEMMA OtherAnchorInv ==
    ASSUME AnchorInv,
           \/ RemoveBlock \/ RetypeBlock \/ HearOfBlock
           \/ \E c \in CharIds : DeleteChar(c) \/ HearChar(c) \/ HearErased(c)
    PROVE  AnchorInv'
<1>1. ASSUME block' \in BlockRow, block'.line = block.line, block'.next = block.next,
             reader' \in ReaderRow, erased' \subseteq CharIds, UNCHANGED <<anchor, picked>>,
             reader'.text <= block'.text, block'.there => reader'.there
      PROVE  AnchorInv'
  <2>1. LineFits' /\ Places' = Places
    BY <1>1 DEF AnchorInv, LineFits, Places, Chars
  <2>2. anchor'.kind = "range" => AnchorFits'
    BY <1>1, <2>1 DEF AnchorInv, AnchorFits, Chars
  <2>3. QED
    BY <1>1, <2>1, <2>2 DEF AnchorInv
<1>2. block \in BlockRow /\ reader \in ReaderRow /\ erased \subseteq CharIds
      /\ reader.text <= block.text /\ (block.there => reader.there)
  BY DEF AnchorInv
<1>3. CASE RemoveBlock
  <2>1. /\ block' = [block EXCEPT !.there = FALSE] /\ UNCHANGED <<erased, anchor, picked, reader>>
    BY <1>3 DEF RemoveBlock
  <2>2. /\ block' \in BlockRow /\ block'.line = block.line /\ block'.next = block.next
        /\ block'.text = block.text /\ ~block'.there
    BY <1>2, <2>1 DEF BlockRow
  <2>3. QED
    BY <1>1, <1>2, <2>1, <2>2
<1>4. CASE RetypeBlock
  <2>1. /\ block' = [block EXCEPT !.text = block.text + 1] /\ block.text < MaxRetypes
        /\ UNCHANGED <<erased, anchor, picked, reader>>
    BY <1>4 DEF RetypeBlock
  <2>2. block.text + 1 \in 0..MaxRetypes
    BY <2>1, AnchorFacts, AnchorAssumption
  <2>3. /\ block' \in BlockRow /\ block'.line = block.line /\ block'.next = block.next
        /\ block'.text = block.text + 1 /\ block'.there = block.there
    BY <1>2, <2>1, <2>2 DEF BlockRow
  <2>4. reader.text <= block.text + 1
    BY <1>2, AnchorFacts
  <2>5. QED
    BY <1>1, <1>2, <2>1, <2>3, <2>4
<1>5. CASE HearOfBlock
  <2>1. /\ reader' = [reader EXCEPT !.there = block.there, !.text = block.text]
        /\ UNCHANGED <<block, erased, anchor, picked>>
    BY <1>5 DEF HearOfBlock
  <2>2. block.there \in BOOLEAN /\ block.text \in 0..MaxRetypes /\ block.text <= block.text
    BY <1>2, AnchorFacts DEF BlockRow
  <2>3. reader' \in ReaderRow /\ reader'.there = block.there /\ reader'.text = block.text
    BY <1>2, <2>1, <2>2 DEF ReaderRow
  <2>4. QED
    BY <1>1, <1>2, <2>1, <2>2, <2>3
<1>6. ASSUME NEW c \in CharIds, DeleteChar(c) PROVE AnchorInv'
  BY <1>1, <1>2, <1>6 DEF DeleteChar
<1>7. ASSUME NEW c \in CharIds, HearChar(c) \/ HearErased(c) PROVE AnchorInv'
  <2>1. /\ \/ reader' = [reader EXCEPT !.known = reader.known \cup {c}]
           \/ reader' = [reader EXCEPT !.erased = reader.erased \cup {c}]
        /\ UNCHANGED <<block, erased, anchor, picked>>
    BY <1>7 DEF HearChar, HearErased
  <2>2. reader' \in ReaderRow /\ reader'.there = reader.there /\ reader'.text = reader.text
    BY <1>2, <2>1 DEF ReaderRow
  <2>3. QED
    BY <1>1, <1>2, <2>1, <2>2
<1>8. QED
  BY <1>3, <1>4, <1>5, <1>6, <1>7

LEMMA AnchorStepInv == AnchorInv /\ [AnchorNext]_anchorVars => AnchorInv'
<1> SUFFICES ASSUME AnchorInv, [AnchorNext]_anchorVars PROVE AnchorInv'
  OBVIOUS
<1>1. CASE UNCHANGED anchorVars
  BY <1>1 DEF anchorVars, AnchorInv, LineFits, AnchorFits, Places, Chars
<1>2. CASE AnchorNext
  BY <1>2, StartThreadInv, InsertCharInv, OtherAnchorInv DEF AnchorNext
<1>3. QED
  BY <1>1, <1>2

-----------------------------------------------------------------------------
\* What the reader sees before a place grows with the place, and by what is seen there.
ReaderSees(n) == block.line[n] \in reader.known \ reader.erased

LEMMA SeenBeforeGrows ==
    ASSUME AnchorInv, NEW m \in Places, NEW n \in Places
    PROVE  /\ SeenBefore(m) \in Nat
           /\ m <= n => SeenBefore(m) <= SeenBefore(n)
           /\ m < n /\ ReaderSees(m) => SeenBefore(m) + 1 <= SeenBefore(n)
<1> DEFINE S(k) == {q \in 1..(k - 1) : block.line[q] \in reader.known \ reader.erased}
<1>1. ASSUME NEW k \in Places PROVE IsFiniteSet(S(k))
  <2>1. IsFiniteSet(1..(k - 1))
    BY AnchorFacts, FS_Interval
  <2>2. S(k) \in SUBSET (1..(k - 1))
    OBVIOUS
  <2>3. QED
    BY <2>1, <2>2, FS_Subset
<1>2. \A k : SeenBefore(k) = Cardinality(S(k))
  BY DEF SeenBefore
<1>3. Cardinality(S(m)) \in Nat /\ Cardinality(S(n)) \in Nat
  BY <1>1, FS_CardinalityType
<1>4. m \in Nat /\ n \in Nat
  BY AnchorFacts
<1>5. ASSUME m <= n PROVE Cardinality(S(m)) <= Cardinality(S(n))
  <2>1. S(m) \in SUBSET S(n)
    BY <1>4, <1>5
  <2>2. QED
    BY <1>1, <2>1, FS_Subset
<1>6. ASSUME m < n, ReaderSees(m) PROVE Cardinality(S(m)) + 1 <= Cardinality(S(n))
  <2>1. m \notin S(m) /\ m \in S(n) /\ S(m) \subseteq S(n)
    BY <1>4, <1>6, AnchorFacts DEF ReaderSees, Places
  <2>2. Cardinality(S(m) \cup {m}) = Cardinality(S(m)) + 1
    BY <1>1, <2>1, FS_AddElement
  <2>3. S(m) \cup {m} \in SUBSET S(n)
    BY <2>1
  <2>4. Cardinality(S(m) \cup {m}) <= Cardinality(S(n))
    BY <1>1, <2>3, FS_Subset
  <2>5. QED
    BY <2>2, <2>4
<1> HIDE DEF S
<1>7. QED
  BY <1>2, <1>3, <1>5, <1>6

\* A range begins with the first character and ends with the last that is left.
LEMMA RangeHoldsItsWords == AnchorInv => AnchorHoldsItsWords
<1> SUFFICES ASSUME AnchorInv, anchor.kind = "range", Resolve.kind = "range"
             PROVE  /\ \A c \in (picked \cap reader.known) \ reader.erased :
                          PlaceOf(c) \in Covered
                    /\ \A n \in Covered : \E c, e \in picked : PlaceOf(c) <= n /\ n <= PlaceOf(e)
  BY DEF AnchorHoldsItsWords
<1> DEFINE f == PlaceOf(anchor.first)
           l == PlaceOf(anchor.last)
           lasting == IF anchor.last \in reader.erased THEN 0 ELSE 1
<1>1. AnchorFits
  BY DEF AnchorInv
<1>2. /\ f \in Places /\ block.line[f] = anchor.first
      /\ l \in Places /\ block.line[l] = anchor.last
  BY <1>1, PlaceFacts DEF AnchorFits
<1>3. /\ Resolve.start = SeenBefore(f) /\ Resolve.end = SeenBefore(l) + lasting
      /\ {anchor.first, anchor.last} \subseteq reader.known
  BY DEF Resolve, Orphaned
<1>4. anchor.last \notin reader.erased => ReaderSees(l)
  BY <1>2, <1>3 DEF ReaderSees
<1>5. lasting = (IF anchor.last \in reader.erased THEN 0 ELSE 1)
  OBVIOUS
<1> HIDE DEF f, l, lasting
<1>6. ASSUME NEW c \in (picked \cap reader.known) \ reader.erased
      PROVE  PlaceOf(c) \in Covered
  <2> DEFINE p == PlaceOf(c)
  <2>1. p \in Places /\ block.line[p] = c /\ ReaderSees(p)
    BY <1>1, <1>6, PlaceFacts DEF AnchorFits, ReaderSees
  <2> HIDE DEF p
  <2>2. f <= p /\ p <= l
    BY <1>1, <1>2, <2>1, <1>6 DEF AnchorFits
  <2>3. SeenBefore(p) >= Resolve.start
    BY <1>2, <1>3, <2>1, <2>2, SeenBeforeGrows
  <2>4. SeenBefore(p) < Resolve.end
    <3>1. CASE anchor.last \in reader.erased
      <4>1. p # l
        BY <1>2, <1>6, <2>1, <3>1
      <4>2. p < l
        BY <1>2, <2>1, <2>2, <4>1, AnchorFacts
      <4>3. SeenBefore(p) + 1 <= SeenBefore(l) /\ SeenBefore(p) \in Nat /\ SeenBefore(l) \in Nat
        BY <1>2, <2>1, <4>2, SeenBeforeGrows
      <4>4. QED
        BY <1>3, <1>5, <3>1, <4>3
    <3>2. CASE anchor.last \notin reader.erased
      <4>1. SeenBefore(p) <= SeenBefore(l) /\ SeenBefore(p) \in Nat /\ SeenBefore(l) \in Nat
        BY <1>2, <2>1, <2>2, SeenBeforeGrows
      <4>2. QED
        BY <1>3, <1>5, <3>2, <4>1
    <3>3. QED
      BY <3>1, <3>2
  <2>5. QED
    BY <2>1, <2>3, <2>4 DEF p, Covered, ReaderSees, Places
<1>7. ASSUME NEW n \in Covered
      PROVE  \E c, e \in picked : PlaceOf(c) <= n /\ n <= PlaceOf(e)
  <2>1. /\ n \in Places /\ ReaderSees(n)
        /\ SeenBefore(n) >= SeenBefore(f) /\ SeenBefore(n) < SeenBefore(l) + lasting
    BY <1>3, <1>7 DEF Covered, ReaderSees, Places
  <2>2. /\ n \in Nat /\ f \in Nat /\ l \in Nat
        /\ SeenBefore(n) \in Nat /\ SeenBefore(f) \in Nat /\ SeenBefore(l) \in Nat
    BY <1>2, <2>1, AnchorFacts, SeenBeforeGrows
  <2>3. f <= n
    <3>1. n < f => SeenBefore(n) + 1 <= SeenBefore(f)
      BY <1>2, <2>1, SeenBeforeGrows
    <3>2. QED
      BY <2>1, <2>2, <3>1
  <2>4. n <= l
    <3>1. l < n => SeenBefore(l) <= SeenBefore(n)
      BY <1>2, <2>1, <2>2, SeenBeforeGrows
    <3>2. l < n /\ ReaderSees(l) => SeenBefore(l) + 1 <= SeenBefore(n)
      BY <1>2, <2>1, SeenBeforeGrows
    <3>3. CASE anchor.last \in reader.erased
      BY <1>5, <2>1, <2>2, <3>1, <3>3
    <3>4. CASE anchor.last \notin reader.erased
      BY <1>4, <1>5, <2>1, <2>2, <3>2, <3>4
    <3>5. QED
      BY <3>3, <3>4
  <2>5. QED
    BY <1>1, <2>3, <2>4 DEF f, l, AnchorFits
<1>8. QED
  BY <1>6, <1>7

\* Whatever is typed, deleted and made anew, and however late the reader hears of it: a
\* range is of what is left of its words, and orphans are not drawn (comment-anchor.ts).
THEOREM AnchorsAlwaysHold == AnchorSpec => []AnchorsHold
<1>1. AnchorInv => AnchorsHold
  <2> SUFFICES ASSUME AnchorInv PROVE AnchorsHold
    OBVIOUS
  <2>1. /\ block.there \in BOOLEAN /\ block.text \in 0..MaxRetypes
        /\ Cardinality(Chars(block.line)) = Len(block.line) /\ erased \subseteq CharIds
        /\ reader.known \cup reader.erased \subseteq CharIds /\ reader.text <= block.text
        /\ block.there => reader.there
    BY DEF AnchorInv, BlockRow, ReaderRow, LineFits
  <2>2. anchor.kind = "range" => /\ anchor.first # NoChar /\ anchor.last # NoChar
                                 /\ {anchor.first, anchor.last} \subseteq picked
    BY AnchorFacts DEF AnchorInv, AnchorFits, NoChar
  <2>3. AnchorTypeOK
    BY <2>1, <2>2 DEF AnchorTypeOK
  <2>4. OrphansAreNotDrawn
    <3> SUFFICES ASSUME anchor.kind # "none",
                        ~reader.there \/ (anchor.kind = "range" /\ reader.text # anchor.text)
                 PROVE  Resolve.kind = "orphaned"
      BY DEF OrphansAreNotDrawn
    <3>1. Resolve = Orphaned
      BY DEF Resolve
    <3>2. QED
      BY <3>1 DEF Orphaned
  <2>5. QED
    BY <2>3, <2>4, RangeHoldsItsWords DEF AnchorsHold
<1>2. QED
  BY <1>1, AnchorInitInv, AnchorStepInv, PTL DEF AnchorSpec
==============================================================================
