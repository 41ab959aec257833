------------------------ MODULE UpdateEnvironmentProofs ------------------------
(* UpdateEnvironment for any callers, any versions and any page counts.     *)
EXTENDS UpdateEnvironment, TLAPS

\* A call that is storing has fetched a document, up to its last page.
HasDocument ==
  \A c \in Callers :
    pc[c] \in {"storeEnvironment", "storeContext"} =>
      doc[c] # None /\ Atomic!Whole(doc[c].overrides)

\* What a call has fetched is no older than its beginning.
Fresh ==
  \A c \in Callers :
    /\ began[c] <= published
    /\ doc[c] # None => began[c] <= doc[c].updatedAt

\* Unless stores are mixed, at most one call is between its two stores, and
\* Client.environment is the document it is about to derive the context from.
OneStorer ==
  ~mixed => \A c \in Callers : Storing(c) =>
    /\ environment = doc[c]
    /\ \A d \in Callers : Storing(d) => d = c

Inv ==
  /\ TypeOK
  /\ StampIsConservative
  /\ HasDocument
  /\ Fresh
  /\ OneStorer
  /\ AgreeUnlessMixed

-------------------------------------------------------------------------------
\* The answer to a page request keeps the stamp of the first page, which stays
\* no newer than any page, and keeps the pages in order.
LEMMA FirstPage ==
  ASSUME TypeOK, UpdateAssumption
  PROVE  /\ WithPage(None) \in Document
         /\ WithPage(None).updatedAt = published
         /\ ConservativeStamp(WithPage(None))
         /\ LET pages == WithPage(None).overrides IN pages[Len(pages)] = published
BY SMT DEF TypeOK, UpdateAssumption, Versions, Document, WithPage, ConservativeStamp

\* Appending the latest version keeps a sequence of versions in order, between
\* its lower bound and the latest version.
LEMMA AppendLatest ==
  ASSUME NEW low \in Nat, NEW latest \in Nat, low <= latest,
         NEW s \in Seq(Nat),
         \A i \in 1..Len(s) : s[i] \in low..latest,
         \A i, j \in 1..Len(s) : i <= j => s[i] <= s[j],
         NEW t, t = Append(s, latest)
  PROVE  /\ t # <<>>
         /\ \A i \in 1..Len(t) : t[i] \in low..latest
         /\ \A i, j \in 1..Len(t) : i <= j => t[i] <= t[j]
<1>1. t \in Seq(Nat) /\ Len(t) = Len(s) + 1
  OBVIOUS
<1>2. \A i \in 1..Len(t) : t[i] = IF i = Len(s) + 1 THEN latest ELSE s[i]
  BY <1>1
<1>3. t # <<>>
  BY <1>1
<1>4. \A i \in 1..Len(t) : t[i] \in low..latest
  BY <1>1, <1>2
<1>5. ASSUME NEW i \in 1..Len(t), NEW j \in 1..Len(t), i <= j
      PROVE  t[i] <= t[j]
  <2>1. CASE j = Len(s) + 1
    BY <1>1, <1>2, <1>4, <2>1
  <2>2. CASE j # Len(s) + 1
    <3>1. i \in 1..Len(s) /\ j \in 1..Len(s)
      BY <1>1, <1>5, <2>2
    <3> QED BY <1>1, <1>2, <1>5, <3>1
  <2> QED BY <2>1, <2>2
<1> QED BY <1>3, <1>4, <1>5

LEMMA LaterPage ==
  ASSUME TypeOK, UpdateAssumption, NEW d \in Document, ConservativeStamp(d)
  PROVE  /\ WithPage(d) \in Document
         /\ WithPage(d).updatedAt = d.updatedAt
         /\ ConservativeStamp(WithPage(d))
         /\ LET pages == WithPage(d).overrides IN pages[Len(pages)] = published
<1> DEFINE e == WithPage(d)
           t == Append(d.overrides, published)
<1>1. d # None
  BY DEF UpdateAssumption
<1>2. d.overrides \in Seq(Versions) /\ published \in Versions
  BY DEF Document, TypeOK
<1>3. e = [updatedAt |-> d.updatedAt, features |-> d.features, overrides |-> t]
  BY <1>1 DEF WithPage, Document
<1>4. t \in Seq(Versions)
  BY <1>2
<1>5. e \in Document
  BY <1>3, <1>4 DEF Document
<1>6. d.overrides \in Seq(Nat) /\ d.updatedAt \in Nat /\ published \in Nat
  BY <1>2 DEF Document, Versions, UpdateAssumption
<1>7. d.updatedAt <= published
  <2>1. 1 \in 1..Len(d.overrides)
    BY <1>2 DEF ConservativeStamp
  <2>2. d.overrides[1] \in d.updatedAt..published
    BY <2>1 DEF ConservativeStamp
  <2> QED BY <1>6, <2>2
<1>8. /\ t # <<>>
      /\ \A i \in 1..Len(t) : t[i] \in d.updatedAt..published
      /\ \A i, j \in 1..Len(t) : i <= j => t[i] <= t[j]
  <2> HIDE DEF t
  <2>1. t = Append(d.overrides, published)
    BY DEF t
  <2> QED BY <1>6, <1>7, <2>1, AppendLatest DEF ConservativeStamp
<1>9. ConservativeStamp(e)
  BY <1>3, <1>8 DEF ConservativeStamp
<1>10. t[Len(t)] = published
  BY <1>2
<1> QED BY <1>3, <1>5, <1>9, <1>10

\* A new version the API holds invalidates no document fetched before.
LEMMA StampSurvivesPublish ==
  ASSUME TypeOK, UpdateAssumption, NEW d \in Document, ConservativeStamp(d),
         published' = published + 1
  PROVE  ConservativeStamp(d)'
<1>1. d.updatedAt \in Nat /\ published \in Nat
  BY DEF TypeOK, Versions, Document, UpdateAssumption
<1>2. ASSUME NEW i \in 1..Len(d.overrides)
      PROVE  d.overrides[i] \in d.updatedAt..published'
  <2>1. d.overrides[i] \in d.updatedAt..published
    BY DEF ConservativeStamp
  <2> QED BY <1>1, <2>1
<1> QED BY <1>2 DEF ConservativeStamp

LEMMA ContextOfDocument ==
  ASSUME NEW d \in Document
  PROVE  ContextOf(d) \in Context
BY DEF Document, Context, ContextOf

-------------------------------------------------------------------------------
LEMMA InitInv == Init => Inv
<1> SUFFICES ASSUME Init
             PROVE  Inv
  OBVIOUS
<1>1. 1 \in Versions
  BY UpdateAssumption DEF UpdateAssumption, Versions
<1>2. TypeOK
  BY <1>1 DEF Init, TypeOK
<1>3. \A c \in Callers : pc[c] = "idle" /\ doc[c] = None /\ began[c] = 1
  BY DEF Init
<1>4. StampIsConservative /\ HasDocument /\ Fresh
  BY <1>3 DEF Init, StampIsConservative, HasDocument, Fresh
<1>5. OneStorer /\ AgreeUnlessMixed
  BY <1>3 DEF Init, OneStorer, Storing, AgreeUnlessMixed
<1> QED BY <1>2, <1>4, <1>5 DEF Inv

LEMMA PublishInv == Inv /\ Publish => Inv'
<1> SUFFICES ASSUME Inv, Publish
             PROVE  Inv'
  OBVIOUS
<1> USE UpdateAssumption DEF Inv, Publish, client
<1>1. TypeOK'
  BY DEF TypeOK, Versions, UpdateAssumption
<1>2. StampIsConservative'
  BY StampSurvivesPublish DEF StampIsConservative, TypeOK
<1>3. HasDocument' /\ OneStorer' /\ AgreeUnlessMixed'
  BY DEF HasDocument, OneStorer, AgreeUnlessMixed, Storing
<1>4. Fresh'
  BY DEF Fresh, TypeOK, Versions, UpdateAssumption
<1> QED BY <1>1, <1>2, <1>3, <1>4

LEMMA BeginInv == \A c \in Callers : Inv /\ Begin(c) => Inv'
<1> SUFFICES ASSUME NEW c \in Callers, Inv, Begin(c)
             PROVE  Inv'
  OBVIOUS
<1> USE UpdateAssumption DEF Inv, Begin, client
<1>1. TypeOK'
  BY DEF TypeOK
<1>2. StampIsConservative'
  BY DEF StampIsConservative, ConservativeStamp, TypeOK
<1>3. \A d \in Callers : Storing(d)' <=> Storing(d)
  BY DEF Storing, TypeOK
<1>4. \A d \in Callers : Storing(d) => doc'[d] = doc[d]
  BY DEF Storing, TypeOK
<1>5. OneStorer' /\ AgreeUnlessMixed'
  BY <1>3, <1>4 DEF OneStorer, AgreeUnlessMixed
<1>6. HasDocument' /\ Fresh'
  BY DEF HasDocument, Fresh, TypeOK, Versions, UpdateAssumption
<1> QED BY <1>1, <1>2, <1>5, <1>6

LEMMA FetchPageInv == \A c \in Callers : Inv /\ FetchPage(c) => Inv'
<1> SUFFICES ASSUME NEW c \in Callers, Inv, FetchPage(c)
             PROVE  Inv'
  OBVIOUS
<1> USE UpdateAssumption DEF Inv, FetchPage, client
<1>1. /\ doc'[c] = WithPage(doc[c])
      /\ \A d \in Callers \ {c} : doc'[d] = doc[d]
  BY DEF TypeOK
<1>2. /\ doc'[c] \in Document
      /\ doc'[c].updatedAt = IF doc[c] = None THEN published ELSE doc[c].updatedAt
      /\ ConservativeStamp(doc'[c])
      /\ doc'[c].overrides[Len(doc'[c].overrides)] = published
  BY <1>1, FirstPage, LaterPage DEF TypeOK, StampIsConservative
<1>3. TypeOK'
  BY <1>1, <1>2 DEF TypeOK
<1>4. StampIsConservative'
  <2>1. (environment # None => ConservativeStamp(environment))'
    BY DEF StampIsConservative, ConservativeStamp
  <2>2. ASSUME NEW d \in Callers \ {c}, doc'[d] # None
        PROVE  ConservativeStamp(doc[d])'
    BY <1>1, <2>2 DEF StampIsConservative, ConservativeStamp
  <2>3. ConservativeStamp(doc[c])'
    BY <1>2 DEF ConservativeStamp
  <2> QED BY <2>1, <2>2, <2>3 DEF StampIsConservative
<1>5. \A d \in Callers : Storing(d)' <=> Storing(d)
  BY DEF Storing, TypeOK
<1>6. \A d \in Callers : Storing(d) => doc'[d] = doc[d]
  BY <1>1 DEF Storing
<1>7. OneStorer' /\ AgreeUnlessMixed'
  BY <1>5, <1>6 DEF OneStorer, AgreeUnlessMixed
<1>8. HasDocument'
  <2>1. pc'[c] = "storeEnvironment" => Atomic!Whole(doc'[c].overrides)
    <3>1. Len(doc'[c].overrides) \in Nat /\ PageCount[published] \in Nat
      BY <1>2 DEF Document, TypeOK, UpdateAssumption
    <3> QED BY <1>2, <3>1 DEF HasNextPage, Atomic!Whole, TypeOK
  <2>2. doc'[c] # None /\ pc'[c] \in {"fetch", "storeEnvironment"}
    BY <1>2 DEF TypeOK, UpdateAssumption
  <2>3. \A d \in Callers \ {c} : pc'[d] = pc[d]
    BY DEF TypeOK
  <2> QED BY <1>1, <2>1, <2>2, <2>3 DEF HasDocument
<1>9. Fresh'
  BY <1>1, <1>2 DEF Fresh
<1> QED BY <1>3, <1>4, <1>7, <1>8, <1>9

LEMMA FailInv == \A c \in Callers : Inv /\ Fail(c) => Inv'
<1> SUFFICES ASSUME NEW c \in Callers, Inv, Fail(c)
             PROVE  Inv'
  OBVIOUS
<1> USE UpdateAssumption DEF Inv, Fail, client
<1>1. TypeOK'
  BY DEF TypeOK
<1>2. StampIsConservative'
  BY DEF StampIsConservative, ConservativeStamp, TypeOK
<1>3. \A d \in Callers : Storing(d)' <=> Storing(d)
  BY DEF Storing, TypeOK
<1>4. \A d \in Callers : Storing(d) => doc'[d] = doc[d]
  BY DEF Storing, TypeOK
<1>5. OneStorer' /\ AgreeUnlessMixed'
  BY <1>3, <1>4 DEF OneStorer, AgreeUnlessMixed
<1>6. HasDocument' /\ Fresh'
  BY DEF HasDocument, Fresh, TypeOK
<1> QED BY <1>1, <1>2, <1>5, <1>6

LEMMA StoreEnvironmentInv == \A c \in Callers : Inv /\ StoreEnvironment(c) => Inv'
<1> SUFFICES ASSUME NEW c \in Callers, Inv, StoreEnvironment(c)
             PROVE  Inv'
  OBVIOUS
<1> USE UpdateAssumption DEF Inv, StoreEnvironment, client
<1>1. TypeOK'
  BY DEF TypeOK
<1>2. StampIsConservative'
  BY DEF StampIsConservative, ConservativeStamp
<1>3. HasDocument' /\ Fresh'
  BY DEF HasDocument, Fresh, TypeOK
<1>4. \A d \in Callers : Storing(d)' <=> (d = c \/ Storing(d))
  BY DEF Storing, TypeOK
<1>5. OneStorer'
  BY <1>4 DEF OneStorer
<1>6. AgreeUnlessMixed'
  BY <1>4 DEF AgreeUnlessMixed
<1> QED BY <1>1, <1>2, <1>3, <1>5, <1>6

LEMMA StoreContextInv == \A c \in Callers : Inv /\ StoreContext(c) => Inv'
<1> SUFFICES ASSUME NEW c \in Callers, Inv, StoreContext(c)
             PROVE  Inv'
  OBVIOUS
<1> USE UpdateAssumption DEF Inv, StoreContext, client
<1>1. doc[c] \in Document
  BY DEF HasDocument, TypeOK, Storing
<1>2. TypeOK'
  BY <1>1, ContextOfDocument DEF TypeOK
<1>3. StampIsConservative'
  BY DEF StampIsConservative, ConservativeStamp, TypeOK
<1>4. HasDocument' /\ Fresh'
  BY DEF HasDocument, Fresh, TypeOK
<1>5. \A d \in Callers : Storing(d)' <=> (d # c /\ Storing(d))
  BY DEF Storing, TypeOK
<1>6. OneStorer'
  BY <1>5 DEF OneStorer, TypeOK
<1>7. AgreeUnlessMixed'
  BY <1>1, <1>5 DEF AgreeUnlessMixed, OneStorer, UpdateAssumption
<1> QED BY <1>2, <1>3, <1>4, <1>6, <1>7

LEMMA Inductive == Inv /\ [Next]_vars => Inv'
<1> SUFFICES ASSUME Inv, [Next]_vars
             PROVE  Inv'
  OBVIOUS
<1>1. CASE UNCHANGED vars
  BY <1>1
  DEF vars, client, Inv, TypeOK, StampIsConservative, ConservativeStamp, HasDocument, Fresh,
      OneStorer, Storing, AgreeUnlessMixed
<1>2. ASSUME NEW c \in Callers, Call(c)
      PROVE  Inv'
  BY <1>2, BeginInv, FetchPageInv, FailInv, StoreEnvironmentInv, StoreContextInv DEF Call
<1> QED BY <1>1, <1>2, PublishInv DEF Next

LEMMA Invariance == Spec => []Inv
BY InitInv, Inductive, PTL DEF Spec

-------------------------------------------------------------------------------
\* Every variable of UpdateEnvironment keeps its type.
THEOREM TypeCorrect == Spec => []TypeOK
<1>1. Inv => TypeOK
  BY DEF Inv
<1> QED BY <1>1, Invariance, PTL

\* No document, stored or being fetched, carries a stamp newer than any of its
\* pages, however edits fall between the pages.
THEOREM StampsAreConservative == Spec => []StampIsConservative
<1>1. Inv => StampIsConservative
  BY DEF Inv
<1> QED BY <1>1, Invariance, PTL

\* Client.environment and the evaluation context agree whenever nobody is
\* between the two stores, unless stores have overlapped.
THEOREM StoresAgree == Spec => []AgreeUnlessMixed
<1>1. Inv => AgreeUnlessMixed
  BY DEF Inv
<1> QED BY <1>1, Invariance, PTL

-------------------------------------------------------------------------------
(* The refinement: each step of UpdateEnvironment is a step of the atomic   *)
(* refresh, or changes nothing it can see.                                  *)

Asked == [c \in Callers |-> IF pc[c] = "idle" THEN 0 ELSE began[c]]

LEMMA InitRefines == Init => Atomic!Init
BY DEF Init, Atomic!Init

LEMMA BeginRefines ==
  ASSUME NEW c \in Callers, Inv, Begin(c)
  PROVE  Atomic!Ask(c)
BY DEF Inv, TypeOK, Begin, client, Atomic!Ask

LEMMA FailRefines ==
  ASSUME NEW c \in Callers, Inv, Fail(c)
  PROVE  Atomic!GiveUp(c)
<1>1. began[c] # 0
  BY UpdateAssumption DEF UpdateAssumption, Inv, TypeOK, Versions
<1> QED BY <1>1 DEF Inv, TypeOK, Fail, client, Atomic!GiveUp

LEMMA SilentRefines ==
  ASSUME NEW c \in Callers, Inv, FetchPage(c) \/ StoreEnvironment(c)
  PROVE  UNCHANGED <<published, context, Asked>>
<1>1. UNCHANGED <<published, context, began>>
  BY DEF FetchPage, StoreEnvironment, client
<1>2. \A d \in Callers : pc[d] = "idle" <=> pc'[d] = "idle"
  BY DEF FetchPage, StoreEnvironment, Inv, TypeOK
<1> QED BY <1>1, <1>2 DEF Asked

LEMMA StoreContextRefines ==
  ASSUME NEW c \in Callers, Inv, StoreContext(c)
  PROVE  Atomic!Install(c)
<1> DEFINE d == doc[c]
<1>1. /\ d \in Document /\ d # None /\ ConservativeStamp(d) /\ began[c] <= d.updatedAt
      /\ Atomic!Whole(d.overrides)
  BY DEF Inv, TypeOK, HasDocument, StampIsConservative, Fresh, StoreContext, Storing
<1>2. began[c] \in Nat \ {0} /\ published \in Nat
  BY UpdateAssumption DEF UpdateAssumption, Inv, TypeOK, Versions
<1>3. /\ context' = ContextOf(d)
      /\ context' # None
      /\ context'.features = d.updatedAt
      /\ context'.overrides = d.overrides
  BY <1>1, UpdateAssumption, ContextOfDocument
  DEF UpdateAssumption, StoreContext, ContextOf, ConservativeStamp
<1>4. \A i \in 1..Len(d.overrides) : d.overrides[i] \in d.updatedAt..published
  BY <1>1 DEF ConservativeStamp
<1>5. d.updatedAt \in began[c]..published
  <2>1. 1 \in 1..Len(d.overrides)
    BY <1>1 DEF ConservativeStamp, Document
  <2>2. d.overrides[1] \in d.updatedAt..published
    BY <1>4, <2>1
  <2>3. d.updatedAt \in Nat
    BY <1>1, UpdateAssumption DEF UpdateAssumption, Document, Versions
  <2> QED BY <1>1, <1>2, <2>2, <2>3
<1>6. Atomic!ReadSince(context', began[c])
  BY <1>1, <1>3, <1>4, <1>5 DEF Atomic!ReadSince, ConservativeStamp
<1>7. UNCHANGED <<published, began>> /\ pc[c] = "storeContext" /\ pc' = [pc EXCEPT ![c] = "idle"]
  BY DEF StoreContext, Storing
<1>8. Asked[c] = began[c] /\ Asked' = [Asked EXCEPT ![c] = 0]
  BY <1>7 DEF Asked, Inv, TypeOK
<1> QED BY <1>2, <1>6, <1>7, <1>8 DEF Atomic!Install, Asked

LEMMA StepRefines == Inv /\ [Next]_vars => [Atomic!Next]_(Atomic!vars)
<1> SUFFICES ASSUME Inv, [Next]_vars
             PROVE  Atomic!Next \/ UNCHANGED Atomic!vars
  OBVIOUS
<1>1. CASE UNCHANGED vars
  BY <1>1 DEF vars, client, Atomic!vars
<1>2. CASE Publish
  BY <1>2 DEF Publish, client, Atomic!Publish, Atomic!Next
<1>3. ASSUME NEW c \in Callers, Call(c)
      PROVE  Atomic!Next \/ UNCHANGED Atomic!vars
  <2>1. CASE Begin(c)
    BY <2>1, BeginRefines DEF Atomic!Next
  <2>2. CASE FetchPage(c) \/ StoreEnvironment(c)
    BY <2>2, SilentRefines DEF Asked, Atomic!vars
  <2>3. CASE Fail(c)
    BY <2>3, FailRefines DEF Atomic!Next
  <2>4. CASE StoreContext(c)
    BY <2>4, StoreContextRefines DEF Atomic!Next
  <2> QED BY <1>3, <2>1, <2>2, <2>3, <2>4 DEF Call
<1> QED BY <1>1, <1>2, <1>3 DEF Next

\* UpdateEnvironment implements an atomic refresh: a call that fails changes
\* nothing that evaluations read, and one that succeeds installs at once content
\* the API held no earlier than the call, with all of its pages.
THEOREM ImplementsAtomicRefresh == Spec => RefreshesAtomically
BY InitRefines, StepRefines, Invariance, PTL DEF Spec, RefreshesAtomically, Atomic!Spec

===============================================================================
