--------------------------- MODULE UpdateEnvironment ---------------------------
(***************************************************************************)
(* Client.UpdateEnvironment, called by several goroutines at once: the     *)
(* polling worker, the realtime worker and the application.                *)
(*                                                                         *)
(* A call fetches the environment document page by page, keeps the first   *)
(* page and appends the identity overrides of the others, and then makes   *)
(* two separate atomic stores: Client.environment (the document) and       *)
(* Client.engineEvaluationContext (what evaluations read).  No lock spans  *)
(* the pages, nor the two stores.                                          *)
(*                                                                         *)
(* The Flagsmith API is external.  It holds one version of the document at *)
(* a time and answers every page request from the version it holds at that *)
(* moment, so what a page carries is represented by that version.          *)
(***************************************************************************)
EXTENDS Naturals, Sequences

CONSTANTS
  Callers,    \* the goroutines that may be inside UpdateEnvironment
  MaxVersion, \* bound on the number of versions the API ever holds
  PageCount,  \* PageCount[v]: how many pages the document of version v has
  None        \* a Load() that finds nothing stored

Versions == 1..MaxVersion

\* environments.EnvironmentModel as assembled from pages: features stands for
\* everything but the overrides, overrides[k] for those that page k carried.
Document == [updatedAt : Versions, features : Versions, overrides : Seq(Versions)]

\* engine_eval.EngineEvaluationContext: it keeps no update stamp.
Context == [features : Versions, overrides : Seq(Versions)]

ASSUME UpdateAssumption ==
  /\ MaxVersion \in Nat \ {0}
  /\ PageCount \in [Versions -> Nat \ {0}]
  /\ None \notin Document \cup Context

VARIABLES
  published,   \* version the API holds
  environment, \* Client.environment
  context,     \* Client.engineEvaluationContext
  pc,          \* where each caller is in UpdateEnvironment
  doc,         \* the local variable env of each call
  began,       \* history: version the API held when the call began
  mixed        \* history: two calls' pairs of stores have overlapped, and no
               \* pair has started alone since

client == <<environment, context>>
vars == <<published, environment, context, pc, doc, began, mixed>>

\* Mutant: the context is the document itself.
ContextOfWholeDocument(d) == d

\* MapEnvironmentDocumentToEvaluationContext, down to what it keeps and drops.
ContextOf(d) == [features |-> d.features, overrides |-> d.overrides]

Storing(c) == pc[c] = "storeContext"

-------------------------------------------------------------------------------
Init ==
  /\ published = 1
  /\ environment = None
  /\ context = None
  /\ pc = [c \in Callers |-> "idle"]
  /\ doc = [c \in Callers |-> None]
  /\ began = [c \in Callers |-> 1]
  /\ mixed = FALSE

\* Someone edits the environment: the API holds the next version.
Publish ==
  /\ published < MaxVersion
  /\ published' = published + 1
  /\ UNCHANGED <<client, pc, doc, began, mixed>>

Begin(c) ==
  /\ pc[c] = "idle"
  /\ pc' = [pc EXCEPT ![c] = "fetch"]
  /\ doc' = [doc EXCEPT ![c] = None]
  /\ began' = [began EXCEPT ![c] = published]
  /\ UNCHANGED <<published, client, mixed>>

\* Mutant: every page brings its own stamp.
WithPageRestamped(d) ==
  IF d = None
  THEN [updatedAt |-> published, features |-> published, overrides |-> <<published>>]
  ELSE [d EXCEPT !.updatedAt = published, !.overrides = Append(@, published)]

\* The page the API answers with, added to what the call has so far.
WithPage(d) ==
  IF d = None
  THEN [updatedAt |-> published, features |-> published, overrides |-> <<published>>]
  ELSE [d EXCEPT !.overrides = Append(@, published)]

\* ExtractNextPage of the answer to the n-th request: the API links a next page
\* as long as the version it holds has one.
HasNextPage(n) == n < PageCount[published]

\* One 200 response.  The call asks for the next page if the answer links one.
FetchPage(c) ==
  /\ pc[c] = "fetch"
  /\ doc' = [doc EXCEPT ![c] = WithPage(@)]
  /\ pc' = [pc EXCEPT ![c] = IF HasNextPage(Len(doc'[c].overrides))
                             THEN "fetch" ELSE "storeEnvironment"]
  /\ UNCHANGED <<published, client, began, mixed>>

\* Mutant: an error ends the loop over the pages, and not the call.
FailKeepsPages(c) ==
  /\ pc[c] = "fetch"
  /\ pc' = [pc EXCEPT ![c] = IF doc[c] = None THEN "idle" ELSE "storeEnvironment"]
  /\ UNCHANGED <<published, client, doc, began, mixed>>

\* A transport error, a timeout, a cancelled context or a status other than 200,
\* on any page: nothing is stored and the pages fetched so far are dropped.
Fail(c) ==
  /\ pc[c] = "fetch"
  /\ pc' = [pc EXCEPT ![c] = "idle"]
  /\ doc' = [doc EXCEPT ![c] = None]
  /\ UNCHANGED <<published, client, began, mixed>>

\* Mutant: isNew guards the first store as well as the log line.
StoreEnvironmentIfNew(c) ==
  /\ pc[c] = "storeEnvironment"
  /\ environment' =
       IF environment = None \/ doc[c].updatedAt > environment.updatedAt
       THEN doc[c] ELSE environment
  /\ pc' = [pc EXCEPT ![c] = "storeContext"]
  /\ mixed' = (\E d \in Callers : Storing(d))
  /\ UNCHANGED <<published, context, doc, began>>

StoreEnvironment(c) ==
  /\ pc[c] = "storeEnvironment"
  /\ environment' = doc[c]
  /\ pc' = [pc EXCEPT ![c] = "storeContext"]
  /\ mixed' = (\E d \in Callers : Storing(d))
  /\ UNCHANGED <<published, context, doc, began>>

\* Mutant: the context is mapped from the shared document, not from the local one.
StoreContextFromShared(c) ==
  /\ Storing(c)
  /\ context' = ContextOf(environment)
  /\ pc' = [pc EXCEPT ![c] = "idle"]
  /\ doc' = [doc EXCEPT ![c] = None]
  /\ UNCHANGED <<published, environment, began, mixed>>

StoreContext(c) ==
  /\ Storing(c)
  /\ context' = ContextOf(doc[c])
  /\ pc' = [pc EXCEPT ![c] = "idle"]
  /\ doc' = [doc EXCEPT ![c] = None]
  /\ UNCHANGED <<published, environment, began, mixed>>

Call(c) ==
  \/ Begin(c)
  \/ FetchPage(c)
  \/ Fail(c)
  \/ StoreEnvironment(c)
  \/ StoreContext(c)

Next == Publish \/ \E c \in Callers : Call(c)

Spec == Init /\ [][Next]_vars

-------------------------------------------------------------------------------
TypeOK ==
  /\ published \in Versions
  /\ environment \in Document \cup {None}
  /\ context \in Context \cup {None}
  /\ pc \in [Callers -> {"idle", "fetch", "storeEnvironment", "storeContext"}]
  /\ doc \in [Callers -> Document \cup {None}]
  /\ began \in [Callers -> Versions]
  /\ mixed \in BOOLEAN

\* The stamp of a document is never newer than any page in it, and its pages
\* never go back in time.  A document torn by an edit between two of its pages
\* therefore always carries the stamp of the version before the edit, so that a
\* later notification of that edit (realtime.go compares stamps) still counts as
\* newer and the document is fetched again.
ConservativeStamp(d) ==
  /\ d.updatedAt = d.features
  /\ d.overrides # <<>>
  /\ \A i \in 1..Len(d.overrides) : d.overrides[i] \in d.updatedAt..published
  /\ \A i, j \in 1..Len(d.overrides) : i <= j => d.overrides[i] <= d.overrides[j]

StampIsConservative ==
  /\ environment # None => ConservativeStamp(environment)
  /\ \A c \in Callers : doc[c] # None => ConservativeStamp(doc[c])

\* With no pair of stores under way, Client.environment and the evaluation
\* context come from one and the same fetch, unless two calls' pairs of stores
\* overlapped and no call has stored alone since.  So the disagreement that
\* unlocked concurrent updates can leave behind is undone by any later update
\* that meets no other.
AgreeUnlessMixed ==
  (~mixed /\ \A c \in Callers : ~Storing(c)) =>
    \/ environment = None /\ context = None
    \/ environment # None /\ context = ContextOf(environment)

-------------------------------------------------------------------------------
\* UpdateEnvironment as one atomic step; see PublishedEnvironment.
Atomic == INSTANCE PublishedEnvironment
          WITH served <- context,
               asked <- [c \in Callers |-> IF pc[c] = "idle" THEN 0 ELSE began[c]]

\* Seen through what evaluations read, the paged fetch and its two stores look
\* like one atomic refresh: a call that fails changes nothing, on whichever page, and
\* one that succeeds installs, at once, all the pages of content no older than the
\* call itself.
RefreshesAtomically == Atomic!Spec

===============================================================================
