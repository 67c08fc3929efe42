-------------------------- MODULE MiniServerProofs --------------------------
(***************************************************************************)
(* The reference count of the published description, and what the clients  *)
(* get, for any number of connections, requests and documents.             *)
(*                                                                         *)
(* HeldDocumentLives and OnlyChangesCrash rest on AliasCounted; that is    *)
(* made inductive by what a connection's place says about the reference it *)
(* has (HeldInv), by what the application's place says about the server's  *)
(* copy (OwnerInv) and by the history of crashes (CrashInv).               *)
(*                                                                         *)
(* AnswersFit rests on what each place of a connection's thread says about *)
(* the connection alone (ConnInv): what was decided of the document        *)
(* (Planned, Promised), and that what is sent and what is left of it make  *)
(* the whole (Reading).                                                    *)
(***************************************************************************)
EXTENDS MiniServer, FiniteSetTheorems, TLAPS

Docs == 1..MaxDocs

(***************************************************************************)
(* The inductive invariant.                                                *)
(***************************************************************************)
\* The shape of what the alias consists of; a connection is a record of which only the
\* fields that name a document matter here.
Document == [ct : Int, state : {"none", "live", "freed"}]

AliasTypeOK ==
  /\ docs \in [Docs -> Document]
  /\ withdrawn \in [Docs -> Nat]
  /\ gAliasDoc \in Docs \cup {NoDoc}
  /\ app \in {"idle", "publish", "destroy"}
  /\ DOMAIN conn = Conns
  /\ \A c \in Conns : /\ DOMAIN conn[c] = DOMAIN NoConn
                      /\ conn[c].alias \in Docs \cup {NoDoc}

Known(d) == docs[d].state # "none"

\* What is referred to has been published; who sends the alias has a reference to it.
HeldInv ==
  /\ gAliasDoc # NoDoc => Known(gAliasDoc)
  /\ \A d \in Docs : withdrawn[d] > 0 => Known(d)
  /\ \A c \in Conns : conn[c].alias # NoDoc => Known(conn[c].alias)
  /\ \A c \in Conns : conn[c].source = "alias" /\ conn[c].pc \in {"look", "head", "doc", "release"}
                        => conn[c].alias # NoDoc
  /\ \A c \in Conns : conn[c].pc \in {"doc", "release"} => conn[c].source = "alias"
  /\ \A c \in Conns : conn[c].pc \in {"idle", "receive", "web", "grab"} => conn[c].alias = NoDoc

NothingWithdrawn == \A d \in Docs : withdrawn[d] = 0

\* Until a document is given up there is one at most, and the server's copy is of it;
\* between the two steps of a call that changes the alias there is none then.
OwnerInv ==
  /\ NothingWithdrawn => \A d \in Docs : Known(d) => d = gAliasDoc
  /\ NothingWithdrawn /\ app # "idle" => gAliasDoc = NoDoc
  /\ ~webServerEnabled => gAliasDoc = NoDoc /\ app = "idle"
  /\ app = "publish" => \E d \in Docs : ~Known(d)

\* A request that is about to take a copy has seen a document.
CrashInv ==
  /\ OnlyChangesCrash
  /\ \A c \in Conns : conn[c].pc = "grab" => \E d \in Docs : Known(d)

AliasInv == AliasTypeOK /\ AliasCounted /\ HeldInv /\ OwnerInv /\ CrashInv

(***************************************************************************)
(* Counting who holds a document.                                          *)
(***************************************************************************)
Holders(d) == {c \in Conns : HasReference(c, d)}

LEMMA HoldersFinite ==
  ASSUME NEW d
  PROVE  IsFiniteSet(Holders(d)) /\ Cardinality(Holders(d)) \in Nat
<1>1. Holders(d) \in SUBSET Conns
  BY DEF Holders
<1> QED
  BY <1>1, BoundsAssumption, FS_Subset, FS_CardinalityType

\* A step of one connection changes the holders of a document by this one at most.
LEMMA HoldersMove ==
  ASSUME AliasTypeOK, NEW c \in Conns, NEW k, conn' = [conn EXCEPT ![c] = k], NEW d
  PROVE  Cardinality(Holders(d)') =
           IF k.alias = d THEN IF conn[c].alias = d THEN Cardinality(Holders(d)) ELSE Cardinality(Holders(d)) + 1
           ELSE IF conn[c].alias = d THEN Cardinality(Holders(d)) - 1 ELSE Cardinality(Holders(d))
<1>1. \A x \in Conns : conn'[x] = IF x = c THEN k ELSE conn[x]
  BY DEF AliasTypeOK
<1>2. c \in Holders(d) <=> conn[c].alias = d
  BY DEF Holders, HasReference
<1>3. Holders(d)' = IF k.alias = d THEN Holders(d) \cup {c} ELSE Holders(d) \ {c}
  BY <1>1 DEF Holders, HasReference
<1>4. IsFiniteSet(Holders(d)) /\ Cardinality(Holders(d)) \in Nat
  BY HoldersFinite
<1>5. CASE k.alias = d
  BY <1>2, <1>3, <1>4, <1>5, FS_AddElement
<1>6. CASE k.alias # d
  BY <1>2, <1>3, <1>4, <1>6, FS_RemoveElement
<1> QED
  BY <1>5, <1>6

\* The count of one document, as AliasCounted states it for all.
Counted1(d) ==
  Known(d) => /\ docs[d].ct = Cardinality(Holders(d)) + 1 - withdrawn[d]
              /\ docs[d].state = "live" <=> docs[d].ct > 0

LEMMA CountedByDocument ==
  ASSUME AliasTypeOK
  PROVE  AliasCounted <=> \A d \in Docs : Counted1(d)
  BY DEF AliasTypeOK, AliasCounted, Counted1, Known, Holders

LEMMA CountedByDocumentNext ==
  ASSUME AliasTypeOK'
  PROVE  AliasCounted' <=> \A d \in Docs : Counted1(d)'
  BY DEF AliasTypeOK, AliasCounted, Counted1, Known, Holders

(***************************************************************************)
(* The steps that leave the documents alone.                               *)
(***************************************************************************)
\* A request goes on, keeping the reference it has or has not.
KeepsReference(c, k) ==
  /\ conn' = [conn EXCEPT ![c] = k]
  /\ DOMAIN k = DOMAIN NoConn /\ k.alias = conn[c].alias
  /\ k.pc = "grab" => gAliasDoc # NoDoc
  /\ k.source = "alias" /\ k.pc \in {"look", "head", "doc", "release"} => k.alias # NoDoc
  /\ k.pc \in {"doc", "release"} => k.source = "alias"
  /\ k.pc \in {"idle", "receive", "web", "grab"} => k.alias = NoDoc

LEMMA QuietRequest ==
  ASSUME AliasInv, NEW c \in Conns, NEW k, KeepsReference(c, k),
         UNCHANGED <<cfgVars, aliasVars, appVars, crashed>>
  PROVE  AliasInv'
<1>1. \A x \in Conns : conn'[x] = IF x = c THEN k ELSE conn[x]
  BY DEF AliasInv, AliasTypeOK, KeepsReference
<1>2. AliasTypeOK'
  BY <1>1 DEF AliasInv, AliasTypeOK, KeepsReference, cfgVars, aliasVars, appVars
<1>3. ASSUME NEW d \in Docs PROVE Counted1(d)'
  <2>1. Counted1(d)
    BY CountedByDocument DEF AliasInv
  <2>2. Cardinality(Holders(d)') = Cardinality(Holders(d))
    <3>1. AliasTypeOK /\ conn' = [conn EXCEPT ![c] = k] /\ k.alias = conn[c].alias
      BY DEF AliasInv, KeepsReference
    <3> QED
      BY <3>1, HoldersMove
  <2> QED
    BY <2>1, <2>2 DEF Counted1, Known, aliasVars
<1>4. HeldInv'
  BY <1>1 DEF AliasInv, HeldInv, KeepsReference, Known, aliasVars
<1>5. OwnerInv'
  BY DEF AliasInv, OwnerInv, NothingWithdrawn, Known, cfgVars, aliasVars, appVars
<1>6. CrashInv'
  <2>1. OnlyChangesCrash'
    BY DEF AliasInv, CrashInv, OnlyChangesCrash, cfgVars, aliasVars
  <2>2. gAliasDoc # NoDoc => \E d \in Docs : Known(d)
    BY DEF AliasInv, AliasTypeOK, HeldInv
  <2> QED
    BY <1>1, <2>1, <2>2 DEF AliasInv, CrashInv, KeepsReference, Known, aliasVars
<1> QED
  BY <1>2, <1>3, <1>4, <1>5, <1>6, CountedByDocumentNext DEF AliasInv

(***************************************************************************)
(* The steps of a request that give a reference back or take one.          *)
(***************************************************************************)
LEMMA ReleaseEffect ==
  ASSUME NEW ds \in [Docs -> Document], NEW a \in Docs
  PROVE  /\ alias_release(ds, a) \in [Docs -> Document]
         /\ alias_release(ds, a)[a].ct = ds[a].ct - 1
         /\ alias_release(ds, a)[a].state = IF ds[a].ct <= 1 THEN "freed" ELSE ds[a].state
         /\ \A d \in Docs \ {a} : alias_release(ds, a)[d] = ds[d]
<1> DEFINE r == [ct |-> ds[a].ct - 1, state |-> IF ds[a].ct <= 1 THEN "freed" ELSE ds[a].state]
<1>1. alias_release(ds, a) = [ds EXCEPT ![a] = r]
  BY DEF alias_release, is_valid_alias, NoDoc, Docs
<1>2. r \in Document
  BY DEF Document
<1> QED
  BY <1>1, <1>2

\* What a request gave back is counted down, and freed with the last reference.
LEMMA RequestReleases ==
  ASSUME AliasInv, NEW c \in Conns, NEW k, Usable(conn[c].alias),
         conn' = [conn EXCEPT ![c] = k], DOMAIN k = DOMAIN NoConn, k.alias = NoDoc, k.pc = "close",
         docs' = alias_release(docs, conn[c].alias),
         UNCHANGED <<cfgVars, appVars, gAliasDoc, withdrawn, crashed>>
  PROVE  AliasInv'
<1> DEFINE a == conn[c].alias
<1>1. \A x \in Conns : conn'[x] = IF x = c THEN k ELSE conn[x]
  BY DEF AliasInv, AliasTypeOK
<1>2. a \in Docs \cup {NoDoc}
  BY DEF AliasInv, AliasTypeOK
<1>3. CASE a = NoDoc
  <2>1. KeepsReference(c, k)
    BY <1>3 DEF KeepsReference
  <2>2. docs' = docs
    BY <1>3 DEF alias_release, is_valid_alias
  <2> QED
    BY <2>1, <2>2, QuietRequest DEF aliasVars
<1>4. CASE a \in Docs
  <2>1. docs[a].state = "live" /\ docs \in [Docs -> Document]
    BY <1>4 DEF AliasInv, AliasTypeOK, Usable, Live, is_valid_alias, NoDoc, Docs
  <2>2. /\ docs' \in [Docs -> Document]
        /\ docs'[a].ct = docs[a].ct - 1
        /\ docs'[a].state = IF docs[a].ct <= 1 THEN "freed" ELSE "live"
        /\ \A d \in Docs \ {a} : docs'[d] = docs[d]
    BY <1>4, <2>1, ReleaseEffect
  <2>3. \A d \in Docs : Known(d)' <=> Known(d)
    BY <1>4, <2>1, <2>2 DEF Known
  <2>4. AliasTypeOK'
    BY <1>1, <2>2 DEF AliasInv, AliasTypeOK, appVars
  <2>5. ASSUME NEW d \in Docs PROVE Counted1(d)'
    <3>1. Counted1(d) /\ withdrawn[d] \in Nat /\ docs[d].ct \in Int
      BY CountedByDocument DEF AliasInv, AliasTypeOK, Document
    <3>2. k.alias # d
      BY DEF Docs, NoDoc
    <3>3. Cardinality(Holders(d)') = IF d = a THEN Cardinality(Holders(d)) - 1 ELSE Cardinality(Holders(d))
      BY <3>2, HoldersMove DEF AliasInv
    <3>4. Cardinality(Holders(d)) \in Nat
      BY HoldersFinite
    <3> QED
      BY <2>1, <2>2, <2>3, <3>1, <3>3, <3>4 DEF Counted1, Known
  <2>6. HeldInv'
    BY <1>1, <2>3, <2>4 DEF AliasInv, AliasTypeOK, HeldInv
  <2>7. OwnerInv'
    BY <2>3 DEF AliasInv, OwnerInv, NothingWithdrawn, cfgVars, appVars
  <2>8. CrashInv'
    BY <1>1, <2>2, <2>3 DEF AliasInv, CrashInv, OnlyChangesCrash, cfgVars, AliasTypeOK
  <2> QED
    BY <2>4, <2>5, <2>6, <2>7, <2>8, CountedByDocumentNext DEF AliasInv
<1> QED
  BY <1>2, <1>3, <1>4

\* alias_grab: one holder more, one reference more.
LEMMA GrabInv ==
  ASSUME AliasInv, NEW c \in Conns, alias_grab(c)
  PROVE  AliasInv'
<1> DEFINE g == gAliasDoc
<1>0. PICK k : k = [conn[c] EXCEPT !.pc = "look", !.alias = gAliasDoc,
                                  !.source = IF conn[c].req.path = AliasName THEN "alias" ELSE "file"]
  OBVIOUS
<1>1. g \in Docs /\ docs[g].state = "live" /\ conn' = [conn EXCEPT ![c] = k]
  BY <1>0 DEF AliasInv, AliasTypeOK, alias_grab, Published, is_valid_alias, Live, NoDoc, Moves
<1>2. DOMAIN k = DOMAIN NoConn /\ k.pc = "look" /\ k.alias = g
  BY <1>0 DEF AliasInv, AliasTypeOK, NoConn
<1>3. UNCHANGED <<cfgVars, appVars, gAliasDoc, withdrawn, crashed>> /\ docs' = [docs EXCEPT ![g].ct = @ + 1]
  BY DEF alias_grab, Quiet
<1>4. \A x \in Conns : conn'[x] = IF x = c THEN k ELSE conn[x]
  BY <1>1 DEF AliasInv, AliasTypeOK
<1>5. \A d \in Docs : /\ docs'[d].state = docs[d].state
                       /\ docs'[d].ct = IF d = g THEN docs[d].ct + 1 ELSE docs[d].ct
  BY <1>1, <1>3 DEF AliasInv, AliasTypeOK, Document
<1>6. docs' \in [Docs -> Document]
  BY <1>1, <1>3 DEF AliasInv, AliasTypeOK, Document
<1>7. AliasTypeOK'
  BY <1>1, <1>2, <1>3, <1>4, <1>6 DEF AliasInv, AliasTypeOK, appVars
<1>8. ASSUME NEW d \in Docs PROVE Counted1(d)'
  <2>1. Counted1(d) /\ withdrawn[d] \in Nat /\ docs[d].ct \in Int
    BY CountedByDocument DEF AliasInv, AliasTypeOK, Document
  <2>2. conn[c].alias = NoDoc /\ d # NoDoc
    BY DEF AliasInv, HeldInv, alias_grab, AtStart, Docs, NoDoc
  <2>3. Cardinality(Holders(d)) \in Nat
    BY HoldersFinite
  <2>4. Cardinality(Holders(d)') = IF d = g THEN Cardinality(Holders(d)) + 1 ELSE Cardinality(Holders(d))
    <3>1. AliasTypeOK /\ conn' = [conn EXCEPT ![c] = k]
      BY <1>1 DEF AliasInv
    <3>2. Cardinality(Holders(d)') =
            IF k.alias = d THEN IF conn[c].alias = d THEN Cardinality(Holders(d)) ELSE Cardinality(Holders(d)) + 1
            ELSE IF conn[c].alias = d THEN Cardinality(Holders(d)) - 1 ELSE Cardinality(Holders(d))
      BY <3>1, HoldersMove
    <3> QED
      BY <1>2, <2>2, <3>2
  <2> QED
    BY <1>1, <1>3, <1>5, <2>1, <2>3, <2>4 DEF Counted1, Known
<1>9. \A d \in Docs : Known(d)' <=> Known(d)
  BY <1>5 DEF Known
<1>10. HeldInv'
  <2>1. Known(g) /\ g # NoDoc
    BY <1>1 DEF Known, Docs, NoDoc
  <2> QED
    BY <1>2, <1>3, <1>4, <1>9, <2>1 DEF AliasInv, AliasTypeOK, HeldInv
<1>11. OwnerInv'
  BY <1>3, <1>9 DEF AliasInv, OwnerInv, NothingWithdrawn, cfgVars, appVars
<1>12. CrashInv'
  BY <1>2, <1>3, <1>4, <1>6, <1>9 DEF AliasInv, CrashInv, OnlyChangesCrash, cfgVars, AliasTypeOK
<1> QED
  BY <1>7, <1>8, <1>10, <1>11, <1>12, CountedByDocumentNext DEF AliasInv

(***************************************************************************)
(* The steps of the application, and what crashes.                         *)
(***************************************************************************)
\* The configuration changes, the server's copy may be forgotten, the documents stay.
LEMMA SettingStep ==
  ASSUME AliasInv, UNCHANGED <<docs, withdrawn, conn>>, gAliasDoc' \in {gAliasDoc, NoDoc},
         app' \in {"idle", "publish", "destroy"}, OwnerInv', OnlyChangesCrash'
  PROVE  AliasInv'
<1>1. AliasTypeOK'
  BY DEF AliasInv, AliasTypeOK
<1>2. ASSUME NEW d \in Docs PROVE Counted1(d)'
  BY CountedByDocument DEF AliasInv, Counted1, Known, Holders, HasReference
<1>3. HeldInv'
  BY DEF AliasInv, HeldInv, Known
<1>4. CrashInv'
  BY DEF AliasInv, CrashInv, Known
<1> QED
  BY <1>1, <1>2, <1>3, <1>4, CountedByDocumentNext DEF AliasInv

\* A document that is known and not live was given up.
LEMMA DeadIsWithdrawn ==
  ASSUME AliasInv, NEW d \in Docs, Known(d), ~Live(d)
  PROVE  withdrawn[d] > 0
<1>1. Counted1(d) /\ docs[d].ct \in Int /\ withdrawn[d] \in Nat
  BY CountedByDocument DEF AliasInv, AliasTypeOK, Document
<1>2. Cardinality(Holders(d)) \in Nat
  BY HoldersFinite
<1> QED
  BY <1>1, <1>2 DEF Counted1, Live

LEMMA FreshIsUnknown ==
  ASSUME AliasTypeOK
  PROVE  Fresh = {d \in Docs : ~Known(d)}
  BY DEF AliasTypeOK, Fresh, Known

\* The owner gives its reference up: web_server_set_alias, web_server_destroy.
LEMMA OwnerReleases ==
  ASSUME AliasInv, ReleaseGlobal, ~Dangling, ~crashed, UNCHANGED <<webServerEnabled, conn, crashed>>,
         app' \in {"idle", "publish", "destroy"}, webServerEnabled \/ app' = "idle", app' = "publish" => \E d \in Docs : ~Known(d)
  PROVE  AliasInv'
<1> DEFINE g == gAliasDoc
<1>1. g \in Docs \cup {NoDoc}
  BY DEF AliasInv, AliasTypeOK
<1>2. CASE g = NoDoc
  <2>1. docs' = docs /\ withdrawn' = withdrawn /\ gAliasDoc' = gAliasDoc
    BY <1>2 DEF ReleaseGlobal, alias_release, is_valid_alias
  <2>2. OwnerInv'
    BY <1>2, <2>1 DEF AliasInv, OwnerInv, NothingWithdrawn, Known
  <2>3. OnlyChangesCrash'
    BY DEF OnlyChangesCrash
  <2> QED
    BY <2>1, <2>2, <2>3, SettingStep
<1>3. CASE g \in Docs
  <2>1. docs[g].state = "live" /\ docs \in [Docs -> Document] /\ is_valid_alias(g)
    BY <1>3 DEF AliasInv, AliasTypeOK, Dangling, Usable, Live, is_valid_alias, NoDoc, Docs
  <2>2. /\ docs' \in [Docs -> Document]
        /\ docs'[g].ct = docs[g].ct - 1
        /\ docs'[g].state = IF docs[g].ct <= 1 THEN "freed" ELSE "live"
        /\ \A d \in Docs \ {g} : docs'[d] = docs[d]
    BY <1>3, <2>1, ReleaseEffect DEF ReleaseGlobal
  <2>3. \A d \in Docs : Known(d)' <=> Known(d)
    BY <1>3, <2>1, <2>2 DEF Known
  <2>4. withdrawn' = [withdrawn EXCEPT ![g] = @ + 1] /\ gAliasDoc' \in {g, NoDoc}
    BY <2>1 DEF ReleaseGlobal
  <2>5. AliasTypeOK'
    BY <1>3, <2>2, <2>4 DEF AliasInv, AliasTypeOK
  <2>6. ASSUME NEW d \in Docs PROVE Counted1(d)'
    <3>1. Counted1(d) /\ withdrawn[d] \in Nat /\ docs[d].ct \in Int
      BY CountedByDocument DEF AliasInv, AliasTypeOK, Document
    <3>2. Holders(d)' = Holders(d)
      BY DEF Holders, HasReference
    <3>3. Cardinality(Holders(d)) \in Nat
      BY HoldersFinite
    <3>4. withdrawn'[d] = IF d = g THEN withdrawn[d] + 1 ELSE withdrawn[d]
      BY <2>4 DEF AliasInv, AliasTypeOK
    <3> QED
      BY <2>1, <2>2, <2>3, <3>1, <3>2, <3>3, <3>4 DEF Counted1, Known
  <2>7. HeldInv'
    BY <1>3, <2>1, <2>3, <2>4 DEF AliasInv, AliasTypeOK, HeldInv, Known
  <2>8. withdrawn'[g] > 0
    BY <1>3, <2>4 DEF AliasInv, AliasTypeOK
  <2>9. OwnerInv'
    <3>1. ~NothingWithdrawn'
      BY <1>3, <2>8 DEF NothingWithdrawn
    <3>2. webServerEnabled
      BY <1>3 DEF AliasInv, OwnerInv, NoDoc, Docs
    <3> QED
      BY <2>3, <3>1, <3>2 DEF OwnerInv
  <2>10. CrashInv'
    BY <2>3 DEF AliasInv, CrashInv, OnlyChangesCrash
  <2> QED
    BY <2>5, <2>6, <2>7, <2>9, <2>10, CountedByDocumentNext DEF AliasInv
<1> QED
  BY <1>1, <1>2, <1>3

\* A new document takes the place of the old one.
LEMMA PublishInv ==
  ASSUME AliasInv, PublishAlias, ~crashed
  PROVE  AliasInv'
<1>1. PICK d \in Docs : /\ ~Known(d)
                        /\ docs' = [docs EXCEPT ![d] = [ct |-> 1, state |-> "live"]]
                        /\ gAliasDoc' = d
  <2>1. Fresh # {} /\ Fresh = {d \in Docs : ~Known(d)}
    BY FreshIsUnknown DEF AliasInv, OwnerInv, PublishAlias
  <2> QED
    BY <2>1 DEF PublishAlias
<1>2. app = "publish" /\ app' = "idle" /\ UNCHANGED <<cfgVars, withdrawn, conn, crashed>>
  BY DEF PublishAlias
<1>3. AliasTypeOK'
  BY <1>1, <1>2 DEF AliasInv, AliasTypeOK, Document
<1>4. /\ \A e \in Docs : Known(e)' <=> (Known(e) \/ e = d)
      /\ \A e \in Docs \ {d} : docs'[e] = docs[e]
      /\ docs'[d] = [ct |-> 1, state |-> "live"]
  BY <1>1 DEF AliasInv, AliasTypeOK, Known
<1>5. ASSUME NEW e \in Docs PROVE Counted1(e)'
  <2>1. Counted1(e) /\ Holders(e)' = Holders(e)
    BY <1>2, CountedByDocument DEF AliasInv, Holders, HasReference
  <2>2. CASE e # d
    BY <1>2, <1>4, <2>1, <2>2 DEF Counted1
  <2>3. CASE e = d
    <3>1. Holders(e) = {}
      BY <1>1, <2>3 DEF AliasInv, HeldInv, Holders, HasReference, Docs, NoDoc
    <3>2. withdrawn[e] = 0
      BY <1>1, <2>3 DEF AliasInv, AliasTypeOK, HeldInv
    <3> QED
      BY <1>2, <1>4, <2>1, <2>3, <3>1, <3>2, FS_EmptySet DEF Counted1
  <2> QED
    BY <2>2, <2>3
<1>6. HeldInv'
  BY <1>1, <1>2, <1>4 DEF AliasInv, AliasTypeOK, HeldInv
<1>7. OwnerInv'
  BY <1>1, <1>2, <1>4 DEF AliasInv, OwnerInv, NothingWithdrawn, cfgVars, Docs, NoDoc
<1>8. CrashInv'
  BY <1>2, <1>4 DEF AliasInv, CrashInv, OnlyChangesCrash
<1> QED
  BY <1>3, <1>5, <1>6, <1>7, <1>8, CountedByDocumentNext DEF AliasInv

\* Whatever fails, the documents are as they were; it was the change of one.
LEMMA CrashKeepsInv ==
  ASSUME AliasInv, Crash, OnlyChangesCrash'
  PROVE  AliasInv'
<1>1. UNCHANGED <<docs, withdrawn, conn, gAliasDoc, app, webServerEnabled>>
  BY DEF Crash, cfgVars, aliasVars, appVars
<1>2. app \in {"idle", "publish", "destroy"} /\ OwnerInv'
  BY <1>1 DEF AliasInv, AliasTypeOK, OwnerInv, NothingWithdrawn, Known
<1> QED
  BY <1>1, <1>2, SettingStep

LEMMA RequestCrashesInv ==
  ASSUME AliasInv, NEW c \in Conns, RequestCrashes(c)
  PROVE  AliasInv'
<1> DEFINE a == conn[c].alias
<1>1. Crash /\ UNCHANGED <<docs, withdrawn, pVirtualDirList>>
  BY DEF RequestCrashes, Crash, cfgVars, aliasVars
<1>2. a \in Docs \cup {NoDoc} /\ gAliasDoc \in Docs \cup {NoDoc}
  BY DEF AliasInv, AliasTypeOK
<1>3. (\E d \in Docs : withdrawn[d] > 0) \/ pVirtualDirList.freed
  <2>1. CASE AtStart(c, "grab") /\ ~Published
    <3>1. PICK d \in Docs : Known(d)
      BY <2>1 DEF AliasInv, CrashInv, AtStart
    <3>2. CASE NothingWithdrawn
      <4>1. Known(d) /\ ~Live(d)
        BY <2>1, <3>1, <3>2 DEF AliasInv, OwnerInv, Published, is_valid_alias, Docs, NoDoc
      <4> QED
        BY <4>1, DeadIsWithdrawn
    <3>3. CASE ~NothingWithdrawn
      BY <3>3 DEF NothingWithdrawn, AliasInv, AliasTypeOK
    <3> QED
      BY <3>2, <3>3
  <2>2. CASE conn[c].pc \in {"doc", "release"} /\ ~Live(a)
    <3>1. a \in Docs /\ Known(a)
      BY <1>2, <2>2 DEF AliasInv, HeldInv
    <3> QED
      BY <2>2, <3>1, DeadIsWithdrawn
  <2>3. CASE ~Usable(a)
    <3>1. a \in Docs /\ Known(a) /\ ~Live(a)
      BY <1>2, <2>3 DEF AliasInv, HeldInv, Usable, is_valid_alias
    <3> QED
      BY <3>1, DeadIsWithdrawn
  <2>4. CASE pVirtualDirList.freed
    BY <2>4
  <2> QED
    BY <2>1, <2>2, <2>3, <2>4 DEF RequestCrashes
<1>4. OnlyChangesCrash'
  BY <1>1, <1>3 DEF OnlyChangesCrash, AliasInv, AliasTypeOK
<1> QED
  BY <1>1, <1>4, CrashKeepsInv

LEMMA ReleaseOfFreedInv ==
  ASSUME AliasInv, ReleaseOfFreed
  PROVE  AliasInv'
<1>1. Crash /\ UNCHANGED <<docs, withdrawn>>
  BY DEF ReleaseOfFreed, Crash, aliasVars
<1>2. gAliasDoc \in Docs /\ Known(gAliasDoc) /\ ~Live(gAliasDoc)
  BY DEF AliasInv, AliasTypeOK, HeldInv, ReleaseOfFreed, Dangling, Usable, is_valid_alias
<1>3. OnlyChangesCrash'
  BY <1>1, <1>2, DeadIsWithdrawn DEF OnlyChangesCrash, AliasInv, AliasTypeOK
<1> QED
  BY <1>1, <1>3, CrashKeepsInv

(***************************************************************************)
(* Every step.                                                             *)
(***************************************************************************)
\* A step of a request that does not touch the alias sets some fields of its connection,
\* its place among those that say nothing of a reference.
LEMMA StepElsewhere ==
  ASSUME AliasInv, NEW c \in Conns, NEW k, conn' = [conn EXCEPT ![c] = k],
         UNCHANGED <<cfgVars, aliasVars, appVars, crashed>>,
         DOMAIN k = DOMAIN NoConn, k.alias = conn[c].alias,
         k.pc \notin {"idle", "receive", "web", "grab", "look", "head", "doc", "release"}
  PROVE  AliasInv'
<1>1. KeepsReference(c, k)
  BY DEF KeepsReference
<1> QED
  BY <1>1, QuietRequest

\* What the look-up of a document comes to, with the source it is looked up in.
FileFor(req, source, garbage) ==
  CASE source = "alias" -> [code |-> 200, length |-> AliasLength, path |-> "none"]
    [] source = "virtual" /\ req.method # "POST" -> Lookup(VirtualFiles, req.path)
    [] source = "file" /\ ~gDocumentRootDir -> [code |-> 500]
    [] source = "file" /\ gDocumentRootDir /\ req.method # "POST" -> Lookup(Files, req.path)
    [] OTHER -> [code |-> 200, length |-> garbage, path |-> req.path]

LEMMA PreparedPlaces ==
  ASSUME NEW req, NEW source, NEW garbage, Prepared(req, source, garbage).code = 200
  PROVE  Prepared(req, source, garbage).pc \in {"post", "head"}
<1> DEFINE f == FileFor(req, source, garbage)
           virtual == source = "virtual"
           ch == CheckOtherHTTPHeaders(req, virtual, f.length)
           unknown == virtual /\ f.length = UPNP_USING_CHUNKED
           final == IF unknown THEN [ch EXCEPT !.instr.chunk = TRUE] ELSE ch
           head == IF req.method = "SIMPLEGET" THEN NoHead ELSE HeadFor(req, final, f.length)
<1>1. Prepared(req, source, garbage) =
        CASE f.code # 200 -> f
          [] f.code = 200 /\ ch.code # 200 -> [code |-> ch.code]
          [] f.code = 200 /\ ch.code = 200 /\ req.method = "POST" ->
               [code |-> 200, pc |-> "post", instr |-> NoInstr, head |-> NoHead, path |-> f.path]
          [] f.code = 200 /\ ch.code = 200 /\ req.method # "POST" /\ unknown /\ req.old -> [code |-> 406]
          [] OTHER -> [code |-> 200, pc |-> "head", instr |-> final.instr, path |-> f.path, head |-> head]
  BY ZenonT(30) DEF Prepared, FileFor
<1> HIDE DEF f, ch, unknown, final, head
<1> QED
  BY <1>1

\* What an answer leaves of a connection.
LEMMA AnsweredKeeps ==
  ASSUME NEW k, NEW head, NEW ok, DOMAIN k = DOMAIN NoConn
  PROVE  LET a == Answered(k, head, ok)
         IN /\ DOMAIN a = DOMAIN NoConn
            /\ a.alias = k.alias /\ a.source = k.source /\ a.pc = k.pc
  BY DEF Answered, NoConn

\* A request that is answered and closed keeps the reference it may have.
Closes(c, head, ok) == conn' = [conn EXCEPT ![c] = [Answered(conn[c], head, ok) EXCEPT !.pc = "close"]]

LEMMA AnswerCloses ==
  ASSUME AliasInv, NEW c \in Conns, NEW head, NEW ok, Closes(c, head, ok),
         UNCHANGED <<cfgVars, aliasVars, appVars, crashed>>
  PROVE  AliasInv'
<1>1. PICK n : n = [Answered(conn[c], head, ok) EXCEPT !.pc = "close"]
  OBVIOUS
<1>2. DOMAIN conn[c] = DOMAIN NoConn
  BY DEF AliasInv, AliasTypeOK
<1>3. DOMAIN n = DOMAIN NoConn /\ n.alias = conn[c].alias /\ n.pc = "close"
  BY <1>1, <1>2, AnsweredKeeps DEF NoConn
<1> QED
  BY <1>1, <1>3, StepElsewhere DEF Closes

\* process_request chooses the source: it takes no reference yet.
LEMMA WebChoosesSourceInv ==
  ASSUME AliasInv, NEW c \in Conns, WebChoosesSource(c)
  PROVE  AliasInv'
<1> DEFINE k == conn[c]
<1>1. UNCHANGED <<cfgVars, aliasVars, appVars, crashed>>
  BY DEF WebChoosesSource, Quiet
<1>2. DOMAIN k = DOMAIN NoConn /\ k.alias = NoDoc
  BY DEF WebChoosesSource, AtStart, AliasInv, AliasTypeOK, HeldInv
<1>3. CASE k.req.url \in {"escapes", "relative"}
  <2>1. \E code \in {403, 400}, ok \in BOOLEAN : Closes(c, StatusHead(code), ok)
    BY <1>3 DEF WebChoosesSource, Moves, Closes
  <2> QED
    BY <1>1, <2>1, AnswerCloses
<1>4. CASE k.req.url \notin {"escapes", "relative"}
  <2>1. PICK n : /\ conn' = [conn EXCEPT ![c] = n]
                 /\ \/ n = [k EXCEPT !.pc = "look", !.source = "virtual"]
                    \/ n = [k EXCEPT !.pc = "grab"] /\ gAliasDoc # NoDoc
                    \/ n = [k EXCEPT !.pc = "look", !.source = "file"]
    BY <1>4 DEF WebChoosesSource, Moves, is_valid_alias
  <2>2. KeepsReference(c, n)
    BY <1>2, <2>1 DEF KeepsReference, NoConn
  <2> QED
    BY <1>1, <2>2, QuietRequest
<1> QED
  BY <1>3, <1>4

LEMMA WebPreparesInv ==
  ASSUME AliasInv, NEW c \in Conns, WebPrepares(c)
  PROVE  AliasInv'
<1> DEFINE k == conn[c]
<1>1. /\ UNCHANGED <<cfgVars, appVars, gAliasDoc, withdrawn, crashed>>
      /\ k.pc = "look" /\ DOMAIN k = DOMAIN NoConn
  BY DEF WebPrepares, Quiet, AtStart, AliasInv, AliasTypeOK
<1>2. PICK garbage \in {-1, AliasLength}, ok \in BOOLEAN :
        LET p == Prepared(k.req, k.source, garbage)
        IN IF p.code # 200
           THEN /\ Usable(k.alias)
                /\ docs' = alias_release(docs, k.alias)
                /\ Moves(c, [Answered(k, StatusHead(p.code), ok) EXCEPT !.pc = "close", !.alias = NoDoc])
           ELSE /\ ok
                /\ docs' = docs
                /\ Moves(c, [k EXCEPT !.pc = p.pc, !.instr = p.instr, !.path = p.path, !.head = p.head,
                                      !.left = IF p.instr.size >= 0 THEN p.instr.size
                                               ELSE WEB_SERVER_BUF_SIZE])
  BY DEF WebPrepares
<1> DEFINE p == Prepared(k.req, k.source, garbage)
<1>3. CASE p.code # 200
  <2>1. PICK n : n = [Answered(k, StatusHead(p.code), ok) EXCEPT !.pc = "close", !.alias = NoDoc]
    OBVIOUS
  <2>2. conn' = [conn EXCEPT ![c] = n] /\ DOMAIN n = DOMAIN NoConn /\ n.alias = NoDoc /\ n.pc = "close"
    BY <1>1, <1>2, <1>3, <2>1, AnsweredKeeps, SMTT(30) DEF Moves, NoConn
  <2> QED
    BY <1>1, <1>2, <1>3, <2>2, RequestReleases
<1>4. CASE p.code = 200
  <2>1. p.pc \in {"post", "head"}
    BY <1>4, PreparedPlaces
  <2>2. PICK n : n = [k EXCEPT !.pc = p.pc, !.instr = p.instr, !.path = p.path, !.head = p.head,
                               !.left = IF p.instr.size >= 0 THEN p.instr.size ELSE WEB_SERVER_BUF_SIZE]
    OBVIOUS
  <2>3. /\ conn' = [conn EXCEPT ![c] = n] /\ DOMAIN n = DOMAIN NoConn
        /\ n.alias = k.alias /\ n.source = k.source /\ n.pc = p.pc
    BY <1>1, <1>2, <1>4, <2>2 DEF Moves, NoConn
  <2>4. KeepsReference(c, n)
    BY <1>1, <2>1, <2>3 DEF KeepsReference, AliasInv, HeldInv
  <2>5. UNCHANGED <<cfgVars, aliasVars, appVars, crashed>>
    BY <1>1, <1>2, <1>4 DEF aliasVars
  <2> QED
    BY <2>4, <2>5, QuietRequest
<1> QED
  BY <1>3, <1>4

LEMMA WebSendsHeadInv ==
  ASSUME AliasInv, NEW c \in Conns, WebSendsHead(c)
  PROVE  AliasInv'
<1> DEFINE k == conn[c]
<1>1. /\ UNCHANGED <<cfgVars, aliasVars, appVars, crashed>>
      /\ k.pc = "head" /\ DOMAIN k = DOMAIN NoConn
  BY DEF WebSendsHead, Quiet, AtStart, AliasInv, AliasTypeOK
<1>2. PICK ok, pc : /\ conn' = [conn EXCEPT ![c] = [Answered(k, k.head, ok) EXCEPT !.pc = pc]]
                    /\ pc \in {"close", "file"} \/ (pc \in {"doc", "release"} /\ k.source = "alias")
  BY DEF WebSendsHead, Moves
<1>3. PICK n : n = [Answered(k, k.head, ok) EXCEPT !.pc = pc]
  OBVIOUS
<1>4. DOMAIN n = DOMAIN NoConn /\ n.alias = k.alias /\ n.source = k.source /\ n.pc = pc
  BY <1>1, <1>3, AnsweredKeeps DEF NoConn
<1>5. KeepsReference(c, n)
  BY <1>1, <1>2, <1>3, <1>4 DEF KeepsReference, AliasInv, HeldInv
<1> QED
  BY <1>1, <1>5, QuietRequest

LEMMA WebSendsAliasInv ==
  ASSUME AliasInv, NEW c \in Conns, WebSendsAlias(c)
  PROVE  AliasInv'
<1> DEFINE k == conn[c]
<1>1. /\ UNCHANGED <<cfgVars, aliasVars, appVars, crashed>>
      /\ k.pc = "doc" /\ DOMAIN k = DOMAIN NoConn
  BY DEF WebSendsAlias, Quiet, AtStart, AliasInv, AliasTypeOK
<1>2. PICK ok \in BOOLEAN :
        conn' = [conn EXCEPT ![c] = [k EXCEPT !.pc = "release", !.body = IF ok THEN AliasLength ELSE @, !.cut = ~ok]]
  BY DEF WebSendsAlias, Moves
<1>3. PICK n : n = [k EXCEPT !.pc = "release", !.body = IF ok THEN AliasLength ELSE @, !.cut = ~ok]
  OBVIOUS
<1>4. DOMAIN n = DOMAIN NoConn /\ n.alias = k.alias /\ n.source = k.source /\ n.pc = "release"
  BY <1>1, <1>3 DEF NoConn
<1>5. KeepsReference(c, n)
  BY <1>1, <1>2, <1>3, <1>4 DEF KeepsReference, AliasInv, HeldInv
<1> QED
  BY <1>1, <1>5, QuietRequest

LEMMA WebReleasesAliasInv ==
  ASSUME AliasInv, NEW c \in Conns, WebReleasesAlias(c)
  PROVE  AliasInv'
<1>1. /\ UNCHANGED <<cfgVars, appVars, gAliasDoc, withdrawn, crashed>> /\ Usable(conn[c].alias)
      /\ docs' = alias_release(docs, conn[c].alias) /\ DOMAIN conn[c] = DOMAIN NoConn
  BY DEF WebReleasesAlias, Quiet, Usable, AliasInv, AliasTypeOK
<1>2. PICK n : n = [conn[c] EXCEPT !.pc = "close", !.alias = NoDoc]
  OBVIOUS
<1>3. conn' = [conn EXCEPT ![c] = n] /\ DOMAIN n = DOMAIN NoConn /\ n.alias = NoDoc /\ n.pc = "close"
  BY <1>1, <1>2 DEF WebReleasesAlias, Moves, NoConn
<1> QED
  BY <1>1, <1>3, RequestReleases

LEMMA WebSendsPieceInv ==
  ASSUME AliasInv, NEW c \in Conns, WebSendsPiece(c)
  PROVE  AliasInv'
<1> DEFINE k == conn[c]
<1>1. /\ UNCHANGED <<cfgVars, aliasVars, appVars, crashed>>
      /\ k.pc = "file" /\ DOMAIN k = DOMAIN NoConn
  BY DEF WebSendsPiece, Quiet, AtStart, AliasInv, AliasTypeOK
<1>2. CASE k.left = 0
  <2>1. PICK n : n = [k EXCEPT !.pc = "close"]
    OBVIOUS
  <2>2. conn' = [conn EXCEPT ![c] = n]
    BY <1>2, <2>1 DEF WebSendsPiece, Moves
  <2>3. DOMAIN n = DOMAIN NoConn /\ n.alias = k.alias /\ n.pc = "close"
    BY <1>1, <2>1 DEF NoConn
  <2> QED
    BY <1>1, <2>2, <2>3, StepElsewhere
<1>3. CASE k.left # 0
  <2> DEFINE i == k.instr
             buf == IF i.size >= 0 THEN Least(i.size, WEB_SERVER_BUF_SIZE) ELSE WEB_SERVER_BUF_SIZE
  <2>1. PICK m, ok :
          \/ Moves(c, [k EXCEPT !.pc = "close", !.lastChunk = i.chunk /\ ok, !.cut = ~(i.chunk /\ ok)])
          \/ Moves(c, [k EXCEPT !.body = @ + m, !.left = IF i.size < 0 THEN buf ELSE k.left - m])
          \/ Moves(c, [k EXCEPT !.pc = "close", !.cut = TRUE])
    BY <1>3 DEF WebSendsPiece
  <2>2. PICK last : last = [k EXCEPT !.pc = "close", !.lastChunk = i.chunk /\ ok, !.cut = ~(i.chunk /\ ok)]
    OBVIOUS
  <2>3. PICK more : more = [k EXCEPT !.body = @ + m, !.left = IF i.size < 0 THEN buf ELSE k.left - m]
    OBVIOUS
  <2>4. PICK cut : cut = [k EXCEPT !.pc = "close", !.cut = TRUE]
    OBVIOUS
  <2>5. PICK n \in {last, more, cut} : conn' = [conn EXCEPT ![c] = n]
    BY <2>1, <2>2, <2>3, <2>4 DEF Moves
  <2>6. DOMAIN n = DOMAIN NoConn /\ n.alias = k.alias /\ n.pc \in {"file", "close"}
    BY <1>1, <2>2, <2>3, <2>4 DEF NoConn
  <2> QED
    BY <1>1, <2>5, <2>6, StepElsewhere
<1> QED
  BY <1>2, <1>3

LEMMA WebReceivesPostInv ==
  ASSUME AliasInv, NEW c \in Conns, WebReceivesPost(c)
  PROVE  AliasInv'
<1>1. UNCHANGED <<cfgVars, aliasVars, appVars, crashed>>
  BY DEF WebReceivesPost, Quiet
<1>2. \E head : \E ok \in BOOLEAN : Closes(c, head, ok)
  BY DEF WebReceivesPost, Moves, Closes
<1> QED
  BY <1>1, <1>2, AnswerCloses

LEMMA WebStepInv ==
  ASSUME AliasInv, NEW c \in Conns, WebStep(c)
  PROVE  AliasInv'
  BY WebChoosesSourceInv, GrabInv, WebPreparesInv, WebSendsHeadInv, WebSendsAliasInv, WebReleasesAliasInv,
     WebSendsPieceInv, WebReceivesPostInv DEF WebStep

\* soap_device_callback does not know the alias.
LEMMA SoapAnswerCloses ==
  ASSUME AliasInv, NEW c \in Conns, NEW answer, Answers(c, answer), UNCHANGED SoapVars
  PROVE  AliasInv'
<1>1. PICK ok \in BOOLEAN :
        conn' = [conn EXCEPT ![c] = [Answered(conn[c], SoapHead(answer), ok) EXCEPT !.pc = "close", !.error = answer.error]]
  BY DEF Answers, Moves
<1>2. PICK n : n = [Answered(conn[c], SoapHead(answer), ok) EXCEPT !.pc = "close", !.error = answer.error]
  OBVIOUS
<1>3. DOMAIN conn[c] = DOMAIN NoConn
  BY DEF AliasInv, AliasTypeOK
<1>4. DOMAIN n = DOMAIN NoConn /\ n.alias = conn[c].alias /\ n.pc = "close"
  BY <1>2, <1>3, AnsweredKeeps DEF NoConn
<1> QED
  BY <1>1, <1>2, <1>4, StepElsewhere DEF SoapVars

LEMMA SoapStepInv ==
  ASSUME AliasInv, NEW c \in Conns, SoapStep(c)
  PROVE  AliasInv'
<1> DEFINE k == conn[c]
<1>1. UNCHANGED SoapVars /\ DOMAIN k = DOMAIN NoConn
  BY DEF SoapStep, SoapFinds, SoapCallback, SoapAnswers, AliasInv, AliasTypeOK
<1>2. CASE SoapFinds(c)
  <2>1. \/ \E answer : Answers(c, answer)
        \/ \E type : conn' = [conn EXCEPT ![c] = [k EXCEPT !.pc = "soapCall", !.source = type]]
    BY <1>2 DEF SoapFinds, Moves
  <2>2. ASSUME NEW type, conn' = [conn EXCEPT ![c] = [k EXCEPT !.pc = "soapCall", !.source = type]]
        PROVE  AliasInv'
    <3>1. PICK n : n = [k EXCEPT !.pc = "soapCall", !.source = type]
      OBVIOUS
    <3>2. DOMAIN n = DOMAIN NoConn /\ n.alias = k.alias /\ n.pc = "soapCall"
      BY <1>1, <3>1 DEF NoConn
    <3> QED
      BY <1>1, <2>2, <3>1, <3>2, StepElsewhere DEF SoapVars
  <2> QED
    BY <1>1, <2>1, <2>2, SoapAnswerCloses
<1>3. CASE SoapCallback(c)
  <2>1. PICK v : conn' = [conn EXCEPT ![c] = [k EXCEPT !.pc = "soapAnswer", !.asked = @ + 1, !.verdict = v]]
    BY <1>3 DEF SoapCallback, Moves
  <2>2. PICK n : n = [k EXCEPT !.pc = "soapAnswer", !.asked = @ + 1, !.verdict = v]
    OBVIOUS
  <2>3. DOMAIN n = DOMAIN NoConn /\ n.alias = k.alias /\ n.pc = "soapAnswer"
    BY <1>1, <2>2 DEF NoConn
  <2> QED
    BY <1>1, <2>1, <2>2, <2>3, StepElsewhere DEF SoapVars
<1>4. CASE SoapAnswers(c)
  <2>1. \E answer : Answers(c, answer)
    BY <1>4 DEF SoapAnswers
  <2> QED
    BY <1>1, <2>1, SoapAnswerCloses
<1> QED
  BY <1>2, <1>3, <1>4 DEF SoapStep

\* A connection is accepted; nothing is referred to yet.
LEMMA AcceptInv ==
  ASSUME AliasInv, NEW c \in Conns, web_server_accept(c)
  PROVE  AliasInv'
<1>1. PICK n : n = [conn[c] EXCEPT !.pc = "receive"]
  OBVIOUS
<1>2. conn' = [conn EXCEPT ![c] = n]
  BY <1>1 DEF web_server_accept, Moves
<1>3. DOMAIN conn[c] = DOMAIN NoConn /\ conn[c].alias = NoDoc
  BY DEF web_server_accept, AtStart, AliasInv, AliasTypeOK, HeldInv
<1>4. DOMAIN n = DOMAIN NoConn /\ n.alias = NoDoc /\ n.pc = "receive"
  BY <1>1, <1>3 DEF NoConn
<1>5. KeepsReference(c, n)
  BY <1>2, <1>3, <1>4 DEF KeepsReference
<1>6. UNCHANGED <<cfgVars, aliasVars, appVars, crashed>>
  BY DEF web_server_accept, SoapVars
<1> QED
  BY <1>5, <1>6, QuietRequest

LEMMA DispatchedPlaces ==
  ASSUME NEW method
  PROVE  dispatch_request(method) \in {"soap", "gena", "web", "none"}
  BY DEF dispatch_request

\* A request that is received: the connection k with it goes on, or is refused and closed.
LEMMA ReceivedInv ==
  ASSUME AliasInv, NEW c \in Conns, AtStart(c, "receive"), UNCHANGED SoapVars,
         NEW n, conn' = [conn EXCEPT ![c] = n],
         DOMAIN n = DOMAIN NoConn, n.alias = NoDoc, n.pc \in {"soap", "gena", "web", "none", "close"}
  PROVE  AliasInv'
<1>1. /\ UNCHANGED <<cfgVars, aliasVars, appVars, crashed>>
      /\ conn[c].alias = NoDoc
  BY DEF SoapVars, AtStart, AliasInv, HeldInv
<1>2. KeepsReference(c, n)
  BY <1>1 DEF KeepsReference
<1> QED
  BY <1>1, <1>2, QuietRequest

LEMMA RefusedInv ==
  ASSUME AliasInv, NEW c \in Conns, AtStart(c, "receive"), UNCHANGED SoapVars,
         NEW k, DOMAIN k = DOMAIN NoConn, k.alias = NoDoc, NEW code, Refused(c, k, code)
  PROVE  AliasInv'
<1>1. PICK ok \in BOOLEAN : conn' = [conn EXCEPT ![c] = [Answered(k, StatusHead(code), ok) EXCEPT !.pc = "close"]]
  BY DEF Refused, Moves
<1>2. PICK n : n = [Answered(k, StatusHead(code), ok) EXCEPT !.pc = "close"]
  OBVIOUS
<1>3. DOMAIN n = DOMAIN NoConn /\ n.alias = NoDoc /\ n.pc = "close"
  BY <1>2, AnsweredKeeps DEF NoConn
<1> QED
  BY <1>1, <1>2, <1>3, ReceivedInv

LEMMA ReceiveFailsInv ==
  ASSUME AliasInv, NEW c \in Conns, ReceiveFails(c)
  PROVE  AliasInv'
<1>1. DOMAIN conn[c] = DOMAIN NoConn /\ conn[c].alias = NoDoc
  BY DEF ReceiveFails, AtStart, AliasInv, AliasTypeOK, HeldInv
<1> QED
  BY <1>1, RefusedInv DEF ReceiveFails

LEMMA HandleRequestInv ==
  ASSUME AliasInv, NEW c \in Conns, handle_request(c)
  PROVE  AliasInv'
<1>1. AtStart(c, "receive") /\ UNCHANGED SoapVars
  BY DEF handle_request
<1>2. PICK q : Handles(c, [conn[c] EXCEPT !.req = q])
  BY DEF handle_request
<1>3. PICK k : k = [conn[c] EXCEPT !.req = q]
  OBVIOUS
<1>4. DOMAIN conn[c] = DOMAIN NoConn /\ conn[c].alias = NoDoc
  BY <1>1 DEF AtStart, AliasInv, AliasTypeOK, HeldInv
<1>5. DOMAIN k = DOMAIN NoConn /\ k.alias = NoDoc
  BY <1>3, <1>4 DEF NoConn
<1>6. Handles(c, k)
  BY <1>2, <1>3
<1>7. PICK to : to = dispatch_request(k.req.method)
  OBVIOUS
<1>8. (\E code : Refused(c, k, code)) \/ Moves(c, [k EXCEPT !.pc = to])
  BY <1>6, <1>7 DEF Handles
<1>9. CASE Moves(c, [k EXCEPT !.pc = to])
  <2>1. PICK n : n = [k EXCEPT !.pc = to]
    OBVIOUS
  <2>2. to \in {"soap", "gena", "web", "none"}
    BY <1>7, DispatchedPlaces
  <2>3. DOMAIN n = DOMAIN NoConn /\ n.alias = NoDoc /\ n.pc = to
    BY <1>5, <2>1 DEF NoConn
  <2>4. conn' = [conn EXCEPT ![c] = n]
    BY <1>9, <2>1 DEF Moves
  <2> QED
    BY <1>1, <2>2, <2>3, <2>4, ReceivedInv
<1> QED
  BY <1>1, <1>5, <1>8, <1>9, RefusedInv

LEMMA GenaInv ==
  ASSUME AliasInv, NEW c \in Conns, genaCallback(c)
  PROVE  AliasInv'
<1>1. UNCHANGED <<cfgVars, aliasVars, appVars, crashed>>
  BY DEF genaCallback, SoapVars
<1>2. \E head : \E ok \in BOOLEAN : Closes(c, head, ok)
  BY DEF genaCallback, Moves, Closes
<1> QED
  BY <1>1, <1>2, AnswerCloses

\* The request goes, its reference stays where it was.
LEMMA SockDestroyInv ==
  ASSUME AliasInv, NEW c \in Conns, sock_destroy(c)
  PROVE  AliasInv'
<1>1. UNCHANGED <<cfgVars, aliasVars, appVars, crashed>>
  BY DEF sock_destroy, SoapVars
<1>2. PICK n : n = [NoConn EXCEPT !.pc = "done", !.alias = conn[c].alias]
  OBVIOUS
<1>3. conn' = [conn EXCEPT ![c] = n]
  BY <1>2 DEF sock_destroy, Moves
<1>4. DOMAIN n = DOMAIN NoConn /\ n.alias = conn[c].alias /\ n.pc = "done"
  BY <1>2 DEF NoConn
<1> QED
  BY <1>1, <1>3, <1>4, StepElsewhere

LEMMA ConnActsInv ==
  ASSUME AliasInv, NEW c \in Conns, ConnActs(c)
  PROVE  AliasInv'
  BY ReceiveFailsInv, HandleRequestInv, GenaInv, SockDestroyInv, SoapStepInv, WebStepInv, RequestCrashesInv DEF ConnActs

\* The application registers its device, or unregisters it.
LEMMA RegistersInv ==
  ASSUME AliasInv, Registers
  PROVE  AliasInv'
<1>1. ~crashed
  BY DEF Registers
<1>2. CASE RegistrationBegins
  <2>1. /\ ReleaseGlobal /\ ~Dangling /\ webServerEnabled /\ app' = "publish"
        /\ UNCHANGED <<webServerEnabled, conn, crashed>>
    BY <1>2 DEF RegistrationBegins, web_server_set_alias, cfgVars
  <2>2. \E d \in Docs : ~Known(d)
    BY <1>2, FreshIsUnknown DEF RegistrationBegins, web_server_set_alias, AliasInv
  <2> QED
    BY <1>1, <2>1, <2>2, OwnerReleases
<1>3. CASE RegistrationEnds
  BY <1>1, <1>3, PublishInv DEF RegistrationEnds
<1>4. CASE Unregisters
  <2>1. /\ ReleaseGlobal /\ ~Dangling /\ app' = "idle"
        /\ UNCHANGED <<webServerEnabled, conn, crashed>>
    BY <1>4 DEF Unregisters, WithdrawAlias, AppCall, cfgVars
  <2> QED
    BY <1>1, <2>1, OwnerReleases
<1> QED
  BY <1>2, <1>3, <1>4 DEF Registers

\* The application configures the server.
LEMMA VirtualDirsInv ==
  ASSUME AliasInv, NEW list, SetVirtualDirs(list), ~crashed
  PROVE  AliasInv'
<1>1. UNCHANGED <<docs, withdrawn, conn, gAliasDoc, app, webServerEnabled, crashed>>
  BY DEF SetVirtualDirs, aliasVars
<1>2. app \in {"idle", "publish", "destroy"} /\ OwnerInv' /\ OnlyChangesCrash'
  BY <1>1 DEF AliasInv, AliasTypeOK, OwnerInv, NothingWithdrawn, Known, OnlyChangesCrash
<1> QED
  BY <1>1, <1>2, SettingStep

LEMMA AppStepInv ==
  ASSUME AliasInv, AppStep
  PROVE  AliasInv'
<1>1. ~crashed
  BY DEF AppStep
<1>2. CASE web_server_init
  <2>1. UNCHANGED <<docs, withdrawn, conn, app, crashed>> /\ app = "idle" /\ gAliasDoc' = NoDoc
    BY <1>2 DEF web_server_init, AppCall
  <2>2. gAliasDoc = NoDoc
    BY <1>2 DEF AliasInv, OwnerInv, web_server_init
  <2>3. OwnerInv' /\ OnlyChangesCrash'
    BY <1>1, <2>1, <2>2 DEF AliasInv, OwnerInv, NothingWithdrawn, Known, OnlyChangesCrash
  <2> QED
    BY <2>1, <2>3, SettingStep
<1>3. CASE web_server_destroy
  BY <1>1, <1>3, OwnerReleases DEF web_server_destroy
<1>4. CASE DisableWebserver
  <2>1. UNCHANGED <<docs, withdrawn, conn, crashed>> /\ app = "destroy" /\ app' = "idle" /\ gAliasDoc' = NoDoc
    BY <1>4 DEF DisableWebserver
  <2>2. OwnerInv' /\ OnlyChangesCrash'
    BY <1>1, <2>1 DEF AliasInv, OwnerInv, NothingWithdrawn, Known, OnlyChangesCrash
  <2> QED
    BY <2>1, <2>2, SettingStep
<1>5. CASE web_server_set_root_dir
  <2>1. UNCHANGED <<docs, withdrawn, conn, gAliasDoc, app, webServerEnabled, crashed>>
    BY <1>5 DEF web_server_set_root_dir, aliasVars
  <2>2. app \in {"idle", "publish", "destroy"} /\ OwnerInv' /\ OnlyChangesCrash'
    BY <1>1, <2>1 DEF AliasInv, AliasTypeOK, OwnerInv, NothingWithdrawn, Known, OnlyChangesCrash
  <2> QED
    BY <2>1, <2>2, SettingStep
<1>6. CASE UpnpAddVirtualDir \/ UpnpRemoveVirtualDir \/ UpnpRemoveAllVirtualDirs
  <2>1. \E list : SetVirtualDirs(list)
    BY <1>6 DEF UpnpAddVirtualDir, UpnpRemoveVirtualDir, UpnpRemoveAllVirtualDirs
  <2> QED
    BY <1>1, <2>1, VirtualDirsInv
<1>7. CASE ReleaseOfFreed
  BY <1>7, ReleaseOfFreedInv
<1> QED
  BY <1>2, <1>3, <1>4, <1>5, <1>6, <1>7 DEF AppStep

LEMMA InitInv == Init => AliasInv
<1> SUFFICES ASSUME Init PROVE AliasInv
  OBVIOUS
<1>1. AliasTypeOK
  BY DEF Init, AliasTypeOK, Document, Docs, NoConn, NoDoc
<1>2. ASSUME NEW d \in Docs PROVE ~Known(d) /\ withdrawn[d] = 0
  BY DEF Init, Known, Docs
<1>3. AliasCounted
  BY <1>1, <1>2, CountedByDocument DEF Counted1
<1>4. HeldInv
  <2>1. \A c \in Conns : conn[c].alias = NoDoc /\ conn[c].source = "none" /\ conn[c].pc = "idle"
    BY DEF Init, NoConn
  <2>2. gAliasDoc = NoDoc
    BY DEF Init
  <2> QED
    BY <1>2, <2>1, <2>2 DEF HeldInv
<1>5. OwnerInv
  BY <1>2 DEF Init, OwnerInv
<1>6. CrashInv
  BY DEF Init, CrashInv, OnlyChangesCrash, NoConn
<1> QED
  BY <1>1, <1>3, <1>4, <1>5, <1>6 DEF AliasInv

\* What only changes how long a peer lets its thread wait.
LEMMA OnlyPeers ==
  ASSUME NEW c \in Conns, ReceivesPart(c) \/ PeerFallsSilent(c)
  PROVE  UNCHANGED webVars
  BY DEF ReceivesPart, PeerFallsSilent, SoapVars, webVars

\* Every step, and every stutter, keeps the invariant.
LEMMA NextInv == AliasInv /\ [Next]_vars => AliasInv'
<1> SUFFICES ASSUME AliasInv, [Next]_vars PROVE AliasInv'
  OBVIOUS
<1>1. ASSUME NEW c \in Conns, web_server_accept(c) \/ ConnActs(c) PROVE AliasInv'
  BY <1>1, AcceptInv, ConnActsInv
<1>2. ASSUME UNCHANGED webVars PROVE AliasInv'
  <2>1. /\ UNCHANGED <<docs, withdrawn, conn, gAliasDoc, app, webServerEnabled, crashed, pVirtualDirList>>
    BY <1>2 DEF webVars, cfgVars, aliasVars, appVars
  <2>2. app \in {"idle", "publish", "destroy"} /\ OwnerInv' /\ OnlyChangesCrash'
    BY <2>1 DEF AliasInv, AliasTypeOK, CrashInv, OwnerInv, NothingWithdrawn, Known, OnlyChangesCrash
  <2> QED
    BY <2>1, <2>2, SettingStep
<1>3. ASSUME NEW c \in Conns, web_server_accept(c) \/ ConnStep(c) \/ PeerFallsSilent(c) PROVE AliasInv'
  <2>1. web_server_accept(c) \/ ConnActs(c) \/ UNCHANGED webVars
    BY <1>3, OnlyPeers DEF ConnStep
  <2> QED
    BY <1>1, <1>2, <2>1
<1>4. UNCHANGED vars => UNCHANGED webVars
  BY DEF vars
<1> QED
  BY <1>2, <1>3, <1>4, RegistersInv, AppStepInv DEF Next

(***************************************************************************)
(* The theorems about the alias.                                           *)
(***************************************************************************)
\* What the count of a document rests on holds always.
THEOREM SpecAliasInv == Spec => []AliasInv
<1>1. Init => AliasInv
  BY InitInv
<1>2. AliasInv /\ [Next]_vars => AliasInv'
  BY NextInv
<1> QED
  BY <1>1, <1>2, PTL DEF Spec

\* The reference count of the published description is exact, a document that a request
\* sends stays in memory, and only changes of what is published crash the server
\* (webserver.c, alias_grab and alias_release), for any number of connections.
THEOREM SpecAliasSound == Spec => []AliasSound
<1>1. AliasInv => AliasSound
  <2> SUFFICES ASSUME AliasInv PROVE HeldDocumentLives
    BY DEF AliasSound, AliasInv, CrashInv
  <2> SUFFICES ASSUME NEW c \in Conns, InUse(c), withdrawn[conn[c].alias] <= 1 PROVE Live(conn[c].alias)
    BY DEF HeldDocumentLives
  <2> DEFINE d == conn[c].alias
  <2>1. d \in Docs /\ Known(d)
    BY DEF AliasInv, AliasTypeOK, HeldInv, InUse
  <2>2. Counted1(d) /\ docs[d].ct \in Int /\ withdrawn[d] \in Nat
    BY <2>1, CountedByDocument DEF AliasInv, AliasTypeOK, Document
  <2>3. IsFiniteSet(Holders(d)) /\ Cardinality(Holders(d)) \in Nat
    BY HoldersFinite
  <2>4. c \in Holders(d)
    BY DEF Holders, HasReference
  <2>5. Cardinality(Holders(d)) # 0
    BY <2>3, <2>4, FS_EmptySet
  <2> QED
    BY <2>1, <2>2, <2>3, <2>5 DEF Counted1, Live
<1> QED
  BY <1>1, SpecAliasInv, PTL

(***************************************************************************)
(* What a connection has been promised and what it has got.                *)
(***************************************************************************)
WebPlaces == {"web", "grab", "look", "post", "head", "file", "doc", "release"}
SoapPlaces == {"soap", "soapCall", "soapAnswer"}
Unanswered == {"idle", "done", "receive", "web", "grab", "look", "post", "head", "gena", "soap", "soapCall"}

Untouched(k) == k.heads = <<>> /\ k.body = 0 /\ ~k.cut

\* The response that process_request decided on keeps to the document and the request.
Promised(k) ==
  /\ k.head.code \in {200, 206} /\ k.head.chunked = k.instr.chunk
  /\ k.head.length >= 0 => k.head.length = k.instr.size /\ ~k.instr.chunk
  /\ k.head.range # NoRange =>
       /\ k.instr.size >= 0
       /\ (k.req.range.kind = "bytes" => k.req.range.first >= 0 \/ k.instr.offset = 0) =>
            /\ k.instr.offset = k.head.range[1]
            /\ k.instr.size = k.head.range[2] - k.head.range[1] + 1
  /\ k.source = "alias" /\ k.head.code = 200 /\ ~k.head.chunked =>
       k.head.length = AliasLength /\ k.head.range = NoRange

\* A document that is about to be sent, found and readable.
Found(k) ==
  /\ k.source = "file" => k.path \in DOMAIN Files /\ Files[k.path].readable /\ Files[k.path].bytes \in Nat
  /\ k.source = "virtual" =>
       k.path \in DOMAIN VirtualFiles /\ VirtualFiles[k.path].readable /\ VirtualFiles[k.path].bytes \in Nat

Planned(k) ==
  /\ k.source \in {"alias", "file", "virtual"} /\ Found(k)
  /\ k.req.method \in {"GET", "HEAD", "SIMPLEGET"}
  /\ k.instr.size \in Int /\ k.instr.offset \in Int /\ k.instr.chunk \in BOOLEAN
  /\ k.head = NoHead <=> k.req.method = "SIMPLEGET"
  /\ k.req.method # "SIMPLEGET" => Promised(k)

\* The head is out, unless the request is of HTTP/0.9.
HeadIsOut(k) == k.heads = IF k.req.method = "SIMPLEGET" THEN <<>> ELSE <<k.head>>

\* In the loop that reads and sends, what is sent and what is left make the whole.
Reading(k) ==
  /\ k.source # "alias" /\ HeadIsOut(k) /\ ~k.cut
  /\ k.body \in Nat /\ k.left \in Nat
  /\ k.instr.size >= 0 => k.body + k.left = k.instr.size
  /\ k.instr.size < 0 => k.left > 0

Agreed(req) ==
  /\ req.path \in DOMAIN Services
  /\ req.header.name = req.body.name /\ req.header.urn = req.body.urn

Fits(k) == BodyFits(k) /\ AnsweredOnce(k) /\ Readable(k) /\ SoapFits(k)

\* What holds of a connection at each place of its thread.
ConnInv(k) ==
  /\ k.pc \in Unanswered \cup WebPlaces \cup SoapPlaces \cup {"close"}
  /\ k.pc \notin {"idle", "done", "receive", "close"} => k.req \in HttpRequest
  /\ k.pc \in Unanswered => Untouched(k) /\ k.asked = 0
  /\ k.pc \in WebPlaces => k.req.method \in Pages /\ k.asked = 0
  /\ k.pc = "gena" => k.req.method \in GenaMethods
  /\ k.pc \in SoapPlaces => k.req.method \in SoapMethods
  /\ k.pc \in {"grab", "look", "head", "file", "doc", "release"} => k.req.url = "path"
  /\ k.pc = "look" => k.source \in {"alias", "file", "virtual"}
  /\ k.pc = "post" => k.req.method = "POST"
  /\ k.pc = "head" => k.left = IF k.instr.size >= 0 THEN k.instr.size ELSE WEB_SERVER_BUF_SIZE
  /\ k.pc \in {"head", "file", "doc", "release"} => Planned(k)
  /\ k.pc = "file" => Reading(k)
  /\ k.pc = "doc" => HeadIsOut(k) /\ ~k.cut /\ k.body = 0
  /\ k.pc = "release" => \/ k.cut /\ k.body = 0 /\ k.heads = <<>>
                         \/ k.cut /\ k.body = 0 /\ HeadIsOut(k)
                         \/ ~k.cut /\ k.body = AliasLength /\ HeadIsOut(k)
  /\ k.pc \in {"soapCall", "soapAnswer"} => Agreed(k.req) /\ k.source \in {"query", "action"}
  /\ k.pc = "soapAnswer" => Untouched(k) /\ k.asked = 1 /\ k.verdict \in Verdicts
  /\ k.pc = "close" => Fits(k)

AnswersInv == \A c \in Conns : ConnInv(conn[c])

LEMMA OneHead ==
  ASSUME NEW h
  PROVE  Append(<<>>, h) = <<h>> /\ Len(<<h>>) = 1 /\ <<h>>[1] = h /\ <<h>> # <<>> /\ Len(<<>>) = 0
<1>1. <<>> \in Seq({h})
  OBVIOUS
<1> QED
  BY <1>1

\* At every place the answers so far are right.
LEMMA InvFits ==
  ASSUME NEW k, ConnInv(k)
  PROVE  Fits(k)
<1>1. CASE k.pc = "close"
  BY <1>1 DEF ConnInv
<1>2. CASE k.pc # "close"
  <2>1. BodyFits(k)
    BY <1>2 DEF BodyFits, Served, Finished
  <2>2. AnsweredOnce(k)
    <3>1. k.heads = <<>> \/ k.heads = <<k.head>>
      BY <1>2 DEF ConnInv, Unanswered, WebPlaces, SoapPlaces, Untouched, Reading, HeadIsOut
    <3>2. Len(k.heads) \in {0, 1}
      BY <3>1, OneHead
    <3>3. ~Finished(k)
      BY <1>2 DEF Finished
    <3>4. PICK n : n = Len(k.heads)
      OBVIOUS
    <3>5. n \in {0, 1}
      BY <3>2, <3>4
    <3>6. n <= 1
      BY <3>5
    <3> QED
      BY <3>3, <3>4, <3>6 DEF AnsweredOnce
  <2>3. Readable(k)
    <3>1. CASE k.body = 0
      BY <3>1 DEF Readable
    <3>2. CASE k.body # 0
      BY <1>2, <3>2 DEF ConnInv, Unanswered, WebPlaces, SoapPlaces, Untouched, Readable, Planned, Found
    <3> QED
      BY <3>1, <3>2
  <2>4. SoapFits(k)
    BY <1>2 DEF ConnInv, Unanswered, WebPlaces, SoapPlaces, Agreed, SoapFits, Served, Finished
  <2> QED
    BY <2>1, <2>2, <2>3, <2>4 DEF Fits
<1> QED
  BY <1>1, <1>2

(***************************************************************************)
(* What process_request finds and decides.                                 *)
(***************************************************************************)
LEMMA LookupFinds ==
  ASSUME NEW table, NEW L, \A p \in DOMAIN table : table[p] \in Entries(L), NEW path, NEW l, l = Lookup(table, path)
  PROVE  /\ l.code \in {200, 403, 404}
         /\ l.code = 200 => /\ l.path \in DOMAIN table /\ l.length \in L
                            /\ table[l.path].readable /\ table[l.path].bytes \in Nat
<1> DEFINE info == IF path \in DOMAIN table THEN table[path] ELSE [kind |-> "none"]
           index == IF info.kind = "dir" /\ info.index \in DOMAIN table
                    THEN table[info.index] ELSE [kind |-> "none"]
           file == IF info.kind = "dir" THEN index ELSE info
           at == IF info.kind = "dir" THEN info.index ELSE path
<1>1. l = CASE file.kind # "file" -> [code |-> 404]
            [] file.kind = "file" /\ ~file.readable -> [code |-> 403]
            [] OTHER -> [code |-> 200, length |-> file.length, path |-> at]
  BY DEF Lookup
<1>2. file.kind = "file" => at \in DOMAIN table /\ file = table[at]
  OBVIOUS
<1>3. \A e \in Entries(L) : e.kind = "file" => e.length \in L /\ e.bytes \in Nat
  BY DEF Entries
<1> HIDE DEF info, index, file, at
<1>4. CASE file.kind # "file"
  BY <1>1, <1>4
<1>5. CASE file.kind = "file" /\ ~file.readable
  BY <1>1, <1>5
<1>6. CASE file.kind = "file" /\ file.readable
  <2>1. l = [code |-> 200, length |-> file.length, path |-> at]
    BY <1>1, <1>6
  <2> QED
    BY <1>2, <1>3, <1>6, <2>1
<1> QED
  BY <1>4, <1>5, <1>6

\* A range is granted of a document whose length is known, and what is announced of it is
\* what is sent, except of a suffix.
LEMMA RangeGranted ==
  ASSUME NEW r \in Ranges, NEW length \in Int, NEW p, p = CreateHTTPRangeResponseHeader(r, length)
  PROVE  /\ p.code \in {200, 400, 416}
         /\ p.code = 200 =>
              /\ length >= 0 /\ p.size \in Nat /\ p.offset \in Int /\ r.kind = "bytes"
              /\ r.first >= 0 \/ p.offset = 0 =>
                   p.offset = p.header[1] /\ p.size = p.header[2] - p.header[1] + 1
<1> DEFINE last == IF r.last >= length THEN length - 1 ELSE r.last
<1>1. r.kind \in {"none", "malformed", "nodash", "bytes"}
  BY DEF Ranges
<1>2. CASE r.kind # "bytes"
  <2>1. p \in {RangePlan(400, 0, length, NoRange), RangePlan(416, 0, length, NoRange)}
    BY <1>1, <1>2 DEF CreateHTTPRangeResponseHeader
  <2> QED
    BY <2>1 DEF RangePlan
<1>3. CASE r.kind = "bytes"
  <2>1. r.first \in Int /\ r.last \in Int
    BY <1>3 DEF Ranges
  <2>2. CASE length < 0 \/ length < r.first
    <3>1. p = RangePlan(416, 0, length, NoRange)
      BY <1>3, <2>1, <2>2 DEF CreateHTTPRangeResponseHeader
    <3> QED
      BY <3>1 DEF RangePlan
  <2>3. CASE ~(length < 0 \/ length < r.first) /\ 0 <= r.first /\ r.first <= r.last
    <3>1. p = RangePlan(200, r.first, last - r.first + 1, <<r.first, last, length>>)
      BY <1>3, <2>1, <2>3 DEF CreateHTTPRangeResponseHeader
    <3>2. last \in Int /\ last - r.first + 1 >= 0
      BY <2>1, <2>3
    <3> HIDE DEF last
    <3> QED
      BY <1>3, <2>1, <2>3, <3>1, <3>2 DEF RangePlan
  <2>4. CASE ~(length < 0 \/ length < r.first) /\ 0 <= r.first /\ ~(r.first <= r.last) /\ r.last = -1 /\ r.first < length
    <3>1. p = RangePlan(200, r.first, length - r.first, <<r.first, length - 1, length>>)
      BY <1>3, <2>1, <2>4 DEF CreateHTTPRangeResponseHeader
    <3> QED
      BY <1>3, <2>1, <2>4, <3>1 DEF RangePlan
  <2>5. CASE ~(length < 0 \/ length < r.first) /\ r.first = -1 /\ r.last > 0 /\ r.last >= length
    <3>1. p = RangePlan(200, 0, length, <<0, length - 1, length>>)
      BY <1>3, <2>1, <2>5 DEF CreateHTTPRangeResponseHeader
    <3> QED
      BY <1>3, <2>1, <2>5, <3>1 DEF RangePlan
  <2>6. CASE ~(length < 0 \/ length < r.first) /\ r.first = -1 /\ r.last > 0 /\ ~(r.last >= length)
    <3>1. p = RangePlan(200, length - r.last, r.last, <<length - r.last + 1, length, length>>)
      BY <1>3, <2>1, <2>6 DEF CreateHTTPRangeResponseHeader
    <3> QED
      BY <1>3, <2>1, <2>6, <3>1 DEF RangePlan
  <2>7. CASE /\ ~(length < 0 \/ length < r.first)
             /\ ~(0 <= r.first /\ r.first <= r.last)
             /\ ~(0 <= r.first /\ r.last = -1 /\ r.first < length)
             /\ ~(r.first = -1 /\ r.last > 0)
    <3>1. p = RangePlan(416, 0, length, NoRange)
      BY <1>3, <2>1, <2>7 DEF CreateHTTPRangeResponseHeader
    <3> QED
      BY <3>1 DEF RangePlan
  <2> QED
    BY <2>1, <2>2, <2>3, <2>4, <2>5, <2>6, <2>7
<1> QED
  BY <1>2, <1>3

\* TE asks for chunks, RANGE for a part, which is granted only of a known length.
Checked(ch, req, length) ==
  /\ ch.code \in {200, 400, 416}
  /\ DOMAIN ch = {"code", "instr", "header"} /\ DOMAIN ch.instr = DOMAIN NoInstr
  /\ ch.instr.chunk = req.te
  /\ ch.code = 200 => ch.instr.offset \in Int /\ ch.instr.size \in Int
  /\ \/ ch.instr.range = FALSE /\ ch.instr.size = length
     \/ /\ ch.instr.range = TRUE
        /\ ch.code = 200 =>
             /\ length >= 0 /\ ch.instr.size >= 0
             /\ req.range.first >= 0 \/ ch.instr.offset = 0 =>
                  ch.instr.offset = ch.header[1] /\ ch.instr.size = ch.header[2] - ch.header[1] + 1
        /\ ch.code = 200 => req.range.kind = "bytes"

LEMMA HeadersChecked ==
  ASSUME NEW req \in HttpRequest, NEW virtual, NEW length \in Int
  PROVE  Checked(CheckOtherHTTPHeaders(req, virtual, length), req, length)
<1>0. PICK ch : ch = CheckOtherHTTPHeaders(req, virtual, length)
  OBVIOUS
<1>1. PICK whole : whole = [virtual |-> virtual, chunk |-> req.te, range |-> FALSE, offset |-> 0, size |-> length]
  OBVIOUS
<1>2. /\ DOMAIN whole = DOMAIN NoInstr /\ whole.chunk = req.te
      /\ whole.range = FALSE /\ whole.offset = 0 /\ whole.size = length
  BY <1>1 DEF NoInstr
<1>3. PICK r : r = CreateHTTPRangeResponseHeader(req.range, length)
  OBVIOUS
<1>4. CASE req.range.kind = "none"
  <2>1. ch = [code |-> 200, instr |-> whole, header |-> NoRange]
    BY <1>0, <1>1, <1>4 DEF CheckOtherHTTPHeaders
  <2>2. ch.code = 200 /\ ch.instr = whole /\ DOMAIN ch = {"code", "instr", "header"}
    BY <2>1
  <2> QED
    BY <1>0, <1>2, <2>2 DEF Checked
<1>5. CASE req.range.kind # "none"
  <2>1. PICK part : part = [whole EXCEPT !.range = TRUE, !.offset = r.offset, !.size = r.size]
    OBVIOUS
  <2>2. /\ DOMAIN part = DOMAIN NoInstr /\ part.chunk = req.te
        /\ part.range = TRUE /\ part.offset = r.offset /\ part.size = r.size
    BY <1>2, <2>1 DEF NoInstr
  <2>3. ch = [code |-> r.code, header |-> r.header, instr |-> part]
    BY <1>0, <1>1, <1>3, <1>5, <2>1 DEF CheckOtherHTTPHeaders
  <2>4. ch.code = r.code /\ ch.header = r.header /\ ch.instr = part /\ DOMAIN ch = {"code", "instr", "header"}
    BY <2>3
  <2>5. /\ r.code \in {200, 400, 416}
        /\ r.code = 200 =>
              /\ length >= 0 /\ r.size \in Nat /\ r.offset \in Int /\ req.range.kind = "bytes"
              /\ req.range.first >= 0 \/ r.offset = 0 =>
                   r.offset = r.header[1] /\ r.size = r.header[2] - r.header[1] + 1
    <3>1. req.range \in Ranges
      BY DEF HttpRequest
    <3> QED
      BY <1>3, <3>1, RangeGranted
  <2>6. r.code = 200 => r.size \in Int /\ r.size >= 0
    BY <2>5
  <2> QED
    BY <1>0, <2>2, <2>4, <2>5, <2>6 DEF Checked
<1> QED
  BY <1>4, <1>5

\* What is known of the document that is found.
LookedUp(f, req, source) ==
  /\ f.code \in {200, 403, 404, 500}
  /\ f.code = 200 => f.length \in Int
  /\ f.code = 200 /\ source = "alias" => f.length = AliasLength
  /\ f.code = 200 /\ source = "file" /\ req.method # "POST" =>
       f.path \in DOMAIN Files /\ Files[f.path].readable /\ Files[f.path].bytes \in Nat
  /\ f.code = 200 /\ source = "virtual" /\ req.method # "POST" =>
       f.path \in DOMAIN VirtualFiles /\ VirtualFiles[f.path].readable /\ VirtualFiles[f.path].bytes \in Nat

LEMMA FileLookedUp ==
  ASSUME NEW req, NEW source \in {"alias", "file", "virtual"}, NEW garbage \in Int
  PROVE  LookedUp(FileFor(req, source, garbage), req, source)
<1>0. PICK f : f = FileFor(req, source, garbage)
  OBVIOUS
<1> SUFFICES LookedUp(f, req, source)
  BY <1>0
<1>1. CASE source = "alias"
  <2>1. f = [code |-> 200, length |-> AliasLength, path |-> "none"]
    BY <1>0, <1>1 DEF FileFor
  <2> QED
    BY <1>1, <2>1, BoundsAssumption DEF LookedUp
<1>2. CASE source = "virtual" /\ req.method # "POST"
  <2>1. f = Lookup(VirtualFiles, req.path)
    BY <1>0, <1>2 DEF FileFor
  <2>2. \A p \in DOMAIN VirtualFiles : VirtualFiles[p] \in Entries(Int)
    BY RequestAssumption
  <2> QED
    BY <1>2, <2>1, <2>2, LookupFinds DEF LookedUp
<1>3. CASE source = "file" /\ ~gDocumentRootDir
  <2>1. f = [code |-> 500]
    BY <1>0, <1>3 DEF FileFor
  <2> QED
    BY <1>3, <2>1 DEF LookedUp
<1>4. CASE source = "file" /\ gDocumentRootDir /\ req.method # "POST"
  <2>1. f = Lookup(Files, req.path)
    BY <1>0, <1>4 DEF FileFor
  <2>2. \A p \in DOMAIN Files : Files[p] \in Entries(Nat)
    BY RequestAssumption
  <2> QED
    BY <1>4, <2>1, <2>2, LookupFinds DEF LookedUp
<1>5. CASE source # "alias" /\ ~(source = "file" /\ ~gDocumentRootDir) /\ req.method = "POST"
  <2>1. f = [code |-> 200, length |-> garbage, path |-> req.path]
    BY <1>0, <1>5 DEF FileFor
  <2> QED
    BY <1>5, <2>1 DEF LookedUp
<1> QED
  BY <1>1, <1>2, <1>3, <1>4, <1>5

\* The head that announces the document.
Announces(h, i, header) ==
  /\ h # NoHead /\ h.code \in {200, 206} /\ h.chunked = i.chunk
  /\ h.length >= 0 => h.length = i.size /\ ~i.chunk
  /\ ~i.range /\ ~i.chunk /\ i.size >= 0 => h.length = i.size
  /\ i.range => h.range = header
  /\ ~i.range => h.range = NoRange
  /\ h.code = 200 => ~i.range

LEMMA HeadPromises ==
  ASSUME NEW req, NEW checked, NEW length, NEW i, i = checked.instr,
         i.chunk \in BOOLEAN, i.range \in BOOLEAN, i.size \in Int
  PROVE  Announces(HeadFor(req, checked, length), i, checked.header)
<1>0. PICK h : h = HeadFor(req, checked, length)
  OBVIOUS
<1> SUFFICES Announces(h, i, checked.header)
  BY <1>0
<1>1. CASE i.range = TRUE /\ i.chunk = TRUE
  <2>1. h = ResponseHead(206, -1, TRUE, checked.header)
    BY <1>0, <1>1 DEF HeadFor
  <2>2. h # NoHead /\ h.code = 206 /\ h.chunked = TRUE /\ h.length = -1 /\ h.range = checked.header
    BY <2>1 DEF ResponseHead, NoHead
  <2>3. h.length >= 0 => h.length = i.size /\ ~i.chunk
    BY <1>1, <2>2
  <2>4. h.chunked = i.chunk
    BY <1>1, <2>2
  <2> QED
    BY <1>1, <2>2, <2>3, <2>4 DEF Announces
<1>2. CASE i.range = TRUE /\ i.chunk = FALSE
  <2>1. h = ResponseHead(206, i.size, FALSE, checked.header)
    BY <1>0, <1>2 DEF HeadFor
  <2>2. h # NoHead /\ h.code = 206 /\ h.chunked = FALSE /\ h.length = i.size /\ h.range = checked.header
    BY <2>1 DEF ResponseHead, NoHead
  <2>3. h.length >= 0 => h.length = i.size /\ ~i.chunk
    BY <1>2, <2>2
  <2>4. h.chunked = i.chunk
    BY <1>2, <2>2
  <2> QED
    BY <1>2, <2>2, <2>3, <2>4 DEF Announces
<1>3. CASE i.range = FALSE /\ i.chunk = TRUE
  <2>1. h = ResponseHead(200, -1, TRUE, NoRange)
    BY <1>0, <1>3 DEF HeadFor
  <2>2. h # NoHead /\ h.code = 200 /\ h.chunked = TRUE /\ h.length = -1 /\ h.range = NoRange
    BY <2>1 DEF ResponseHead, NoHead
  <2>3. h.length >= 0 => h.length = i.size /\ ~i.chunk
    BY <1>3, <2>2
  <2>4. h.chunked = i.chunk
    BY <1>3, <2>2
  <2> QED
    BY <1>3, <2>2, <2>3, <2>4 DEF Announces
<1>4. CASE i.range = FALSE /\ i.chunk = FALSE
  <2>1. PICK l : l = IF i.size >= 0 THEN i.size ELSE -1
    OBVIOUS
  <2>2. h = ResponseHead(200, l, FALSE, NoRange)
    BY <1>0, <1>4, <2>1 DEF HeadFor
  <2>3. h # NoHead /\ h.code = 200 /\ h.chunked = FALSE /\ h.length = l /\ h.range = NoRange
    BY <2>2 DEF ResponseHead, NoHead
  <2>4. (l >= 0 => l = i.size) /\ (i.size >= 0 => l = i.size)
    BY <2>1
  <2> QED
    BY <1>4, <2>3, <2>4 DEF Announces
<1> QED
  BY <1>1, <1>2, <1>3, <1>4

\* process_request refuses the request, lets a POST go on to its body, or plans how the
\* document is sent.
PlanMade(p, req, source) ==
  /\ p.code = 200 \/ p.code \notin {200, 206}
  /\ p.code = 200 /\ req.method = "POST" => p.pc = "post"
  /\ p.code = 200 /\ req.method # "POST" =>
       /\ p.pc = "head"
       /\ \A k : k.req = req /\ k.source = source /\ k.path = p.path /\ k.instr = p.instr /\ k.head = p.head
                   => Planned(k)

LEMMA DocumentPlanned ==
  ASSUME NEW req \in HttpRequest, req.method \in Pages, NEW source \in {"alias", "file", "virtual"},
         NEW garbage \in Int, NEW p, p = Prepared(req, source, garbage)
  PROVE  PlanMade(p, req, source)
<1> DEFINE f == FileFor(req, source, garbage)
           virtual == source = "virtual"
           ch == CheckOtherHTTPHeaders(req, virtual, f.length)
           unknown == virtual /\ f.length = UPNP_USING_CHUNKED
           final == IF unknown THEN [ch EXCEPT !.instr.chunk = TRUE] ELSE ch
<1>5. p = CASE f.code # 200 -> f
            [] f.code = 200 /\ ch.code # 200 -> [code |-> ch.code]
            [] f.code = 200 /\ ch.code = 200 /\ req.method = "POST" ->
                 [code |-> 200, pc |-> "post", instr |-> NoInstr, head |-> NoHead, path |-> f.path]
            [] f.code = 200 /\ ch.code = 200 /\ req.method # "POST" /\ unknown /\ req.old -> [code |-> 406]
            [] OTHER ->
                 [code |-> 200, pc |-> "head", instr |-> final.instr, path |-> f.path,
                  head |-> IF req.method = "SIMPLEGET" THEN NoHead ELSE HeadFor(req, final, f.length)]
  BY ZenonT(30) DEF Prepared, FileFor
<1>1. f = FileFor(req, source, garbage)
  OBVIOUS
<1>2. ch = CheckOtherHTTPHeaders(req, virtual, f.length)
  OBVIOUS
<1>3. unknown \in BOOLEAN
  OBVIOUS
<1>4. final = IF unknown THEN [ch EXCEPT !.instr.chunk = TRUE] ELSE ch
  OBVIOUS
<1> HIDE DEF f, virtual, ch, unknown, final
<1>6. LookedUp(f, req, source)
  BY <1>1, FileLookedUp
<1>7. CASE f.code # 200
  <2>1. p.code = f.code
    BY <1>5, <1>7
  <2> QED
    BY <1>6, <1>7, <2>1 DEF PlanMade, LookedUp
<1>8. ASSUME f.code = 200 PROVE PlanMade(p, req, source)
  <2>0. f.length \in Int
    BY <1>6, <1>8 DEF LookedUp
  <2>1. Checked(ch, req, f.length)
    BY <1>2, <2>0, HeadersChecked
  <2>2. CASE ch.code # 200
    <3>1. p = [code |-> ch.code]
      BY <1>5, <1>8, <2>2
    <3>2. p.code = ch.code
      BY <3>1
    <3> QED
      BY <2>1, <2>2, <3>2 DEF PlanMade, Checked
  <2>3. CASE ch.code = 200 /\ req.method = "POST"
    <3>1. p = [code |-> 200, pc |-> "post", instr |-> NoInstr, head |-> NoHead, path |-> f.path]
      BY <1>5, <1>8, <2>3
    <3>2. p.code = 200 /\ p.pc = "post"
      BY <3>1
    <3> QED
      BY <2>3, <3>2 DEF PlanMade
  <2>4. CASE ch.code = 200 /\ req.method # "POST" /\ unknown /\ req.old
    <3>1. p = [code |-> 406]
      BY <1>5, <1>8, <2>4
    <3>2. p.code = 406
      BY <3>1
    <3> QED
      BY <3>2 DEF PlanMade
  <2>5. CASE ch.code = 200 /\ req.method # "POST" /\ ~(unknown /\ req.old)
    <3> DEFINE head == IF req.method = "SIMPLEGET" THEN NoHead ELSE HeadFor(req, final, f.length)
    <3>1. p = [code |-> 200, pc |-> "head", instr |-> final.instr, path |-> f.path, head |-> head]
      BY <1>5, <1>8, <2>5
    <3> HIDE DEF head
    <3>2. p.code = 200 /\ p.pc = "head" /\ p.instr = final.instr /\ p.path = f.path /\ p.head = head
      BY <3>1
    <3>3. PICK i : i = final.instr
      OBVIOUS
    <3>4. /\ final.header = ch.header
          /\ i.chunk \in BOOLEAN /\ i.range = ch.instr.range /\ i.size = ch.instr.size /\ i.offset = ch.instr.offset
      <4>1. CASE unknown = TRUE
        <5>1. final = [ch EXCEPT !.instr.chunk = TRUE]
          BY <1>4, <4>1
        <5>2. final.header = ch.header /\ final.instr = [ch.instr EXCEPT !.chunk = TRUE]
          BY <2>1, <5>1 DEF Checked
        <5>3. i.chunk = TRUE /\ i.range = ch.instr.range /\ i.size = ch.instr.size /\ i.offset = ch.instr.offset
          BY <2>1, <3>3, <5>2 DEF NoInstr, Checked
        <5> QED
          BY <4>1, <5>2, <5>3
      <4>2. CASE unknown = FALSE
        <5>1. final = ch
          BY <1>4, <4>2
        <5>2. req.te \in BOOLEAN
          BY DEF HttpRequest
        <5> QED
          BY <2>1, <3>3, <5>1, <5>2 DEF Checked
      <4> QED
        BY <1>3, <4>1, <4>2
    <3>5. i.chunk \in BOOLEAN /\ i.range \in BOOLEAN /\ i.size \in Int /\ i.offset \in Int
      BY <2>1, <2>5, <3>4, ZenonT(30) DEF Checked
    <3>6. PICK h : h = HeadFor(req, final, f.length)
      OBVIOUS
    <3>7. Announces(h, i, final.header)
      BY <3>3, <3>5, <3>6, HeadPromises
    <3>8. ASSUME NEW k, k.req = req, k.source = source, k.path = p.path, k.instr = p.instr, k.head = p.head
          PROVE  Planned(k)
      <4>1. k.instr = i /\ k.path = f.path
        BY <3>2, <3>3, <3>8
      <4>2. Found(k)
        BY <1>6, <1>8, <2>5, <3>8, <4>1 DEF Found, LookedUp
      <4>3. k.req.method \in {"GET", "HEAD", "SIMPLEGET"}
        BY <2>5, <3>8 DEF Pages
      <4>4. k.head = NoHead <=> k.req.method = "SIMPLEGET"
        BY <3>2, <3>6, <3>7, <3>8 DEF head, Announces
      <4>5. ASSUME k.req.method # "SIMPLEGET" PROVE Promised(k)
        <5>1. k.head = h
          BY <3>2, <3>6, <3>8, <4>5 DEF head
        <5>2. h.range # NoRange => i.range = TRUE /\ h.range = ch.header
          BY <3>4, <3>5, <3>7 DEF Announces
        <5>3. h.range # NoRange =>
                /\ i.size >= 0
                /\ (req.range.kind = "bytes" => req.range.first >= 0 \/ i.offset = 0) =>
                     i.offset = h.range[1] /\ i.size = h.range[2] - h.range[1] + 1
          BY <2>1, <2>5, <3>4, <5>2 DEF Checked
        <5>4. source = "alias" /\ h.code = 200 /\ ~h.chunked => h.length = AliasLength /\ h.range = NoRange
          <6>1. SUFFICES ASSUME source = "alias", h.code = 200, ~h.chunked
                         PROVE  h.length = AliasLength /\ h.range = NoRange
            OBVIOUS
          <6>2. i.range = FALSE /\ i.chunk = FALSE
            BY <3>5, <3>7, <6>1 DEF Announces
          <6>3. i.size = AliasLength
            BY <1>6, <1>8, <2>1, <3>4, <6>1, <6>2 DEF LookedUp, Checked
          <6> QED
            BY <3>7, <6>2, <6>3, BoundsAssumption DEF Announces
        <5> QED
          BY <3>7, <3>8, <4>1, <5>1, <5>3, <5>4 DEF Promised, Announces
      <4> QED
        BY <3>5, <3>8, <4>1, <4>2, <4>3, <4>4, <4>5 DEF Planned
    <3> QED
      BY <2>5, <3>2, <3>8 DEF PlanMade
  <2> QED
    BY <2>2, <2>3, <2>4, <2>5
<1> QED
  BY <1>7, <1>8

(***************************************************************************)
(* The steps of a connection.                                              *)
(***************************************************************************)
Goes(c) == \E n : Moves(c, n) /\ ConnInv(n)

\* An answer is the only one, and without a body.
LEMMA AnsweredFields ==
  ASSUME NEW k, DOMAIN k = DOMAIN NoConn, k.heads = <<>>, ~k.cut, NEW head, NEW ok \in BOOLEAN,
         NEW a, a = Answered(k, head, ok)
  PROVE  /\ DOMAIN a = DOMAIN NoConn
         /\ ok /\ head # NoHead => a.heads = <<head>>
         /\ ~ok \/ head = NoHead => a.heads = <<>>
         /\ a.cut <=> ~ok
         /\ a.req = k.req /\ a.body = k.body /\ a.asked = k.asked /\ a.source = k.source /\ a.path = k.path
         /\ a.instr = k.instr /\ a.head = k.head /\ a.left = k.left /\ a.verdict = k.verdict /\ a.pc = k.pc
<1>1. a = [k EXCEPT !.heads = IF ok /\ head # NoHead THEN Append(@, head) ELSE @, !.cut = @ \/ ~ok]
  BY DEF Answered
<1>2. /\ DOMAIN a = DOMAIN NoConn
      /\ a.req = k.req /\ a.body = k.body /\ a.asked = k.asked /\ a.source = k.source /\ a.path = k.path
      /\ a.instr = k.instr /\ a.head = k.head /\ a.left = k.left /\ a.verdict = k.verdict /\ a.pc = k.pc
  BY <1>1 DEF NoConn
<1>3. a.heads = IF ok /\ head # NoHead THEN Append(<<>>, head) ELSE <<>>
  BY <1>1 DEF NoConn
<1>4. a.cut = (k.cut \/ ~ok)
  BY <1>1 DEF NoConn
<1> QED
  BY <1>2, <1>3, <1>4, OneHead

\* An answer that does not say that a document follows or that an action succeeded.
NothingServed(req, head) ==
  /\ head.code \notin {200, 206} \/ req.method \notin {"GET", "HEAD"}
  /\ req.method \in SoapMethods /\ req.code = 0 => head.code # 200

\* The last place of a request that was refused, or answered without a document.
LEMMA RefusalFits ==
  ASSUME NEW n, n.pc = "close", n.body = 0, n.asked = 0,
         NEW head, NEW ok \in BOOLEAN, ok => n.heads = <<head>>, ~ok => n.heads = <<>>, n.cut <=> ~ok,
         NothingServed(n.req, head)
  PROVE  ConnInv(n)
<1>1. n.heads # <<>> => HeadOf(n) = head
  BY OneHead DEF HeadOf
<1>2. BodyFits(n)
  <2>1. Served(n) => HeadOf(n) = head
    BY <1>1 DEF Served
  <2>2. ~(Served(n) /\ PlainDocument(n))
    BY <2>1 DEF PlainDocument, NothingServed
  <2> QED
    BY <2>2 DEF BodyFits
<1>3. AnsweredOnce(n)
  <2>1. CASE ok
    <3>1. Len(n.heads) = 1 /\ n.heads # <<>>
      BY <2>1, OneHead
    <3> QED
      BY <3>1 DEF AnsweredOnce
  <2>2. CASE ~ok
    <3>1. Len(n.heads) = 0
      BY <2>2, OneHead
    <3> QED
      BY <2>2, <3>1 DEF AnsweredOnce
  <2> QED
    BY <2>1, <2>2
<1>4. Readable(n)
  BY DEF Readable
<1>5. SoapFits(n)
  <2>1. Served(n) => HeadOf(n) = head
    BY <1>1 DEF Served
  <2> QED
    BY <2>1 DEF SoapFits, NothingServed
<1> QED
  BY <1>2, <1>3, <1>4, <1>5 DEF ConnInv, Fits, Unanswered, WebPlaces, SoapPlaces

\* A request that has got nothing yet is answered and its connection closed.
LEMMA RefusalGoes ==
  ASSUME NEW c \in Conns, NEW k, DOMAIN k = DOMAIN NoConn, Untouched(k), k.asked = 0,
         NEW head, head # NoHead, NEW ok \in BOOLEAN,
         NEW n, DOMAIN n = DOMAIN NoConn, Moves(c, n), n.pc = "close",
         NEW a, a = Answered(k, head, ok), NothingServed(k.req, head),
         n.heads = a.heads, n.cut = a.cut, n.req = a.req, n.body = a.body, n.asked = a.asked
  PROVE  Goes(c)
<1>2. k.heads = <<>> /\ ~k.cut /\ k.body = 0
  BY DEF Untouched
<1>3. /\ ok => a.heads = <<head>>
      /\ ~ok => a.heads = <<>>
      /\ a.cut <=> ~ok
      /\ a.req = k.req /\ a.body = k.body /\ a.asked = k.asked
  BY <1>2, AnsweredFields
<1>4. ConnInv(n)
  BY <1>2, <1>3, RefusalFits
<1> QED
  BY <1>4 DEF Goes

\* The same, of an answer that leaves the rest of the connection as it is.
LEMMA ClosedGoes ==
  ASSUME NEW c \in Conns, NEW k, DOMAIN k = DOMAIN NoConn, Untouched(k), k.asked = 0,
         NEW head, head # NoHead, NEW ok \in BOOLEAN, Moves(c, [Answered(k, head, ok) EXCEPT !.pc = "close"]),
         NothingServed(k.req, head)
  PROVE  Goes(c)
<1>1. PICK a : a = Answered(k, head, ok)
  OBVIOUS
<1>2. PICK n : n = [a EXCEPT !.pc = "close"]
  OBVIOUS
<1>3. DOMAIN a = DOMAIN NoConn
  BY <1>1, AnsweredKeeps
<1>4. /\ DOMAIN n = DOMAIN NoConn /\ n.pc = "close" /\ n.heads = a.heads /\ n.cut = a.cut
      /\ n.req = a.req /\ n.body = a.body /\ n.asked = a.asked
  BY <1>2, <1>3 DEF NoConn
<1>5. Moves(c, n)
  BY <1>1, <1>2
<1> QED
  BY <1>1, <1>4, <1>5, RefusalGoes

LEMMA AcceptGoes ==
  ASSUME AliasInv, AnswersInv, NEW c \in Conns, web_server_accept(c)
  PROVE  Goes(c)
<1> DEFINE k == conn[c]
<1>1. DOMAIN k = DOMAIN NoConn /\ k.pc = "idle" /\ ConnInv(k)
  BY DEF AliasInv, AliasTypeOK, AnswersInv, web_server_accept, AtStart
<1>2. PICK n : n = [k EXCEPT !.pc = "receive"]
  OBVIOUS
<1>3. Moves(c, n)
  BY <1>2 DEF web_server_accept
<1>4. /\ n.pc = "receive"
      /\ n.heads = k.heads /\ n.body = k.body /\ n.cut = k.cut /\ n.asked = k.asked
  BY <1>1, <1>2 DEF NoConn
<1>5. ConnInv(n)
  BY <1>1, <1>4 DEF ConnInv, Unanswered, WebPlaces, SoapPlaces, Untouched
<1> QED
  BY <1>3, <1>5 DEF Goes

\* A page that says why a request is refused.
LEMMA RefusedGoes ==
  ASSUME NEW c \in Conns, NEW k, DOMAIN k = DOMAIN NoConn, Untouched(k), k.asked = 0,
         NEW code \in 400..505, Refused(c, k, code)
  PROVE  Goes(c)
<1>1. PICK ok \in BOOLEAN : Moves(c, [Answered(k, StatusHead(code), ok) EXCEPT !.pc = "close"])
  BY DEF Refused
<1>2. PICK head : head = StatusHead(code)
  OBVIOUS
<1>3. head # NoHead /\ head.code = code
  BY <1>2 DEF StatusHead, ResponseHead, NoHead
<1>4. Moves(c, [Answered(k, head, ok) EXCEPT !.pc = "close"])
  BY <1>1, <1>2
<1>5. NothingServed(k.req, head)
  BY <1>3 DEF NothingServed
<1> QED
  BY <1>3, <1>4, <1>5, ClosedGoes

LEMMA ReceiveFailsGoes ==
  ASSUME AliasInv, AnswersInv, NEW c \in Conns, ReceiveFails(c)
  PROVE  Goes(c)
<1>1. DOMAIN conn[c] = DOMAIN NoConn /\ conn[c].pc = "receive" /\ ConnInv(conn[c])
  BY DEF AliasInv, AliasTypeOK, AnswersInv, ReceiveFails, AtStart
<1>2. Untouched(conn[c]) /\ conn[c].asked = 0
  BY <1>1 DEF ConnInv, Unanswered
<1>3. Refused(c, conn[c], 400)
  BY DEF ReceiveFails
<1> QED
  BY <1>1, <1>2, <1>3, RefusedGoes

LEMMA HandleRequestGoes ==
  ASSUME AliasInv, AnswersInv, NEW c \in Conns, handle_request(c)
  PROVE  Goes(c)
<1>1. DOMAIN conn[c] = DOMAIN NoConn /\ conn[c].pc = "receive" /\ ConnInv(conn[c])
  BY DEF AliasInv, AliasTypeOK, AnswersInv, handle_request, AtStart
<1>2. PICK q \in Requests[c] : Handles(c, [conn[c] EXCEPT !.req = q])
  BY DEF handle_request
<1>3. PICK k : k = [conn[c] EXCEPT !.req = q]
  OBVIOUS
<1>4. q \in HttpRequest
  BY <1>2, RequestAssumption
<1>5. Untouched(conn[c]) /\ conn[c].asked = 0
  BY <1>1 DEF ConnInv, Unanswered
<1>6. DOMAIN k = DOMAIN NoConn /\ Untouched(k) /\ k.asked = 0 /\ k.req \in HttpRequest
  BY <1>1, <1>3, <1>4, <1>5 DEF NoConn, Untouched
<1>7. Handles(c, k)
  BY <1>2, <1>3
<1>8. PICK to : to = dispatch_request(k.req.method)
  OBVIOUS
<1>9. CASE k.req.code # 0
  <2>1. k.req.code \in 400..505
    BY <1>6, <1>9 DEF HttpRequest
  <2>2. Refused(c, k, k.req.code)
    BY <1>7, <1>9 DEF Handles
  <2> QED
    BY <1>6, <2>1, <2>2, RefusedGoes
<1>10. CASE k.req.code = 0 /\ to = "none"
  <2>1. Refused(c, k, 500)
    BY <1>7, <1>8, <1>10 DEF Handles
  <2> QED
    BY <1>6, <2>1, RefusedGoes
<1>11. CASE k.req.code = 0 /\ to # "none"
  <2>1. PICK n : n = [k EXCEPT !.pc = to]
    OBVIOUS
  <2>2. Moves(c, n)
    BY <1>7, <1>8, <1>11, <2>1 DEF Handles
  <2>3. /\ n.pc = to /\ n.req = k.req
        /\ n.heads = k.heads /\ n.body = k.body /\ n.cut = k.cut /\ n.asked = k.asked
    BY <1>6, <2>1 DEF NoConn
  <2>4. \/ to = "soap" /\ k.req.method \in SoapMethods
        \/ to = "gena" /\ k.req.method \in GenaMethods
        \/ to = "web" /\ k.req.method \in Pages
    BY <1>8, <1>11 DEF dispatch_request
  <2>5. ConnInv(n)
    BY <1>6, <2>3, <2>4 DEF ConnInv, Unanswered, WebPlaces, SoapPlaces, Untouched
  <2> QED
    BY <2>2, <2>5 DEF Goes
<1> QED
  BY <1>9, <1>10, <1>11

LEMMA GenaGoes ==
  ASSUME AliasInv, AnswersInv, NEW c \in Conns, genaCallback(c)
  PROVE  Goes(c)
<1> DEFINE k == conn[c]
<1>1. DOMAIN k = DOMAIN NoConn /\ k.pc = "gena" /\ ConnInv(k)
  BY DEF AliasInv, AliasTypeOK, AnswersInv, genaCallback, AtStart
<1>2. Untouched(k) /\ k.asked = 0 /\ k.req \in HttpRequest /\ k.req.method \in GenaMethods
  BY <1>1 DEF ConnInv, Unanswered
<1>3. PICK code \in {200, 412}, ok \in BOOLEAN :
        Moves(c, [Answered(k, ResponseHead(code, 0, FALSE, NoRange), ok) EXCEPT !.pc = "close"])
  BY DEF genaCallback
<1>4. PICK head : head = ResponseHead(code, 0, FALSE, NoRange)
  OBVIOUS
<1>5. head # NoHead
  BY <1>4 DEF ResponseHead, NoHead
<1>6. Moves(c, [Answered(k, head, ok) EXCEPT !.pc = "close"])
  BY <1>3, <1>4
<1>7. NothingServed(k.req, head)
  BY <1>2 DEF GenaMethods, SoapMethods, NothingServed
<1> QED
  BY <1>1, <1>2, <1>5, <1>6, <1>7, ClosedGoes

LEMMA SockDestroyGoes ==
  ASSUME AliasInv, AnswersInv, NEW c \in Conns, sock_destroy(c)
  PROVE  Goes(c)
<1>1. PICK n : n = [NoConn EXCEPT !.pc = "done", !.alias = conn[c].alias]
  OBVIOUS
<1>2. Moves(c, n)
  BY <1>1 DEF sock_destroy
<1>3. n.pc = "done" /\ n.heads = <<>> /\ n.body = 0 /\ n.cut = FALSE /\ n.asked = 0
  BY <1>1 DEF NoConn
<1>4. ConnInv(n)
  BY <1>3 DEF ConnInv, Unanswered, WebPlaces, SoapPlaces, Untouched
<1> QED
  BY <1>2, <1>4 DEF Goes

LEMMA WebChoosesSourceGoes ==
  ASSUME AliasInv, AnswersInv, NEW c \in Conns, WebChoosesSource(c)
  PROVE  Goes(c)
<1> DEFINE k == conn[c]
<1>1. DOMAIN k = DOMAIN NoConn /\ k.pc = "web" /\ ConnInv(k)
  BY DEF AliasInv, AliasTypeOK, AnswersInv, WebChoosesSource, AtStart
<1>2. Untouched(k) /\ k.asked = 0 /\ k.req \in HttpRequest /\ k.req.method \in Pages
  BY <1>1 DEF ConnInv, Unanswered, WebPlaces
<1>3. k.req.url \in {"path", "escapes", "relative"}
  BY <1>2 DEF HttpRequest
<1>4. ASSUME NEW code, code \in {400, 403}, NEW ok \in BOOLEAN,
             Moves(c, [Answered(k, StatusHead(code), ok) EXCEPT !.pc = "close"])
      PROVE  Goes(c)
  <2>1. PICK head : head = StatusHead(code)
    OBVIOUS
  <2>2. head # NoHead /\ head.code \notin {200, 206}
    BY <1>4, <2>1 DEF StatusHead, ResponseHead, NoHead
  <2>3. Moves(c, [Answered(k, head, ok) EXCEPT !.pc = "close"])
    BY <1>4, <2>1
  <2>4. NothingServed(k.req, head)
    BY <2>2 DEF NothingServed
  <2> QED
    BY <1>1, <1>2, <2>2, <2>3, <2>4, ClosedGoes
<1>5. CASE k.req.url = "escapes"
  <2>1. \E ok \in BOOLEAN : Moves(c, [Answered(k, StatusHead(403), ok) EXCEPT !.pc = "close"])
    BY <1>5 DEF WebChoosesSource
  <2> QED
    BY <1>4, <2>1
<1>6. CASE k.req.url = "relative"
  <2>1. \E ok \in BOOLEAN : Moves(c, [Answered(k, StatusHead(400), ok) EXCEPT !.pc = "close"])
    BY <1>6 DEF WebChoosesSource
  <2> QED
    BY <1>4, <2>1
<1>7. CASE k.req.url = "path"
  <2>1. PICK virtual : virtual = [k EXCEPT !.pc = "look", !.source = "virtual"]
    OBVIOUS
  <2>2. PICK grab : grab = [k EXCEPT !.pc = "grab"]
    OBVIOUS
  <2>3. PICK file : file = [k EXCEPT !.pc = "look", !.source = "file"]
    OBVIOUS
  <2>4. PICK n \in {virtual, grab, file} : Moves(c, n)
    BY <1>7, <2>1, <2>2, <2>3 DEF WebChoosesSource
  <2>5. /\ n.pc = "grab" \/ (n.pc = "look" /\ n.source \in {"virtual", "file"})
        /\ n.req = k.req /\ n.heads = k.heads /\ n.body = k.body /\ n.cut = k.cut /\ n.asked = k.asked
    BY <1>1, <2>1, <2>2, <2>3 DEF NoConn
  <2>6. ConnInv(n)
    BY <1>2, <1>7, <2>5 DEF ConnInv, Unanswered, WebPlaces, SoapPlaces, Untouched
  <2> QED
    BY <2>4, <2>6 DEF Goes
<1> QED
  BY <1>3, <1>5, <1>6, <1>7

LEMMA GrabGoes ==
  ASSUME AliasInv, AnswersInv, NEW c \in Conns, alias_grab(c)
  PROVE  Goes(c)
<1> DEFINE k == conn[c]
           source == IF k.req.path = AliasName THEN "alias" ELSE "file"
<1>1. DOMAIN k = DOMAIN NoConn /\ k.pc = "grab" /\ ConnInv(k)
  BY DEF AliasInv, AliasTypeOK, AnswersInv, alias_grab, AtStart
<1>2. PICK n : n = [k EXCEPT !.pc = "look", !.alias = gAliasDoc, !.source = source]
  OBVIOUS
<1>3. Moves(c, n)
  BY <1>2 DEF alias_grab
<1>4. /\ n.pc = "look" /\ n.source \in {"alias", "file"}
      /\ n.req = k.req /\ n.heads = k.heads /\ n.body = k.body /\ n.cut = k.cut /\ n.asked = k.asked
  BY <1>1, <1>2 DEF NoConn
<1>5. ConnInv(n)
  BY <1>1, <1>4 DEF ConnInv, Unanswered, WebPlaces, SoapPlaces, Untouched
<1> QED
  BY <1>3, <1>5 DEF Goes

LEMMA WebReceivesPostGoes ==
  ASSUME AliasInv, AnswersInv, NEW c \in Conns, WebReceivesPost(c)
  PROVE  Goes(c)
<1> DEFINE k == conn[c]
<1>1. DOMAIN k = DOMAIN NoConn /\ k.pc = "post" /\ ConnInv(k)
  BY DEF AliasInv, AliasTypeOK, AnswersInv, WebReceivesPost, AtStart
<1>2. Untouched(k) /\ k.asked = 0 /\ k.req \in HttpRequest /\ k.req.method = "POST"
  BY <1>1 DEF ConnInv, Unanswered, WebPlaces
<1>3. PICK code \in PostCodes(k), ok \in BOOLEAN :
        Moves(c, [Answered(k, ResponseHead(code, -1, FALSE, NoRange), ok) EXCEPT !.pc = "close"])
  BY DEF WebReceivesPost
<1>4. PICK head : head = ResponseHead(code, -1, FALSE, NoRange)
  OBVIOUS
<1>5. Moves(c, [Answered(k, head, ok) EXCEPT !.pc = "close"])
  BY <1>3, <1>4
<1>6. code \in {401, 500, 400, -1, 200}
  BY <1>3 DEF PostCodes, Broken, http_RecvPostMessage
<1>7. head # NoHead
  <2>1. head.code = code /\ NoHead.code = 0
    BY <1>4 DEF ResponseHead, NoHead
  <2> QED
    BY <1>6, <2>1
<1>8. NothingServed(k.req, head)
  BY <1>2 DEF SoapMethods, NothingServed
<1> QED
  BY <1>1, <1>2, <1>5, <1>7, <1>8, ClosedGoes

LEMMA WebPreparesGoes ==
  ASSUME AliasInv, AnswersInv, NEW c \in Conns, WebPrepares(c)
  PROVE  Goes(c)
<1> DEFINE k == conn[c]
<1>1. DOMAIN k = DOMAIN NoConn /\ k.pc = "look" /\ ConnInv(k)
  BY DEF AliasInv, AliasTypeOK, AnswersInv, WebPrepares, AtStart
<1>2. /\ Untouched(k) /\ k.asked = 0 /\ k.req \in HttpRequest /\ k.req.method \in Pages /\ k.req.url = "path"
      /\ k.source \in {"alias", "file", "virtual"}
  BY <1>1 DEF ConnInv, Unanswered, WebPlaces
<1>3. PICK garbage \in {-1, AliasLength}, ok \in BOOLEAN :
        LET p == Prepared(k.req, k.source, garbage)
        IN IF p.code # 200
           THEN /\ Usable(k.alias)
                /\ docs' = alias_release(docs, k.alias)
                /\ Moves(c, [Answered(k, StatusHead(p.code), ok) EXCEPT !.pc = "close", !.alias = NoDoc])
           ELSE /\ ok
                /\ docs' = docs
                /\ Moves(c, [k EXCEPT !.pc = p.pc, !.instr = p.instr, !.path = p.path, !.head = p.head,
                                      !.left = IF p.instr.size >= 0 THEN p.instr.size
                                               ELSE WEB_SERVER_BUF_SIZE])
  BY DEF WebPrepares
<1>4. PICK p : p = Prepared(k.req, k.source, garbage)
  OBVIOUS
<1>5. garbage \in Int
  BY BoundsAssumption
<1>6. PlanMade(p, k.req, k.source)
  BY <1>2, <1>4, <1>5, DocumentPlanned
<1>7. CASE p.code # 200
  <2>1. PICK head : head = StatusHead(p.code)
    OBVIOUS
  <2>2. head # NoHead /\ head.code = p.code
    BY <2>1 DEF StatusHead, ResponseHead, NoHead
  <2>3. NothingServed(k.req, head)
    BY <1>6, <1>7, <2>2 DEF PlanMade, NothingServed
  <2>4. PICK a : a = Answered(k, head, ok)
    OBVIOUS
  <2>5. PICK n : n = [a EXCEPT !.pc = "close", !.alias = NoDoc]
    OBVIOUS
  <2>6. Moves(c, n)
    BY <1>3, <1>4, <1>7, <2>1, <2>4, <2>5
  <2>7. DOMAIN a = DOMAIN NoConn
    BY <1>1, <2>4, AnsweredKeeps
  <2>8. /\ DOMAIN n = DOMAIN NoConn /\ n.pc = "close" /\ n.heads = a.heads /\ n.cut = a.cut
        /\ n.req = a.req /\ n.body = a.body /\ n.asked = a.asked
    BY <2>5, <2>7 DEF NoConn
  <2> QED
    BY <1>1, <1>2, <2>2, <2>3, <2>4, <2>6, <2>8, RefusalGoes
<1>8. CASE p.code = 200
  <2> DEFINE left == IF p.instr.size >= 0 THEN p.instr.size ELSE WEB_SERVER_BUF_SIZE
  <2>1. PICK n : n = [k EXCEPT !.pc = p.pc, !.instr = p.instr, !.path = p.path, !.head = p.head, !.left = left]
    OBVIOUS
  <2>2. Moves(c, n)
    BY <1>3, <1>4, <1>8, <2>1
  <2>3. /\ n.pc = p.pc /\ n.instr = p.instr /\ n.path = p.path /\ n.head = p.head /\ n.left = left
        /\ n.req = k.req /\ n.source = k.source
        /\ n.heads = k.heads /\ n.body = k.body /\ n.cut = k.cut /\ n.asked = k.asked
    BY <1>1, <2>1 DEF NoConn
  <2>4. n.left = IF n.instr.size >= 0 THEN n.instr.size ELSE WEB_SERVER_BUF_SIZE
    BY <2>3
  <2> HIDE DEF left
  <2>5. CASE k.req.method = "POST"
    <3>1. n.pc = "post"
      BY <1>6, <1>8, <2>3, <2>5 DEF PlanMade
    <3> QED
      BY <1>2, <2>2, <2>3, <2>5, <3>1 DEF Goes, ConnInv, Unanswered, WebPlaces, SoapPlaces, Untouched
  <2>6. CASE k.req.method # "POST"
    <3>1. n.pc = "head" /\ Planned(n)
      BY <1>6, <1>8, <2>3, <2>6 DEF PlanMade
    <3>2. ConnInv(n)
      BY <1>2, <2>3, <2>4, <3>1 DEF ConnInv, Unanswered, WebPlaces, SoapPlaces, Untouched
    <3> QED
      BY <2>2, <3>2 DEF Goes
  <2> QED
    BY <2>5, <2>6
<1> QED
  BY <1>7, <1>8

LEMMA PlanKept ==
  ASSUME NEW k, NEW n, Planned(k), n.req = k.req, n.source = k.source, n.path = k.path, n.instr = k.instr, n.head = k.head
  PROVE  Planned(n)
  BY DEF Planned, Found, Promised

\* The sending of a document has ended: with an error, with all of it, or with a last
\* chunk where the document did.
LEMMA EndFits ==
  ASSUME NEW n, n.pc = "close", n.req \in HttpRequest, n.req.url = "path", n.asked = 0, Planned(n), HeadIsOut(n),
         n.source # "alias", n.body \in Nat,
         \/ n.cut
         \/ n.instr.size >= 0 /\ n.body = n.instr.size
         \/ n.instr.chunk /\ n.lastChunk /\ (n.instr.size >= 0 => n.body <= n.instr.size)
  PROVE  ConnInv(n)
<1>1. n.req.method \in {"GET", "HEAD", "SIMPLEGET"} /\ n.req.method \notin SoapMethods
  BY DEF Planned, SoapMethods
<1>2. CASE n.req.method = "SIMPLEGET"
  <2>1. n.heads = <<>> /\ Len(n.heads) = 0
    BY <1>2, OneHead DEF HeadIsOut
  <2>2. BodyFits(n) /\ AnsweredOnce(n)
    BY <1>2, <2>1 DEF BodyFits, AnsweredOnce
  <2>3. Readable(n) /\ SoapFits(n)
    BY <1>1 DEF Readable, SoapFits, Planned, Found
  <2> QED
    BY <2>2, <2>3 DEF ConnInv, Fits, Unanswered, WebPlaces, SoapPlaces
<1>3. CASE n.req.method # "SIMPLEGET"
  <2>1. n.heads # <<>> /\ Len(n.heads) = 1 /\ HeadOf(n) = n.head
    BY <1>3, OneHead DEF HeadIsOut, HeadOf
  <2>2. AnsweredOnce(n)
    BY <2>1 DEF AnsweredOnce
  <2>3. Readable(n) /\ SoapFits(n)
    BY <1>1 DEF Readable, SoapFits, Planned, Found
  <2>4. ASSUME Served(n), PlainDocument(n)
        PROVE  /\ n.head.length >= 0 => n.body = n.head.length
               /\ n.head.range # NoRange =>
                    LET size == n.head.range[2] - n.head.range[1] + 1
                    IN /\ n.instr.offset = n.head.range[1]
                       /\ n.body <= size
                       /\ ~n.head.chunked => n.body = size
               /\ n.head.chunked /\ n.instr.size < 0 => n.lastChunk
    <3>1. Promised(n) /\ n.instr.size \in Int /\ n.instr.chunk \in BOOLEAN
      BY <1>3 DEF Planned
    <3>2. ~n.cut
      BY <2>4 DEF Served
    <3>3. n.req.range.kind = "bytes" => n.req.range.first >= 0 \/ n.instr.offset = 0
      BY <2>4 DEF PlainDocument
    <3>4. CASE n.instr.size >= 0 /\ n.body = n.instr.size
      BY <3>1, <3>3, <3>4 DEF Promised
    <3>5. CASE n.instr.chunk /\ n.lastChunk /\ (n.instr.size >= 0 => n.body <= n.instr.size)
      BY <3>1, <3>3, <3>5 DEF Promised
    <3> QED
      BY <3>2, <3>4, <3>5
  <2>5. BodyFits(n)
    BY <2>1, <2>4 DEF BodyFits
  <2> QED
    BY <2>2, <2>3, <2>5 DEF ConnInv, Fits, Unanswered, WebPlaces, SoapPlaces
<1> QED
  BY <1>2, <1>3

LEMMA WebSendsHeadGoes ==
  ASSUME AliasInv, AnswersInv, NEW c \in Conns, WebSendsHead(c)
  PROVE  Goes(c)
<1> DEFINE k == conn[c]
<1>1. DOMAIN k = DOMAIN NoConn /\ k.pc = "head" /\ ConnInv(k)
  BY DEF AliasInv, AliasTypeOK, AnswersInv, WebSendsHead, AtStart
<1>2. /\ k.heads = <<>> /\ ~k.cut /\ k.body = 0 /\ k.asked = 0 /\ k.req \in HttpRequest /\ k.req.method \in Pages
      /\ k.req.url = "path" /\ Planned(k)
      /\ k.left = IF k.instr.size >= 0 THEN k.instr.size ELSE WEB_SERVER_BUF_SIZE
  BY <1>1 DEF ConnInv, Unanswered, WebPlaces, Untouched
<1>3. PICK ok \in IF k.head = NoHead THEN {TRUE} ELSE BOOLEAN :
        Moves(c, [Answered(k, k.head, ok) EXCEPT
                    !.pc = CASE k.req.method = "HEAD" -> "close"
                             [] k.req.method # "HEAD" /\ k.source = "alias" -> IF ok THEN "doc" ELSE "release"
                             [] OTHER -> IF ok THEN "file" ELSE "close"])
  BY DEF WebSendsHead
<1>4. ok \in BOOLEAN /\ (k.head = NoHead => ok)
  BY <1>3
<1>5. PICK a : a = Answered(k, k.head, ok)
  OBVIOUS
<1>6. PICK pc : pc = CASE k.req.method = "HEAD" -> "close"
                       [] k.req.method # "HEAD" /\ k.source = "alias" -> IF ok THEN "doc" ELSE "release"
                       [] OTHER -> IF ok THEN "file" ELSE "close"
  OBVIOUS
<1>7. PICK n : n = [a EXCEPT !.pc = pc]
  OBVIOUS
<1>8. Moves(c, n)
  BY <1>3, <1>5, <1>6, <1>7
<1>9. /\ DOMAIN a = DOMAIN NoConn
      /\ ok /\ k.head # NoHead => a.heads = <<k.head>>
      /\ ~ok \/ k.head = NoHead => a.heads = <<>>
      /\ a.cut <=> ~ok
      /\ a.req = k.req /\ a.body = k.body /\ a.asked = k.asked /\ a.source = k.source /\ a.path = k.path
      /\ a.instr = k.instr /\ a.head = k.head /\ a.left = k.left
  BY <1>1, <1>2, <1>4, <1>5, AnsweredFields
<1>10. /\ n.pc = pc /\ n.heads = a.heads /\ n.cut = a.cut
       /\ n.req = k.req /\ n.body = 0 /\ n.asked = 0 /\ n.source = k.source /\ n.path = k.path
       /\ n.instr = k.instr /\ n.head = k.head /\ n.left = k.left
  BY <1>2, <1>7, <1>9 DEF NoConn
<1>11. Planned(n)
  BY <1>2, <1>10, PlanKept
<1>12. k.head = NoHead <=> k.req.method = "SIMPLEGET"
  BY <1>2 DEF Planned
<1>13. ok => HeadIsOut(n) /\ ~n.cut
  BY <1>9, <1>10, <1>12 DEF HeadIsOut
<1>14. ~ok => n.heads = <<>> /\ n.cut
  BY <1>9, <1>10
<1>15. CASE pc = "close"
  <2>1. k.req.method = "HEAD" \/ ~ok
    BY <1>6, <1>15
  <2>2. (n.heads = <<>> /\ n.cut) \/ (n.heads = <<k.head>> /\ k.req.method = "HEAD")
    BY <1>4, <1>9, <1>10, <1>12, <2>1
  <2>3. (n.heads = <<>> /\ n.cut) \/ (Len(n.heads) = 1 /\ n.heads # <<>> /\ k.req.method = "HEAD")
    BY <2>2, OneHead
  <2>4. BodyFits(n)
    BY <1>10, <2>3 DEF BodyFits, Served
  <2>5. AnsweredOnce(n)
    <3>1. CASE n.heads = <<>> /\ n.cut
      <4>1. Len(n.heads) = 0
        BY <3>1, OneHead
      <4> QED
        BY <3>1, <4>1 DEF AnsweredOnce
    <3>2. CASE Len(n.heads) = 1 /\ n.heads # <<>>
      BY <3>2 DEF AnsweredOnce
    <3> QED
      BY <2>3, <3>1, <3>2
  <2>6. n.req.method \notin SoapMethods
    BY <1>2, <1>10 DEF Pages, SoapMethods
  <2>7. Readable(n) /\ SoapFits(n)
    BY <1>10, <2>6 DEF Readable, SoapFits
  <2>8. ConnInv(n)
    BY <1>2, <1>10, <1>15, <2>4, <2>5, <2>7 DEF ConnInv, Fits, Unanswered, WebPlaces, SoapPlaces
  <2> QED
    BY <1>8, <2>8 DEF Goes
<1>16. CASE pc = "doc"
  <2>1. ok
    BY <1>6, <1>16
  <2>2. ConnInv(n)
    BY <1>2, <1>10, <1>11, <1>13, <1>16, <2>1 DEF ConnInv, Unanswered, WebPlaces, SoapPlaces
  <2> QED
    BY <1>8, <2>2 DEF Goes
<1>17. CASE pc = "release"
  <2>1. ~ok
    BY <1>6, <1>17
  <2>2. ConnInv(n)
    BY <1>2, <1>10, <1>11, <1>14, <1>17, <2>1 DEF ConnInv, Unanswered, WebPlaces, SoapPlaces
  <2> QED
    BY <1>8, <2>2 DEF Goes
<1>18. CASE pc = "file"
  <2>1. ok /\ k.source # "alias"
    BY <1>6, <1>18
  <2>2. n.left \in Nat /\ (n.instr.size >= 0 => n.left = n.instr.size) /\ (n.instr.size < 0 => n.left > 0)
    BY <1>2, <1>10, BoundsAssumption DEF Planned
  <2>3. Reading(n)
    BY <1>10, <1>11, <1>13, <2>1, <2>2 DEF Reading, Planned
  <2>4. ConnInv(n)
    BY <1>2, <1>10, <1>11, <1>18, <2>3 DEF ConnInv, Unanswered, WebPlaces, SoapPlaces
  <2> QED
    BY <1>8, <2>4 DEF Goes
<1> QED
  BY <1>4, <1>6, <1>15, <1>16, <1>17, <1>18

LEMMA WebSendsAliasGoes ==
  ASSUME AliasInv, AnswersInv, NEW c \in Conns, WebSendsAlias(c)
  PROVE  Goes(c)
<1> DEFINE k == conn[c]
<1>1. DOMAIN k = DOMAIN NoConn /\ k.pc = "doc" /\ ConnInv(k)
  BY DEF AliasInv, AliasTypeOK, AnswersInv, WebSendsAlias, AtStart
<1>2. PICK ok \in BOOLEAN :
        Moves(c, [k EXCEPT !.pc = "release", !.body = IF ok THEN AliasLength ELSE @, !.cut = ~ok])
  BY DEF WebSendsAlias
<1>3. PICK n : n = [k EXCEPT !.pc = "release", !.body = IF ok THEN AliasLength ELSE @, !.cut = ~ok]
  OBVIOUS
<1>4. Moves(c, n)
  BY <1>2, <1>3
<1>5. /\ n.pc = "release" /\ (n.cut <=> ~ok) /\ n.body = (IF ok THEN AliasLength ELSE k.body)
      /\ n.heads = k.heads /\ n.asked = k.asked
      /\ n.req = k.req /\ n.source = k.source /\ n.path = k.path /\ n.instr = k.instr /\ n.head = k.head
  BY <1>1, <1>3 DEF NoConn
<1>6. /\ HeadIsOut(k) /\ k.body = 0 /\ Planned(k) /\ k.req \in HttpRequest
      /\ k.req.method \in Pages /\ k.asked = 0 /\ k.req.url = "path"
  BY <1>1 DEF ConnInv, WebPlaces
<1>7. Planned(n)
  BY <1>5, <1>6, PlanKept
<1>8. HeadIsOut(n)
  BY <1>5, <1>6 DEF HeadIsOut
<1>9. (n.cut /\ n.body = 0) \/ (~n.cut /\ n.body = AliasLength)
  BY <1>5, <1>6
<1>10. ConnInv(n)
  BY <1>5, <1>6, <1>7, <1>8, <1>9 DEF ConnInv, Unanswered, WebPlaces, SoapPlaces
<1> QED
  BY <1>4, <1>10 DEF Goes

LEMMA WebReleasesAliasGoes ==
  ASSUME AliasInv, AnswersInv, NEW c \in Conns, WebReleasesAlias(c)
  PROVE  Goes(c)
<1> DEFINE k == conn[c]
<1>1. DOMAIN k = DOMAIN NoConn /\ k.pc = "release" /\ ConnInv(k) /\ k.source = "alias"
  BY DEF AliasInv, AliasTypeOK, HeldInv, AnswersInv, WebReleasesAlias, AtStart
<1>2. PICK n : n = [k EXCEPT !.pc = "close", !.alias = NoDoc]
  OBVIOUS
<1>3. Moves(c, n)
  BY <1>2 DEF WebReleasesAlias
<1>4. /\ n.pc = "close" /\ n.cut = k.cut /\ n.body = k.body /\ n.heads = k.heads /\ n.asked = k.asked
      /\ n.req = k.req /\ n.source = k.source /\ n.path = k.path /\ n.instr = k.instr /\ n.head = k.head
  BY <1>1, <1>2 DEF NoConn
<1>5. /\ \/ k.cut /\ k.body = 0 /\ k.heads = <<>>
         \/ k.cut /\ k.body = 0 /\ HeadIsOut(k)
         \/ ~k.cut /\ k.body = AliasLength /\ HeadIsOut(k)
      /\ Planned(k) /\ k.req \in HttpRequest
      /\ k.req.method \in Pages /\ k.asked = 0 /\ k.req.url = "path"
  BY <1>1 DEF ConnInv, WebPlaces
<1>6. n.req.method \notin SoapMethods
  BY <1>4, <1>5 DEF Pages, SoapMethods
<1>7. SoapFits(n) /\ Readable(n)
  BY <1>1, <1>4, <1>5, <1>6 DEF SoapFits, Readable
<1>8. CASE n.heads = <<>>
  <2>1. n.cut \/ n.req.method = "SIMPLEGET"
    BY <1>4, <1>5, <1>8, OneHead DEF HeadIsOut
  <2> QED
    BY <1>3, <1>4, <1>5, <1>7, <1>8, <2>1, OneHead
    DEF Goes, ConnInv, Fits, BodyFits, AnsweredOnce, Served, Unanswered, WebPlaces, SoapPlaces
<1>9. CASE n.heads # <<>>
  <2>1. n.heads = <<k.head>> /\ k.req.method # "SIMPLEGET"
    BY <1>4, <1>5, <1>9 DEF HeadIsOut
  <2>2. HeadOf(n) = k.head /\ Len(n.heads) = 1
    BY <2>1, OneHead DEF HeadOf
  <2>3. AnsweredOnce(n)
    BY <1>9, <2>2 DEF AnsweredOnce
  <2>4. Promised(k)
    BY <1>5, <2>1 DEF Planned
  <2>5. BodyFits(n)
    <3>1. SUFFICES ASSUME Served(n), PlainDocument(n)
                   PROVE  n.body = k.head.length /\ k.head.range = NoRange /\ ~k.head.chunked
      BY <2>2 DEF BodyFits
    <3>2. k.head.code = 200 /\ ~k.head.chunked
      BY <1>1, <1>4, <2>2, <3>1 DEF PlainDocument
    <3>3. n.body = AliasLength
      BY <1>4, <1>5, <3>1 DEF Served
    <3> QED
      BY <1>1, <2>4, <3>2, <3>3 DEF Promised
  <2>6. ConnInv(n)
    BY <1>4, <1>5, <1>7, <2>3, <2>5 DEF ConnInv, Fits, Unanswered, WebPlaces, SoapPlaces
  <2> QED
    BY <1>3, <2>6 DEF Goes
<1> QED
  BY <1>8, <1>9

LEMMA LeastOfTwo ==
  ASSUME NEW a \in Int, NEW b \in Int
  PROVE  Least(a, b) \in {a, b} /\ Least(a, b) <= a /\ Least(a, b) <= b
BY DEF Least

\* What is read of a file or handed over by the application is never more than is left.
LEMMA WebSendsPieceGoes ==
  ASSUME AliasInv, AnswersInv, NEW c \in Conns, WebSendsPiece(c)
  PROVE  Goes(c)
<1> DEFINE k == conn[c]
<1>1. DOMAIN k = DOMAIN NoConn /\ k.pc = "file" /\ ConnInv(k)
  BY DEF AliasInv, AliasTypeOK, AnswersInv, WebSendsPiece, AtStart
<1>2. /\ k.req \in HttpRequest /\ k.req.method \in Pages /\ k.asked = 0 /\ k.req.url = "path"
      /\ Planned(k) /\ Reading(k)
  BY <1>1 DEF ConnInv, WebPlaces
<1>3. CASE k.left = 0
  <2>1. PICK n : n = [k EXCEPT !.pc = "close"]
    OBVIOUS
  <2>2. Moves(c, n)
    BY <1>3, <2>1 DEF WebSendsPiece
  <2>3. /\ n.pc = "close" /\ n.cut = k.cut /\ n.body = k.body /\ n.heads = k.heads /\ n.asked = k.asked
        /\ n.req = k.req /\ n.source = k.source /\ n.path = k.path /\ n.instr = k.instr /\ n.head = k.head
    BY <1>1, <2>1 DEF NoConn
  <2>4. Planned(n) /\ HeadIsOut(n)
    BY <1>2, <2>3, PlanKept DEF HeadIsOut, Reading
  <2>5. n.instr.size >= 0 /\ n.body = n.instr.size
    BY <1>2, <1>3, <2>3 DEF Reading, Planned
  <2>6. ConnInv(n)
    BY <1>2, <2>3, <2>4, <2>5, EndFits DEF Reading
  <2> QED
    BY <2>2, <2>6 DEF Goes
<1>4. CASE k.left # 0
  <2> DEFINE i == k.instr
             buf == IF i.size >= 0 THEN Least(i.size, WEB_SERVER_BUF_SIZE) ELSE WEB_SERVER_BUF_SIZE
             most == Least(Least(k.left, buf), Available(k))
             pieces == IF i.virtual /\ most > 0 THEN 1..most ELSE {0, most}
  <2>1. PICK m \in pieces, ok \in BOOLEAN :
          \/ m = 0 /\ Moves(c, [k EXCEPT !.pc = "close", !.lastChunk = i.chunk /\ ok, !.cut = ~(i.chunk /\ ok)])
          \/ m # 0 /\ ok /\ Moves(c, [k EXCEPT !.body = @ + m, !.left = IF i.size < 0 THEN buf ELSE k.left - m])
          \/ m # 0 /\ ~ok /\ Moves(c, [k EXCEPT !.pc = "close", !.cut = TRUE])
    BY <1>4 DEF WebSendsPiece
  <2>2. i.size \in Int /\ k.left \in Nat /\ k.body \in Nat /\ i.chunk \in BOOLEAN
    BY <1>2 DEF Planned, Reading
  <2>3. buf \in Int /\ (i.size < 0 => buf = WEB_SERVER_BUF_SIZE)
    BY <2>2, BoundsAssumption, LeastOfTwo
  <2>4. Available(k) \in Nat
    <3>1. PICK info : info = IF k.source = "virtual" THEN VirtualFiles[k.path] ELSE Files[k.path]
      OBVIOUS
    <3>2. info.bytes \in Int /\ i.offset \in Int
      BY <1>2, <3>1 DEF Planned, Found, Reading
    <3>3. PICK rest \in Int : rest = info.bytes - i.offset - k.body
      BY <2>2, <3>2
    <3>4. Available(k) = IF rest > 0 THEN rest ELSE 0
      BY <3>1, <3>3 DEF Available
    <3> QED
      BY <3>4
  <2>5. most \in Int /\ most <= k.left
    <3>1. Least(k.left, buf) \in Int /\ Least(k.left, buf) <= k.left
      BY <2>2, <2>3, LeastOfTwo
    <3>2. most \in Int /\ most <= Least(k.left, buf)
      BY <2>4, <3>1, LeastOfTwo
    <3> QED
      BY <2>2, <3>1, <3>2
  <2>6. m \in Int /\ m <= k.left /\ (m # 0 => m \in Nat \/ m = most)
    BY <2>1, <2>2, <2>5
  <2>7. m \in Nat
    <3>1. Least(k.left, buf) >= 0
      BY <1>2, <2>2, BoundsAssumption DEF Least
    <3>2. most >= 0
      BY <2>4, <2>2, <2>3, <3>1, LeastOfTwo
    <3> QED
      BY <2>5, <2>6, <3>2
  <2> HIDE DEF buf, most, pieces
  <2>8. CASE m = 0
    <3>1. PICK n : n = [k EXCEPT !.pc = "close", !.lastChunk = i.chunk /\ ok, !.cut = ~(i.chunk /\ ok)]
      OBVIOUS
    <3>2. Moves(c, n)
      BY <2>1, <2>8, <3>1
    <3>3. /\ n.pc = "close" /\ n.body = k.body /\ n.heads = k.heads /\ n.asked = k.asked
          /\ n.req = k.req /\ n.source = k.source /\ n.path = k.path /\ n.instr = k.instr /\ n.head = k.head
      BY <1>1, <3>1 DEF NoConn
    <3>4. n.lastChunk = (i.chunk /\ ok) /\ n.cut = ~(i.chunk /\ ok)
      BY <1>1, <3>1 DEF NoConn
    <3>5. n.cut \/ (n.instr.chunk /\ n.lastChunk)
      BY <3>3, <3>4
    <3>6. Planned(n) /\ HeadIsOut(n)
      BY <1>2, <3>3, PlanKept DEF HeadIsOut, Reading
    <3>7. n.instr.size >= 0 => n.body <= n.instr.size
      BY <1>2, <2>2, <3>3 DEF Reading
    <3>8. n.source # "alias" /\ n.body \in Nat
      BY <1>2, <3>3 DEF Reading
    <3>9. ConnInv(n)
      BY <1>2, <3>3, <3>5, <3>6, <3>7, <3>8, EndFits
    <3> QED
      BY <3>2, <3>9 DEF Goes
  <2>9. CASE m # 0 /\ ok
    <3>1. PICK n : n = [k EXCEPT !.body = @ + m, !.left = IF i.size < 0 THEN buf ELSE k.left - m]
      OBVIOUS
    <3>2. Moves(c, n)
      BY <2>1, <2>9, <3>1
    <3>3. /\ n.pc = "file" /\ n.body = k.body + m /\ n.left = (IF i.size < 0 THEN buf ELSE k.left - m)
          /\ n.heads = k.heads /\ n.asked = k.asked /\ n.cut = k.cut
          /\ n.req = k.req /\ n.source = k.source /\ n.path = k.path /\ n.instr = k.instr /\ n.head = k.head
      BY <1>1, <3>1 DEF NoConn
    <3>4. Planned(n) /\ HeadIsOut(n) /\ n.source # "alias" /\ ~n.cut
      BY <1>2, <3>3, PlanKept DEF HeadIsOut, Reading
    <3>5. n.body \in Nat /\ n.left \in Nat /\ (i.size >= 0 => n.body + n.left = i.size) /\ (i.size < 0 => n.left > 0)
      BY <1>2, <2>2, <2>3, <2>6, <2>7, <3>3, BoundsAssumption DEF Reading
    <3>6. Reading(n)
      BY <3>3, <3>4, <3>5 DEF Reading
    <3>7. ConnInv(n)
      BY <1>2, <3>3, <3>4, <3>6 DEF ConnInv, Unanswered, WebPlaces, SoapPlaces
    <3> QED
      BY <3>2, <3>7 DEF Goes
  <2>10. CASE m # 0 /\ ~ok
    <3>1. PICK n : n = [k EXCEPT !.pc = "close", !.cut = TRUE]
      OBVIOUS
    <3>2. Moves(c, n)
      BY <2>1, <2>10, <3>1
    <3>3. /\ n.pc = "close" /\ n.cut = TRUE /\ n.body = k.body /\ n.heads = k.heads /\ n.asked = k.asked
          /\ n.req = k.req /\ n.source = k.source /\ n.path = k.path /\ n.instr = k.instr /\ n.head = k.head
      BY <1>1, <3>1 DEF NoConn
    <3>4. Planned(n) /\ HeadIsOut(n) /\ n.source # "alias" /\ n.body \in Nat
      BY <1>2, <3>3, PlanKept DEF HeadIsOut, Reading
    <3>5. ConnInv(n)
      BY <1>2, <3>3, <3>4, EndFits
    <3> QED
      BY <3>2, <3>5 DEF Goes
  <2> QED
    BY <2>1, <2>8, <2>9, <2>10
<1> QED
  BY <1>3, <1>4

\* The error of a SOAP request that the application was not asked about.
LEMMA SoapRefusalGoes ==
  ASSUME AliasInv, AnswersInv, NEW c \in Conns, AtStart(c, "soap"), NEW answer, ~answer.ok, Answers(c, answer)
  PROVE  Goes(c)
<1> DEFINE k == conn[c]
<1>1. DOMAIN k = DOMAIN NoConn /\ k.pc = "soap" /\ ConnInv(k)
  BY DEF AliasInv, AliasTypeOK, AnswersInv, AtStart
<1>2. Untouched(k) /\ k.asked = 0 /\ k.req \in HttpRequest /\ k.req.method \in SoapMethods
  BY <1>1 DEF ConnInv, Unanswered, SoapPlaces
<1>3. PICK ok \in BOOLEAN : Moves(c, [Answered(k, SoapHead(answer), ok) EXCEPT !.pc = "close", !.error = answer.error])
  BY DEF Answers
<1>4. PICK head : head = SoapHead(answer)
  OBVIOUS
<1>5. head # NoHead /\ head.code = 500
  BY <1>4 DEF SoapHead, ResponseHead, NoHead
<1>6. NothingServed(k.req, head)
  BY <1>5 DEF NothingServed
<1>7. PICK a : a = Answered(k, head, ok)
  OBVIOUS
<1>8. PICK n : n = [a EXCEPT !.pc = "close", !.error = answer.error]
  OBVIOUS
<1>9. Moves(c, n)
  BY <1>3, <1>4, <1>7, <1>8
<1>10. DOMAIN a = DOMAIN NoConn
  BY <1>1, <1>7, AnsweredKeeps
<1>11. /\ DOMAIN n = DOMAIN NoConn /\ n.pc = "close" /\ n.heads = a.heads /\ n.cut = a.cut
       /\ n.req = a.req /\ n.body = a.body /\ n.asked = a.asked
  BY <1>8, <1>10 DEF NoConn
<1> QED
  BY <1>1, <1>2, <1>5, <1>6, <1>7, <1>9, <1>11, RefusalGoes

LEMMA FailureFails ==
  ASSUME NEW error
  PROVE  Failure(error).ok = FALSE /\ Failure(error).error = error
BY DEF Failure

\* The application is only asked when the header, the body and the path agree.
LEMMA FoundAgrees ==
  ASSUME NEW req, NEW query, get_device_info(req, query) = 0
  PROVE  Agreed(req)
<1>1. deviceRegistered /\ req.path \in DOMAIN Services
  BY DEF get_device_info
<1>2. PICK urn : urn = IF query THEN QUERY_STATE_VAR_URN ELSE Services[req.path]
  OBVIOUS
<1>3. check_soap_action_header(req, urn) /\ check_soap_body(req, urn)
  BY <1>1, <1>2 DEF get_device_info, UPNP_E_INVALID_ACTION, UPNP_E_INVALID_SERVICE
<1> QED
  BY <1>1, <1>3 DEF Agreed, check_soap_action_header, check_soap_body

LEMMA SoapFindsGoes ==
  ASSUME AliasInv, AnswersInv, NEW c \in Conns, SoapFinds(c)
  PROVE  Goes(c)
<1> DEFINE k == conn[c]
           req == k.req
           type == get_request_type(req)
           found == get_device_info(req, type = "query")
<1>1. DOMAIN k = DOMAIN NoConn /\ k.pc = "soap" /\ ConnInv(k) /\ AtStart(c, "soap")
  BY DEF AliasInv, AliasTypeOK, AnswersInv, SoapFinds, AtStart
<1>2. Untouched(k) /\ k.asked = 0 /\ k.req \in HttpRequest /\ k.req.method \in SoapMethods
  BY <1>1 DEF ConnInv, Unanswered, SoapPlaces
<1>3. type \in {"none", "query", "action"}
  BY DEF get_request_type
<1>4. CASE \E error : Answers(c, Failure(error))
  BY <1>1, <1>4, SoapRefusalGoes, FailureFails
<1>5. CASE /\ type # "none" /\ found = 0
           /\ Moves(c, [k EXCEPT !.pc = "soapCall", !.source = type])
  <2>1. PICK n : n = [k EXCEPT !.pc = "soapCall", !.source = type]
    OBVIOUS
  <2>2. Moves(c, n)
    BY <1>5, <2>1
  <2>3. /\ n.pc = "soapCall" /\ n.source = type
        /\ n.req = k.req /\ n.heads = k.heads /\ n.body = k.body /\ n.cut = k.cut /\ n.asked = k.asked
    BY <1>1, <2>1 DEF NoConn
  <2>4. Agreed(k.req)
    BY <1>5, FoundAgrees
  <2>5. type \in {"query", "action"}
    BY <1>3, <1>5
  <2> HIDE DEF type, found
  <2>6. ConnInv(n)
    BY <1>2, <2>3, <2>4, <2>5 DEF ConnInv, Unanswered, WebPlaces, SoapPlaces, Untouched
  <2> QED
    BY <2>2, <2>6 DEF Goes
<1>6. \/ \E error : Answers(c, Failure(error))
      \/ /\ type # "none" /\ found = 0
         /\ Moves(c, [k EXCEPT !.pc = "soapCall", !.source = type])
  <2>1. /\ AtStart(c, "soap") /\ app # "publish"
        /\ CASE ~req.xml \/ type = "none" -> Answers(c, Failure(SOAP_INVALID_ACTION))
             [] req.xml /\ type # "none" /\ req.body.shape = "notXml" -> Answers(c, Failure(SOAP_ACTION_FAILED))
             [] req.xml /\ req.body.shape # "notXml" /\ type = "query" /\ (~get_var_name(req) \/ found # 0) ->
                  Answers(c, Failure(SOAP_INVALID_VAR))
             [] req.xml /\ req.body.shape # "notXml" /\ type = "action" /\ ~get_action_node(req) ->
                  Answers(c, Failure(SOAP_INVALID_ACTION))
             [] req.xml /\ req.body.shape # "notXml" /\ type = "action" /\ get_action_node(req) /\ found # 0 ->
                  Answers(c, Failure(found))
             [] OTHER -> Moves(c, [conn[c] EXCEPT !.pc = "soapCall", !.source = type])
        /\ UNCHANGED SoapVars
    BY Zenon DEF SoapFinds
  <2> HIDE DEF type, found
  <2> QED
    BY <1>3, <2>1
<1> QED
  BY <1>4, <1>5, <1>6

LEMMA SoapCallbackGoes ==
  ASSUME AliasInv, AnswersInv, NEW c \in Conns, SoapCallback(c)
  PROVE  Goes(c)
<1> DEFINE k == conn[c]
<1>1. DOMAIN k = DOMAIN NoConn /\ k.pc = "soapCall" /\ ConnInv(k)
  BY DEF AliasInv, AliasTypeOK, AnswersInv, SoapCallback, AtStart
<1>2. /\ Untouched(k) /\ k.asked = 0 /\ k.req \in HttpRequest /\ k.req.method \in SoapMethods
      /\ Agreed(k.req) /\ k.source \in {"query", "action"}
  BY <1>1 DEF ConnInv, Unanswered, SoapPlaces
<1>3. PICK v \in Verdicts : Moves(c, [k EXCEPT !.pc = "soapAnswer", !.asked = @ + 1, !.verdict = v])
  BY DEF SoapCallback
<1>4. PICK n : n = [k EXCEPT !.pc = "soapAnswer", !.asked = @ + 1, !.verdict = v]
  OBVIOUS
<1>5. /\ n.pc = "soapAnswer" /\ n.asked = k.asked + 1 /\ n.verdict = v
      /\ n.req = k.req /\ n.source = k.source /\ n.heads = k.heads /\ n.body = k.body /\ n.cut = k.cut
  BY <1>1, <1>4 DEF NoConn
<1>6. ConnInv(n)
  BY <1>2, <1>5 DEF ConnInv, Unanswered, WebPlaces, SoapPlaces, Untouched
<1> QED
  BY <1>3, <1>4, <1>6 DEF Goes

\* Success means a result and no error, and the error is the application's own if it has a
\* text, for an action.
LEMMA VerdictDecides ==
  ASSUME NEW v \in Verdicts
  PROVE  /\ ActionAnswer(v).ok <=> v.result /\ v.ErrCode = 0
         /\ v.ErrCode # 0 /\ v.ErrStr => ActionAnswer(v).error = v.ErrCode
         /\ QueryAnswer(v).ok <=> v.result /\ v.ErrCode = 0
<1>1. v.ErrStr \in BOOLEAN /\ v.result \in BOOLEAN
  BY RequestAssumption
<1>2. CASE v.ErrCode # 0
  <2>1. ActionAnswer(v) = IF v.ErrStr THEN Failure(v.ErrCode) ELSE Failure(SOAP_ACTION_FAILED)
    BY <1>1, <1>2 DEF ActionAnswer
  <2>2. \E error : QueryAnswer(v) = Failure(error)
    BY <1>1, <1>2 DEF QueryAnswer
  <2> QED
    BY <1>2, <2>1, <2>2, FailureFails
<1>3. CASE v.ErrCode = 0 /\ v.result
  <2>1. ActionAnswer(v) = Good /\ QueryAnswer(v) = Good
    BY <1>3 DEF ActionAnswer, QueryAnswer
  <2> QED
    BY <1>3, <2>1 DEF Good
<1>4. CASE v.ErrCode = 0 /\ ~v.result
  <2>1. ActionAnswer(v) = Failure(SOAP_ACTION_FAILED) /\ QueryAnswer(v) = Failure(SOAP_INVALID_VAR)
    BY <1>4 DEF ActionAnswer, QueryAnswer
  <2> QED
    BY <1>4, <2>1, FailureFails
<1> QED
  BY <1>2, <1>3, <1>4

LEMMA SoapAnswersGoes ==
  ASSUME AliasInv, AnswersInv, NEW c \in Conns, SoapAnswers(c)
  PROVE  Goes(c)
<1> DEFINE k == conn[c]
<1>1. DOMAIN k = DOMAIN NoConn /\ k.pc = "soapAnswer" /\ ConnInv(k)
  BY DEF AliasInv, AliasTypeOK, AnswersInv, SoapAnswers, AtStart
<1>2. /\ k.heads = <<>> /\ ~k.cut /\ k.body = 0 /\ k.asked = 1 /\ k.req \in HttpRequest /\ k.req.method \in SoapMethods
      /\ Agreed(k.req) /\ k.source \in {"query", "action"} /\ k.verdict \in Verdicts
  BY <1>1 DEF ConnInv, SoapPlaces, Untouched
<1>3. PICK answer : answer = IF k.source = "query" THEN QueryAnswer(k.verdict) ELSE ActionAnswer(k.verdict)
  OBVIOUS
<1>4. PICK ok \in BOOLEAN : Moves(c, [Answered(k, SoapHead(answer), ok) EXCEPT !.pc = "close", !.error = answer.error])
  BY <1>3 DEF SoapAnswers, Answers
<1>5. PICK head : head = SoapHead(answer)
  OBVIOUS
<1>6. head # NoHead /\ (head.code = 200 <=> answer.ok)
  BY <1>5 DEF SoapHead, ResponseHead, NoHead
<1>7. PICK a : a = Answered(k, head, ok)
  OBVIOUS
<1>8. PICK n : n = [a EXCEPT !.pc = "close", !.error = answer.error]
  OBVIOUS
<1>9. Moves(c, n)
  BY <1>4, <1>5, <1>7, <1>8
<1>10. /\ DOMAIN a = DOMAIN NoConn
       /\ ok => a.heads = <<head>>
       /\ ~ok => a.heads = <<>>
       /\ a.cut <=> ~ok
       /\ a.req = k.req /\ a.body = k.body /\ a.asked = k.asked /\ a.source = k.source /\ a.verdict = k.verdict
  BY <1>1, <1>2, <1>6, <1>7, AnsweredFields
<1>11. /\ n.pc = "close" /\ n.heads = a.heads /\ n.cut = a.cut /\ n.error = answer.error
       /\ n.req = k.req /\ n.body = 0 /\ n.asked = 1 /\ n.source = k.source /\ n.verdict = k.verdict
  BY <1>2, <1>8, <1>10 DEF NoConn
<1>12. n.req.method \notin {"GET", "HEAD"}
  BY <1>2, <1>11 DEF SoapMethods
<1>13. AnsweredOnce(n)
  <2>1. CASE ok
    <3>1. Len(n.heads) = 1 /\ n.heads # <<>>
      BY <1>10, <1>11, <2>1, OneHead, ZenonT(30)
    <3> QED
      BY <3>1 DEF AnsweredOnce
  <2>2. CASE ~ok
    <3>1. Len(n.heads) = 0 /\ n.cut
      BY <1>10, <1>11, <2>2, OneHead
    <3> QED
      BY <3>1 DEF AnsweredOnce
  <2> QED
    BY <2>1, <2>2
<1>14. SoapFits(n)
  <2>1. Served(n) => HeadOf(n) = head
    BY <1>10, <1>11, OneHead DEF Served, HeadOf
  <2>2. answer.ok <=> k.verdict.result /\ k.verdict.ErrCode = 0
    BY <1>2, <1>3, VerdictDecides
  <2>3. k.source = "action" /\ k.verdict.ErrCode # 0 /\ k.verdict.ErrStr => answer.error = k.verdict.ErrCode
    BY <1>2, <1>3, VerdictDecides
  <2> QED
    BY <1>2, <1>6, <1>11, <2>1, <2>2, <2>3 DEF SoapFits, Agreed
<1>15. BodyFits(n) /\ Readable(n)
  BY <1>11, <1>12 DEF BodyFits, Readable
<1>16. ConnInv(n)
  BY <1>2, <1>11, <1>13, <1>14, <1>15 DEF ConnInv, Fits, Unanswered, WebPlaces, SoapPlaces
<1> QED
  BY <1>9, <1>16 DEF Goes

LEMMA InitAnswers == Init => AnswersInv
<1> SUFFICES ASSUME Init, NEW c \in Conns PROVE ConnInv(conn[c])
  BY DEF AnswersInv
<1>1. conn[c].pc = "idle" /\ conn[c].heads = <<>> /\ conn[c].body = 0 /\ conn[c].cut = FALSE /\ conn[c].asked = 0
  BY DEF Init, NoConn
<1> QED
  BY <1>1 DEF ConnInv, Unanswered, WebPlaces, SoapPlaces, Untouched

\* A connection keeps what it has been promised, whatever the others and the application do.
LEMMA NextAnswers == AliasInv /\ AnswersInv /\ [Next]_vars => AnswersInv'
<1> SUFFICES ASSUME AliasInv, AnswersInv, [Next]_vars PROVE AnswersInv'
  OBVIOUS
<1>1. CASE conn' = conn
  BY <1>1 DEF AnswersInv
<1>2. ASSUME NEW c \in Conns, Goes(c) PROVE AnswersInv'
  <2>1. PICK n : conn' = [conn EXCEPT ![c] = n] /\ ConnInv(n)
    BY <1>2 DEF Goes, Moves
  <2>2. \A x \in Conns : conn'[x] = IF x = c THEN n ELSE conn[x]
    BY <2>1 DEF AliasInv, AliasTypeOK
  <2>3. \A x \in Conns : ConnInv(conn'[x])
    BY <2>1, <2>2 DEF AnswersInv
  <2> QED
    BY <2>3 DEF AnswersInv
<1>3. ASSUME NEW c \in Conns, WebStep(c) PROVE Goes(c)
  BY <1>3, WebChoosesSourceGoes, GrabGoes, WebPreparesGoes, WebSendsHeadGoes, WebSendsAliasGoes, WebReleasesAliasGoes,
     WebSendsPieceGoes, WebReceivesPostGoes DEF WebStep
<1>4. ASSUME NEW c \in Conns, SoapStep(c) PROVE Goes(c)
  BY <1>4, SoapFindsGoes, SoapCallbackGoes, SoapAnswersGoes DEF SoapStep
<1>5. ASSUME NEW c \in Conns, web_server_accept(c) \/ ConnStep(c) \/ PeerFallsSilent(c) PROVE AnswersInv'
  <2>1. CASE RequestCrashes(c)
    BY <1>1, <2>1 DEF RequestCrashes, Crash
  <2>2. CASE ConnActs(c)
    BY <1>2, <1>3, <1>4, <2>1, <2>2, ReceiveFailsGoes, HandleRequestGoes, GenaGoes, SockDestroyGoes DEF ConnActs
  <2>3. CASE web_server_accept(c)
    BY <1>2, <2>3, AcceptGoes
  <2>4. CASE ReceivesPart(c) \/ PeerFallsSilent(c)
    BY <1>1, <2>4, OnlyPeers DEF webVars
  <2> QED
    BY <1>5, <2>2, <2>3, <2>4 DEF ConnStep
<1>6. CASE Registers
  <2>1. conn' = conn
    BY <1>6 DEF Registers, RegistrationBegins, RegistrationEnds, Unregisters, web_server_set_alias, PublishAlias, WithdrawAlias
  <2> QED
    BY <1>1, <2>1
<1>7. CASE AppStep
  <2>1. conn' = conn
    BY <1>7 DEF AppStep, web_server_init, web_server_destroy, DisableWebserver, web_server_set_root_dir, UpnpAddVirtualDir,
       UpnpRemoveVirtualDir, UpnpRemoveAllVirtualDirs, SetVirtualDirs, ReleaseOfFreed, Crash
  <2> QED
    BY <1>1, <2>1
<1>8. CASE UNCHANGED vars
  BY <1>1, <1>8 DEF vars, webVars
<1> QED
  BY <1>5, <1>6, <1>7, <1>8 DEF Next

\* What a client gets is what it was promised: the body that the head announces, one
\* answer, only documents that may be read, and of a SOAP request what the application
\* decided (process_request, http_SendMessage, soap_device_callback), for any number of
\* connections, any requests, documents and verdicts.
THEOREM SpecAnswersFit == Spec => []AnswersFit
<1>1. Init => AnswersInv
  BY InitAnswers
<1>2. AliasInv /\ AnswersInv /\ [Next]_vars => AnswersInv'
  BY NextAnswers
<1>3. AnswersInv => AnswersFit
  BY InvFits DEF AnswersInv, AnswersFit, Fits, BodyFitsHead, OneAnswer, OnlyReadableServed, SoapAnswersFit
<1> QED
  BY <1>1, <1>2, <1>3, SpecAliasInv, PTL DEF Spec
=============================================================================
