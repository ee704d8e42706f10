--------------------- MODULE InterviewCompletion_proofs ---------------------
(***************************************************************************)
(* Theorems about InterviewCompletion, for any number of studies, links,    *)
(* sessions and requests, every lifetime and limit, and every set of events *)
(* at once.                                                                 *)
(***************************************************************************)
EXTENDS InterviewCompletion, FiniteSetTheorems, TLAPS

-----------------------------------------------------------------------------
(* Types.                                                                  *)

\* A window starts at or before the times in it, and they end before the next.
LEMMA WindowStartIs ==
  ASSUME NEW c \in Scope, NEW t \in Nat
  PROVE  WindowStart(c, t) \in Nat /\ WindowStart(c, t) <= t /\ t < WindowStart(c, t) + Window[c]
<1> DEFINE w == Window[c]
<1>1. w \in Nat \ {0}
  BY CollectionAssumption
<1> HIDE DEF w
<1>2. t % w \in 0..(w - 1) /\ t % w <= t
  BY <1>1
<1>3. t - (t % w) \in Nat /\ t - (t % w) <= t /\ t < t - (t % w) + w
  BY <1>1, <1>2
<1> QED BY <1>3 DEF WindowStart, w

\* A created study and its receipt have their types.
LEMMA CreateStudyType ==
  ASSUME TypeOK, NEW k \in Key, NEW st \in Study, CreateStudy(k, st)
  PROVE  TypeOK'
<1>1. [revision |-> 1, links |-> "unset", count |-> 0] \in StudyRow
  BY CollectionAssumption DEF StudyRow, Revision, Access
<1>2. [study |-> st, disposition |-> "created", expires |-> now + ReceiptTTL] \in ReceiptRow
  BY CollectionAssumption DEF TypeOK, Time, ReceiptRow
<1>3. [key |-> k, at |-> now] \in [key : Maybe(Key), at : Time]
  BY DEF TypeOK, Maybe
<1>4. /\ study' \in [Study -> Maybe(StudyRow)] /\ receipt' \in [Key -> Maybe(ReceiptRow)]
      /\ made' \in [Study -> Maybe([key : Maybe(Key), at : Time])]
  BY <1>1, <1>2, <1>3 DEF TypeOK, CreateStudy, Maybe
<1> QED BY <1>4 DEF TypeOK, CreateStudy, calls, linkIds

\* The steps of an edit keep the types; a replaced configuration stays within the revisions.
LEMMA EditType ==
  ASSUME TypeOK, NEW e \in Editor,
         (\E st \in Study, confirmed \in BOOLEAN : OpenEdit(e, st, confirmed)) \/ DropEdit(e)
         \/ ReplaceStudyConfig(e)
  PROVE  TypeOK'
<1>1. ASSUME NEW st \in Study, NEW confirmed \in BOOLEAN, OpenEdit(e, st, confirmed) PROVE TypeOK'
  <2>1. [study |-> st, revision |-> study[st].revision, confirmed |-> confirmed] \in EditRow
    BY <1>1 DEF OpenEdit, TypeOK, Maybe, StudyRow, EditRow
  <2>2. edit' \in [Editor -> Maybe(EditRow)]
    BY <1>1, <2>1 DEF TypeOK, OpenEdit, Maybe
  <2> QED BY <1>1, <2>2 DEF TypeOK, OpenEdit, rows, linkIds
<1>2. CASE DropEdit(e)
  <2>1. edit' \in [Editor -> Maybe(EditRow)]
    BY <1>2 DEF TypeOK, DropEdit, Maybe
  <2> QED BY <1>2, <2>1 DEF TypeOK, DropEdit, rows, linkIds
<1>3. CASE ReplaceStudyConfig(e)
  <2> DEFINE st == edit[e].study
             row == [study[st] EXCEPT !.revision = @ + 1]
  <2>1. st \in Study
    BY <1>3 DEF ReplaceStudyConfig, TypeOK, Maybe, EditRow
  <2>2. study[st] \in StudyRow /\ study[st].revision < MaxRevision
    BY <1>3, <2>1 DEF ReplaceStudyConfig, TypeOK, Maybe
  <2>3. row \in StudyRow
    BY <2>2, CollectionAssumption DEF StudyRow, Revision
  <2>4. study' = [study EXCEPT ![st] = row] /\ edit' = [edit EXCEPT ![e] = None]
    BY <1>3 DEF ReplaceStudyConfig
  <2> HIDE DEF row
  <2>5. study' \in [Study -> Maybe(StudyRow)] /\ edit' \in [Editor -> Maybe(EditRow)]
    BY <2>1, <2>3, <2>4 DEF TypeOK, Maybe
  <2> QED BY <1>3, <2>5 DEF TypeOK, ReplaceStudyConfig, linkIds
<1> QED BY <1>1, <1>2, <1>3

\* Opening or closing the links of a study keeps the types.
LEMMA PauseType ==
  ASSUME TypeOK, NEW st \in Study, NEW access \in {"on", "off"}, SetStudyLinksEnabled(st, access)
  PROVE  TypeOK'
<1> DEFINE row == [study[st] EXCEPT !.links = access]
<1>1. study[st] \in StudyRow
  BY DEF SetStudyLinksEnabled, TypeOK, Maybe
<1>2. row \in StudyRow
  BY <1>1 DEF StudyRow, Access
<1>3. study' = [study EXCEPT ![st] = row]
  BY DEF SetStudyLinksEnabled
<1> HIDE DEF row
<1>4. study' \in [Study -> Maybe(StudyRow)]
  BY <1>2, <1>3 DEF TypeOK, Maybe
<1> QED BY <1>4 DEF TypeOK, SetStudyLinksEnabled, calls, linkIds

\* Deleting a study with all its rows keeps the types.
LEMMA DeleteType ==
  ASSUME TypeOK, NEW st \in Study, NEW confirmed \in BOOLEAN, DeleteStudy(st, confirmed)
  PROVE  TypeOK'
<1>1. study' \in [Study -> Maybe(StudyRow)]
  BY DEF DeleteStudy, TypeOK, Maybe
<1>2. interview' \in [Session -> Maybe(InterviewRow)]
  BY DEF DeleteStudy, TypeOK, Maybe
<1>3. fence' \in [Study \cup Session -> Nat]
  BY CollectionAssumption DEF DeleteStudy, TypeOK, Time
<1>4. link' \in [Link -> Maybe(LinkRow)] /\ consent' \in [Session -> Maybe(ConsentRow)]
  BY DEF DeleteStudy, TypeOK, Maybe
<1>5. member' \subseteq [scope : Scope, study : Study, start : Time, session : Session]
  BY DEF DeleteStudy, TypeOK
<1>6. receipt' \in [Key -> Maybe(ReceiptRow)]
  <2>1. ASSUME NEW k \in Key, receipt[k] # None
        PROVE  [receipt[k] EXCEPT !.disposition = "deleted"] \in ReceiptRow
    BY <2>1 DEF TypeOK, Maybe, ReceiptRow
  <2>2. \A k \in Key : receipt[k] \in Maybe(ReceiptRow)
    BY DEF TypeOK
  <2>3. receipt' = [k \in Key |-> IF receipt[k] # None /\ receipt[k].study = st
                               THEN [receipt[k] EXCEPT !.disposition = "deleted"] ELSE receipt[k]]
    BY DEF DeleteStudy
  <2>4. ASSUME NEW k \in Key PROVE receipt'[k] \in Maybe(ReceiptRow)
    BY <2>1, <2>2, <2>3 DEF Maybe
  <2> QED BY <2>3, <2>4
<1> QED BY <1>1, <1>2, <1>3, <1>4, <1>5, <1>6 DEF TypeOK, DeleteStudy, calls, linkIds

\* Minting, creating and revoking a link keep the types.
LEMMA LinkType ==
  ASSUME TypeOK, NEW l \in Link,
         \/ \E st \in Study, expires \in {None, now + LinkTTL} : MintLink(l, st, expires)
         \/ \E created \in BOOLEAN : CreateParticipantLink(l, created)
         \/ RevokeParticipantLink(l)
  PROVE  TypeOK'
<1>1. ASSUME NEW st \in Study, NEW expires \in {None, now + LinkTTL}, MintLink(l, st, expires) PROVE TypeOK'
  <2> DEFINE call == [study |-> st, revision |-> study[st].revision, at |-> now, expires |-> expires]
  <2>1. study[st] \in StudyRow
    BY <1>1 DEF MintLink, Enabled, TypeOK, Maybe
  <2>2. call \in LinkCall
    BY <2>1, CollectionAssumption DEF StudyRow, LinkCall, TypeOK, Time, Maybe
  <2>3. linkCall' = [linkCall EXCEPT ![l] = call] /\ minted' = minted \cup {l}
    BY <1>1 DEF MintLink
  <2> HIDE DEF call
  <2>4. linkCall' \in [Link -> Maybe(LinkCall)] /\ minted' \subseteq Link
    BY <2>2, <2>3 DEF TypeOK, Maybe
  <2> QED BY <1>1, <2>4 DEF TypeOK, MintLink, rows
<1>2. ASSUME NEW created \in BOOLEAN, CreateParticipantLink(l, created) PROVE TypeOK'
  <2> DEFINE call == linkCall[l]
             row == [study |-> call.study, revision |-> call.revision, expires |-> call.expires, revoked |-> FALSE]
  <2>1. call \in LinkCall
    BY <1>2 DEF CreateParticipantLink, TypeOK, Maybe
  <2>2. row \in LinkRow
    BY <2>1 DEF LinkCall, LinkRow
  <2>3. link' = link \/ link' = [link EXCEPT ![l] = row]
    BY <1>2 DEF CreateParticipantLink
  <2> HIDE DEF row
  <2>4. link' \in [Link -> Maybe(LinkRow)]
    BY <2>2, <2>3 DEF TypeOK, Maybe
  <2>5. linkCall' \in [Link -> Maybe(LinkCall)] /\ minted' = minted
    BY <1>2 DEF CreateParticipantLink, TypeOK, Maybe
  <2> QED BY <1>2, <2>4, <2>5 DEF TypeOK, CreateParticipantLink
<1>3. CASE RevokeParticipantLink(l)
  <2> DEFINE row == [link[l] EXCEPT !.revoked = TRUE]
  <2>1. link[l] \in LinkRow
    BY <1>3 DEF RevokeParticipantLink, LinkFound, TypeOK, Maybe
  <2>2. row \in LinkRow
    BY <2>1 DEF LinkRow
  <2>3. link' = [link EXCEPT ![l] = row]
    BY <1>3 DEF RevokeParticipantLink
  <2> HIDE DEF row
  <2>4. link' \in [Link -> Maybe(LinkRow)]
    BY <2>2, <2>3 DEF TypeOK, Maybe
  <2> QED BY <1>3, <2>4 DEF TypeOK, RevokeParticipantLink, calls, linkIds
<1> QED BY <1>1, <1>2, <1>3

\* An exchange and an agreement keep the types: both copy what the link and the session say.
LEMMA SessionType ==
  ASSUME TypeOK, NEW s \in Session,
         (\E l \in Link : Exchange(s, l)) \/ (\E language \in Language : Agree(s, language))
  PROVE  TypeOK'
<1>1. ASSUME NEW l \in Link, Exchange(s, l) PROVE TypeOK'
  <2>1. link[l] \in LinkRow
    BY <1>1 DEF Exchange, LinkAdmits, LinkFound, TypeOK, Maybe
  <2>2. PICK ends : /\ ends = IF Expired(link[l], now + SessionTTL) THEN link[l].expires ELSE now + SessionTTL
                    /\ session' = [session EXCEPT ![s] =
                         [link |-> l, study |-> link[l].study, revision |-> link[l].revision,
                          shown |-> deployed, expires |-> ends]]
    BY <1>1 DEF Exchange
  <2>3. ends \in Nat
    BY <2>1, <2>2, CollectionAssumption DEF Expired, LinkRow, Maybe, TypeOK, Time
  <2>4. [link |-> l, study |-> link[l].study, revision |-> link[l].revision,
         shown |-> deployed, expires |-> ends] \in SessionRow
    BY <2>1, <2>3 DEF LinkRow, SessionRow, TypeOK
  <2>5. session' \in [Session -> Maybe(SessionRow)]
    BY <2>2, <2>4 DEF TypeOK, Maybe
  <2> QED BY <1>1, <2>5 DEF TypeOK, Exchange, rows, calls, linkIds
<1>2. ASSUME NEW language \in Language, Agree(s, language) PROVE TypeOK'
  <2>1. session[s] \in SessionRow
    BY <1>2 DEF Agree, SessionAdmitted, TypeOK, Maybe
  <2>2. [session |-> s, study |-> session[s].study, revision |-> session[s].revision,
         language |-> language, transport |-> deployed, at |-> now] \in ConsentCall
    BY <2>1 DEF SessionRow, ConsentCall, TypeOK
  <2>3. consentCall' \subseteq ConsentCall
    BY <1>2, <2>2 DEF Agree, TypeOK
  <2> QED BY <1>2, <2>3 DEF TypeOK, Agree, rows, linkIds
<1> QED BY <1>1, <1>2

\* A recorded or dropped agreement keeps the types.
LEMMA ConsentType ==
  ASSUME TypeOK, NEW call \in consentCall, RecordConsent(call) \/ DropConsent(call)
  PROVE  TypeOK'
<1>0. call \in ConsentCall /\ consentCall' \subseteq ConsentCall
  BY DEF TypeOK, RecordConsent, DropConsent
<1> DEFINE row == [study |-> call.study, revision |-> call.revision, language |-> call.language,
                   transport |-> call.transport, acceptedAt |-> call.at, expires |-> call.at + ConsentTTL]
<1>1. row \in ConsentRow /\ call.session \in Session
  BY <1>0, CollectionAssumption DEF ConsentCall, ConsentRow, Time
<1>2. consent' = consent \/ consent' = [consent EXCEPT ![call.session] = row]
  BY DEF RecordConsent, DropConsent, rows
<1> HIDE DEF row
<1>3. consent' \in [Session -> Maybe(ConsentRow)]
  BY <1>1, <1>2 DEF TypeOK, Maybe
<1> QED BY <1>0, <1>3 DEF TypeOK, RecordConsent, DropConsent, rows, linkIds

\* A save request in each of its phases.
LEMMA SaveRequestIs ==
  ASSUME NEW q \in SaveRequest
  PROVE  /\ q.phase \in {"admitted", "loaded", "verified", "sent"}
         /\ q.session \in Session /\ q.content \in Content /\ q.language \in Language
         /\ q.phase # "admitted" => q.study \in Study /\ q.revision \in Revision /\ q.links \in Access
         /\ q.phase \in {"verified", "sent"} => q.acceptedAt \in Time /\ q.transport \in Transport
         /\ q.phase = "sent" => q.at \in Time
BY DEF SaveRequest

\* A save request that changes alone, to a request or to nothing.
Reads(r, q) == /\ save' = [save EXCEPT ![r] = q] /\ q \in Maybe(SaveRequest)
               /\ UNCHANGED <<now, maintenance, deployed, rows, session, linkIds, consentCall, edit, told, made>>

\* What the reads before a save leave behind.
Opened(r, s)   == save[r] = None /\ SessionAdmitted(s) /\ save'[r].phase = "admitted" /\ save'[r].session = s
Loaded(r)      == /\ save[r].phase = "admitted" /\ save'[r].phase = "loaded"
                  /\ save'[r].session = save[r].session
Verified(r)    == /\ save[r].phase = "loaded" /\ save'[r].phase = "verified"
                  /\ save'[r].session = save[r].session
                  /\ consent[save[r].session] # None
                  /\ save'[r].acceptedAt = consent[save[r].session].acceptedAt
Sent(r)        == /\ save[r].phase = "verified" /\ save'[r].phase = "sent"
                  /\ save'[r].session = save[r].session
                  /\ save'[r].acceptedAt = save[r].acceptedAt /\ save'[r].at = now

ReadsOn(r) ==
  /\ \E q : Reads(r, q)
  /\ \/ \E s \in Session : Opened(r, s)
     \/ save[r] # None /\ (save'[r] = None \/ Loaded(r) \/ Verified(r) \/ Sent(r))

\* A save is of a participant who has a session.
SavesAreOfSessions == \A r \in Request : save[r] # None => session[save[r].session] # None

\* Each route step of a save moves one request on, or drops it, and writes nothing else.
LEMMA ReadSteps ==
  ASSUME TypeOK, SavesAreOfSessions, NEW r \in Request,
         \/ \E s \in Session, content \in Content, language \in Language : OpenSave(r, s, content, language)
         \/ LoadStudy(r) \/ VerifyConsent(r) \/ SendSave(r) \/ DropSave(r)
  PROVE  ReadsOn(r)
<1>0. /\ save \in [Request -> Maybe(SaveRequest)]
      /\ save[r] # None => save[r] \in SaveRequest
  BY DEF TypeOK, Maybe
<1>1. ASSUME NEW s \in Session, NEW content \in Content, NEW language \in Language,
             OpenSave(r, s, content, language)
      PROVE  (\E q : Reads(r, q)) /\ Opened(r, s)
  <2> DEFINE q == [phase |-> "admitted", session |-> s, content |-> content, language |-> language]
  <2>1. q \in SaveRequest /\ q.phase = "admitted" /\ q.session = s
    BY DEF SaveRequest
  <2>2. /\ save' = [save EXCEPT ![r] = q]
        /\ UNCHANGED <<now, maintenance, deployed, rows, session, linkIds, consentCall, edit, told, made>>
    BY <1>1 DEF OpenSave
  <2> HIDE DEF q
  <2>3. save'[r] = q
    BY <1>0, <2>2
  <2> QED BY <1>1, <2>1, <2>2, <2>3 DEF OpenSave, Opened, Reads, Maybe
<1>2. CASE LoadStudy(r)
  <2> DEFINE st == session[save[r].session].study
             q == [phase |-> "loaded", session |-> save[r].session, content |-> save[r].content,
                   language |-> save[r].language, study |-> st, revision |-> study[st].revision,
                   links |-> study[st].links]
  <2>0. save[r] # None /\ save[r].phase = "admitted" /\ save[r].session \in Session
    BY <1>0, <1>2, SaveRequestIs DEF LoadStudy
  <2>1. st \in Study /\ study[st] \in StudyRow
    <3>1. study[st] # None
      BY <1>2 DEF LoadStudy
    <3>2. st \in Study
      BY <2>0 DEF SavesAreOfSessions, TypeOK, Maybe, SessionRow
    <3> QED BY <3>1, <3>2 DEF TypeOK, Maybe
  <2>2. q \in SaveRequest
    BY <1>0, <2>0, <2>1, SaveRequestIs DEF SaveRequest, StudyRow
  <2>3. /\ save' = [save EXCEPT ![r] = q]
        /\ UNCHANGED <<now, maintenance, deployed, rows, session, linkIds, consentCall, edit, told, made>>
    BY <1>2 DEF LoadStudy
  <2>4. q.phase = "loaded" /\ q.session = save[r].session
    OBVIOUS
  <2> HIDE DEF q
  <2>5. save'[r] = q
    BY <1>0, <2>3
  <2> QED BY <2>0, <2>2, <2>3, <2>4, <2>5 DEF Loaded, Reads, ReadsOn, Maybe
<1>3. CASE VerifyConsent(r)
  <2> DEFINE s == save[r].session
             q == [phase |-> "verified", session |-> s, content |-> save[r].content,
                   language |-> save[r].language, study |-> save[r].study, revision |-> save[r].revision,
                   links |-> save[r].links, acceptedAt |-> consent[s].acceptedAt,
                   transport |-> consent[s].transport]
  <2>0. save[r] # None /\ save[r].phase = "loaded" /\ s \in Session
    BY <1>0, <1>3, SaveRequestIs DEF VerifyConsent
  <2>1. consent[s] \in ConsentRow /\ consent[s] # None
    BY <1>3, <2>0 DEF VerifyConsent, ConsentFound, TypeOK, Maybe
  <2>2. q \in SaveRequest
    BY <1>0, <2>0, <2>1, SaveRequestIs DEF SaveRequest, ConsentRow
  <2>3. /\ save' = [save EXCEPT ![r] = q]
        /\ UNCHANGED <<now, maintenance, deployed, rows, session, linkIds, consentCall, edit, told, made>>
    BY <1>3 DEF VerifyConsent
  <2>4. q.phase = "verified" /\ q.session = s /\ q.acceptedAt = consent[s].acceptedAt
    OBVIOUS
  <2> HIDE DEF q
  <2>5. save'[r] = q
    BY <1>0, <2>3
  <2> QED BY <2>0, <2>1, <2>2, <2>3, <2>4, <2>5 DEF Verified, Reads, ReadsOn, Maybe
<1>4. CASE SendSave(r)
  <2> DEFINE q == [phase |-> "sent", session |-> save[r].session, content |-> save[r].content,
                   language |-> save[r].language, study |-> save[r].study, revision |-> save[r].revision,
                   links |-> save[r].links, acceptedAt |-> save[r].acceptedAt,
                   transport |-> save[r].transport, at |-> now]
  <2>0. save[r] # None /\ save[r].phase = "verified"
    BY <1>4 DEF SendSave
  <2>2. q \in SaveRequest
    BY <1>0, <2>0, SaveRequestIs DEF SaveRequest, TypeOK
  <2>3. /\ save' = [save EXCEPT ![r] = q]
        /\ UNCHANGED <<now, maintenance, deployed, rows, session, linkIds, consentCall, edit, told, made>>
    BY <1>4 DEF SendSave
  <2>4. q.phase = "sent" /\ q.session = save[r].session /\ q.acceptedAt = save[r].acceptedAt /\ q.at = now
    OBVIOUS
  <2> HIDE DEF q
  <2>5. save'[r] = q
    BY <1>0, <2>3
  <2> QED BY <2>0, <2>2, <2>3, <2>4, <2>5 DEF Sent, Reads, ReadsOn, Maybe
<1>5. CASE DropSave(r)
  <2>1. Reads(r, None) /\ save'[r] = None
    BY <1>0, <1>5 DEF DropSave, Reads, Maybe
  <2> QED BY <1>5, <2>1 DEF DropSave, ReadsOn
<1> QED BY <1>1, <1>2, <1>3, <1>4, <1>5 DEF ReadsOn

\* The reads of a save keep the types.
LEMMA ReadsType ==
  ASSUME TypeOK, NEW r \in Request, NEW q, Reads(r, q)
  PROVE  TypeOK'
<1>1. save' \in [Request -> Maybe(SaveRequest)]
  BY DEF Reads, TypeOK
<1> QED BY <1>1 DEF TypeOK, Reads, rows, linkIds

\* A commit, with what it writes.
LEMMA CompleteType ==
  ASSUME TypeOK, NEW r \in Request, NEW delivered \in BOOLEAN, CompleteInterview(r, delivered)
  PROVE  TypeOK'
<1> DEFINE q == save[r]
           row == [study[q.study] EXCEPT !.count = Cardinality(InterviewsOf(q.study)) + 1]
<1>0. q \in SaveRequest /\ q.phase = "sent" /\ save' = [save EXCEPT ![r] = None]
  BY DEF CompleteInterview, TypeOK, Maybe
<1>1. /\ q.session \in Session /\ q.content \in Content /\ q.language \in Language
      /\ q.study \in Study /\ q.revision \in Revision /\ q.links \in Access
      /\ q.acceptedAt \in Time /\ q.transport \in Transport /\ q.at \in Time
  BY <1>0, SaveRequestIs
<1> HIDE DEF q
<1>2. Record(q) \in InterviewRow
  BY <1>1 DEF Record, InterviewRow
<1>3. interview' \in [Session -> Maybe(InterviewRow)]
  <2>1. interview' = [interview EXCEPT ![q.session] = Record(q)]
    BY DEF CompleteInterview, q
  <2> QED BY <1>1, <1>2, <2>1 DEF TypeOK, Maybe
<1>4. study' \in [Study -> Maybe(StudyRow)]
  <2>1. study' = [study EXCEPT ![q.study] = row]
    BY DEF CompleteInterview, q
  <2>2. study[q.study] \in StudyRow
    BY <1>1 DEF CompleteInterview, Authorized, AtRevision, Enabled, TypeOK, Maybe, q
  <2>3. Cardinality(InterviewsOf(q.study)) \in Nat
    BY CollectionAssumption, FS_CardinalityType, FS_Subset DEF InterviewsOf
  <2>4. row \in StudyRow
    BY <2>2, <2>3 DEF StudyRow
  <2> HIDE DEF row
  <2> QED BY <1>1, <2>1, <2>4 DEF TypeOK, Maybe
<1>5. member' \subseteq [scope : Scope, study : Study, start : Time, session : Session]
  <2>1. ASSUME NEW c \in Scope PROVE WindowStart(c, q.at) \in Time
    BY <1>1, WindowStartIs, CollectionAssumption DEF Time
  <2>2. member' = member \cup {[scope |-> x.scope, study |-> x.study, start |-> x.start,
                                session |-> q.session] : x \in RatePlan(q)}
    BY DEF CompleteInterview, q
  <2>3. \A x \in RatePlan(q) : x.scope \in Scope /\ x.study = q.study /\ x.start \in Time
    BY <2>1 DEF RatePlan
  <2> QED BY <1>1, <2>2, <2>3 DEF TypeOK
<1>6. told' \in [Session -> SUBSET Content]
  BY <1>1 DEF CompleteInterview, Reply, TypeOK, q
<1>7. save' \in [Request -> Maybe(SaveRequest)]
  BY <1>0 DEF TypeOK, Maybe
<1> QED BY <1>3, <1>4, <1>5, <1>6, <1>7 DEF TypeOK, CompleteInterview, linkIds

\* An answered replay keeps the types.
LEMMA ReplayType ==
  ASSUME TypeOK, NEW r \in Request, ReplayInterview(r)
  PROVE  TypeOK'
<1> DEFINE q == save[r]
<1>0. q \in SaveRequest /\ save' = [save EXCEPT ![r] = None]
  BY DEF ReplayInterview, TypeOK, Maybe
<1>1. q.session \in Session /\ q.content \in Content
  BY <1>0, SaveRequestIs
<1>2. told' \in [Session -> SUBSET Content]
  BY <1>1 DEF ReplayInterview, Reply, TypeOK
<1>3. save' \in [Request -> Maybe(SaveRequest)]
  BY <1>0 DEF TypeOK, Maybe
<1> QED BY <1>2, <1>3 DEF TypeOK, ReplayInterview, rows, linkIds

\* The operator, a deployment, cleanup and time keep the types.
LEMMA OperatorType ==
  ASSUME TypeOK,
         \/ \E state \in {"open", "draining", "frozen", "recovery"} : SetMaintenance(state)
         \/ Deploy \/ Cleanup \/ Tick \/ UNCHANGED vars
  PROVE  TypeOK'
<1>1. CASE \/ \E state \in {"open", "draining", "frozen", "recovery"} : SetMaintenance(state)
           \/ Deploy \/ UNCHANGED vars
  <2>1. /\ maintenance' \in {"open", "draining", "frozen", "recovery"} /\ deployed' \in Transport
        /\ UNCHANGED <<now, rows, session, calls, told, made>>
    BY <1>1 DEF SetMaintenance, Deploy, TypeOK, vars
  <2> QED BY <2>1 DEF TypeOK, rows, calls, linkIds
<1>2. CASE Cleanup
  <2>1. consent' \in [Session -> Maybe(ConsentRow)]
    BY <1>2 DEF Cleanup, TypeOK, Maybe
  <2>2. link' \in [Link -> Maybe(LinkRow)]
    BY <1>2 DEF Cleanup, TypeOK, Maybe
  <2>3. receipt' \in [Key -> Maybe(ReceiptRow)]
    BY <1>2 DEF Cleanup, TypeOK, Maybe
  <2>4. fence' \in [Study \cup Session -> Nat]
    BY <1>2 DEF Cleanup, TypeOK
  <2>5. member' \subseteq [scope : Scope, study : Study, start : Time, session : Session]
    BY <1>2 DEF Cleanup, TypeOK
  <2> QED BY <1>2, <2>1, <2>2, <2>3, <2>4, <2>5 DEF TypeOK, Cleanup, calls, linkIds
<1>3. CASE Tick
  <2>1. now' \in Time
    BY <1>3, CollectionAssumption DEF Tick, TypeOK, Time
  <2> QED BY <1>3, <2>1 DEF Tick, TypeOK, rows, calls, linkIds
<1> QED BY <1>1, <1>2, <1>3

Types == TypeOK /\ SavesAreOfSessions

\* A session lasts: its cookie is never changed.
SessionsStay == \A s \in Session : session[s] # None => session'[s] = session[s]

\* Every step, and what it leaves alone.
LEMMA StepTypes ==
  ASSUME Types, [Next]_vars
  PROVE  TypeOK'
<1>1. CASE \E r \in Request : \/ LoadStudy(r) \/ VerifyConsent(r) \/ SendSave(r) \/ DropSave(r)
                              \/ \E s \in Session, content \in Content, language \in Language :
                                   OpenSave(r, s, content, language)
  BY <1>1, ReadSteps, ReadsType DEF Types, ReadsOn
<1>2. CASE \E r \in Request : ReplayInterview(r) \/ \E delivered \in BOOLEAN : CompleteInterview(r, delivered)
  BY <1>2, CompleteType, ReplayType DEF Types
<1>3. CASE \/ \E k \in Key, st \in Study : CreateStudy(k, st)
           \/ \E e \in Editor : (\E st \in Study, confirmed \in BOOLEAN : OpenEdit(e, st, confirmed))
                                \/ ReplaceStudyConfig(e) \/ DropEdit(e)
           \/ \E st \in Study : (\E access \in {"on", "off"} : SetStudyLinksEnabled(st, access))
                                \/ \E confirmed \in BOOLEAN : DeleteStudy(st, confirmed)
  BY <1>3, CreateStudyType, EditType, PauseType, DeleteType DEF Types
<1>4. CASE \E l \in Link : \/ \E st \in Study, expires \in {None, now + LinkTTL} : MintLink(l, st, expires)
                           \/ \E created \in BOOLEAN : CreateParticipantLink(l, created)
                           \/ RevokeParticipantLink(l)
                           \/ \E s \in Session : Exchange(s, l)
  BY <1>4, LinkType, SessionType DEF Types
<1>5. CASE \E s \in Session, language \in Language : Agree(s, language)
  BY <1>5, SessionType DEF Types
<1>6. CASE \E call \in consentCall : RecordConsent(call) \/ DropConsent(call)
  BY <1>6, ConsentType DEF Types
<1>7. CASE \/ \E state \in {"open", "draining", "frozen", "recovery"} : SetMaintenance(state)
           \/ Deploy \/ Cleanup \/ Tick \/ UNCHANGED vars
  BY <1>7, OperatorType DEF Types
<1> QED BY <1>1, <1>2, <1>3, <1>4, <1>5, <1>6, <1>7 DEF Next

\* The writes of the store.
Writes ==
  \/ \E k \in Key, st \in Study : CreateStudy(k, st)
  \/ \E e \in Editor : ReplaceStudyConfig(e)
  \/ \E st \in Study, access \in {"on", "off"} : SetStudyLinksEnabled(st, access)
  \/ \E st \in Study, confirmed \in BOOLEAN : DeleteStudy(st, confirmed)
  \/ \E l \in Link : RevokeParticipantLink(l) \/ \E created \in BOOLEAN : CreateParticipantLink(l, created)
  \/ \E call \in consentCall : RecordConsent(call)
  \/ \E r \in Request, delivered \in BOOLEAN : CompleteInterview(r, delivered)
  \/ Cleanup

\* Every other step leaves the store's tables as they are.
Calls ==
  \/ \E e \in Editor : (\E st \in Study, confirmed \in BOOLEAN : OpenEdit(e, st, confirmed)) \/ DropEdit(e)
  \/ \E l \in Link, st \in Study, expires \in {None, now + LinkTTL} : MintLink(l, st, expires)
  \/ \E s \in Session, l \in Link : Exchange(s, l)
  \/ \E s \in Session, language \in Language : Agree(s, language)
  \/ \E call \in consentCall : DropConsent(call)
  \/ \E r \in Request : ReadsOn(r) \/ ReplayInterview(r)
  \/ \E state \in {"open", "draining", "frozen", "recovery"} : SetMaintenance(state)
  \/ Deploy \/ Tick \/ UNCHANGED vars

\* Every step is a write or a call.
LEMMA Steps ==
  ASSUME Types, [Next]_vars
  PROVE  Writes \/ Calls
<1>1. CASE \E r \in Request : \/ LoadStudy(r) \/ VerifyConsent(r) \/ SendSave(r) \/ DropSave(r)
                              \/ \E s \in Session, content \in Content, language \in Language :
                                   OpenSave(r, s, content, language)
  BY <1>1, ReadSteps DEF Types, Calls
<1>2. CASE \E r \in Request : ReplayInterview(r) \/ \E delivered \in BOOLEAN : CompleteInterview(r, delivered)
  BY <1>2 DEF Writes, Calls
<1>3. CASE \/ \E k \in Key, st \in Study : CreateStudy(k, st)
           \/ \E e \in Editor : (\E st \in Study, confirmed \in BOOLEAN : OpenEdit(e, st, confirmed))
                                \/ ReplaceStudyConfig(e) \/ DropEdit(e)
           \/ \E st \in Study : (\E access \in {"on", "off"} : SetStudyLinksEnabled(st, access))
                                \/ \E confirmed \in BOOLEAN : DeleteStudy(st, confirmed)
  BY <1>3 DEF Writes, Calls
<1>4. CASE \E l \in Link : \/ \E st \in Study, expires \in {None, now + LinkTTL} : MintLink(l, st, expires)
                           \/ \E created \in BOOLEAN : CreateParticipantLink(l, created)
                           \/ RevokeParticipantLink(l)
                           \/ \E s \in Session : Exchange(s, l)
  BY <1>4 DEF Writes, Calls
<1>5. CASE \E s \in Session, language \in Language : Agree(s, language)
  BY <1>5 DEF Calls
<1>6. CASE \E call \in consentCall : RecordConsent(call) \/ DropConsent(call)
  BY <1>6 DEF Writes, Calls
<1>7. CASE \/ \E state \in {"open", "draining", "frozen", "recovery"} : SetMaintenance(state)
           \/ Deploy \/ Cleanup \/ Tick \/ UNCHANGED vars
  BY <1>7 DEF Writes, Calls
<1> QED BY <1>1, <1>2, <1>3, <1>4, <1>5, <1>6, <1>7 DEF Next

\* A call leaves every table alone.
LEMMA CallsWriteNothing ==
  ASSUME Calls
  PROVE  UNCHANGED <<study, receipt, fence, link, consent, interview, member, made>>
<1>1. ASSUME NEW e \in Editor,
             (\E st \in Study, confirmed \in BOOLEAN : OpenEdit(e, st, confirmed)) \/ DropEdit(e)
      PROVE  UNCHANGED <<rows, made>>
  BY <1>1 DEF OpenEdit, DropEdit
<1>2. ASSUME NEW l \in Link, NEW st \in Study, NEW expires \in {None, now + LinkTTL}, MintLink(l, st, expires)
      PROVE  UNCHANGED <<rows, made>>
  BY <1>2 DEF MintLink
<1>3. ASSUME NEW s \in Session, (\E l \in Link : Exchange(s, l)) \/ (\E language \in Language : Agree(s, language))
      PROVE  UNCHANGED <<rows, made>>
  BY <1>3 DEF Exchange, Agree
<1>4. ASSUME NEW call \in consentCall, DropConsent(call) PROVE UNCHANGED <<rows, made>>
  BY <1>4 DEF DropConsent
<1>5. ASSUME NEW r \in Request, ReadsOn(r) \/ ReplayInterview(r) PROVE UNCHANGED <<rows, made>>
  BY <1>5 DEF Reads, ReadsOn, ReplayInterview
<1>6. ASSUME \/ \E state \in {"open", "draining", "frozen", "recovery"} : SetMaintenance(state)
             \/ Deploy \/ Tick \/ UNCHANGED vars
      PROVE  UNCHANGED <<rows, made>>
  BY <1>6 DEF SetMaintenance, Deploy, Tick, vars
<1>7. UNCHANGED <<rows, made>>
  BY <1>1, <1>2, <1>3, <1>4, <1>5, <1>6 DEF Calls
<1> QED BY <1>7 DEF rows

\* A call on behalf of a session is made by a participant who has one.
LEMMA SessionsLast ==
  ASSUME TypeOK, Writes \/ Calls
  PROVE  SessionsStay
<1>1. CASE Writes
  <2>1. session' = session
    BY <1>1 DEF Writes, CreateStudy, ReplaceStudyConfig, SetStudyLinksEnabled, DeleteStudy, RevokeParticipantLink,
                CreateParticipantLink, RecordConsent, CompleteInterview, Cleanup
  <2> QED BY <2>1 DEF SessionsStay
<1>2. ASSUME NEW s \in Session, NEW l \in Link, Exchange(s, l) PROVE SessionsStay
  <2>1. PICK row : session[s] = None /\ session' = [session EXCEPT ![s] = row]
    BY <1>2 DEF Exchange
  <2> QED BY <2>1 DEF SessionsStay, TypeOK
<1>3. ASSUME NEW r \in Request, ReadsOn(r) \/ ReplayInterview(r) PROVE session' = session
  BY <1>3 DEF ReadsOn, Reads, ReplayInterview
<1>4. ASSUME \/ \E e \in Editor : (\E st \in Study, confirmed \in BOOLEAN : OpenEdit(e, st, confirmed)) \/ DropEdit(e)
             \/ \E l \in Link, st \in Study, expires \in {None, now + LinkTTL} : MintLink(l, st, expires)
             \/ \E s \in Session, language \in Language : Agree(s, language)
             \/ \E call \in consentCall : DropConsent(call)
             \/ \E state \in {"open", "draining", "frozen", "recovery"} : SetMaintenance(state)
             \/ Deploy \/ Tick \/ UNCHANGED vars
      PROVE  session' = session
  BY <1>4 DEF OpenEdit, DropEdit, MintLink, Agree, DropConsent, SetMaintenance, Deploy, Tick, vars
<1> QED BY <1>1, <1>2, <1>3, <1>4 DEF Calls, SessionsStay

\* What becomes of a save request: it stays, moves on one read, or ends.
SaveMoves(r) ==
  \/ save'[r] = save[r] \/ save'[r] = None
  \/ \E s \in Session : Opened(r, s)
  \/ save[r] # None /\ (Loaded(r) \/ Verified(r) \/ Sent(r))

\* A write moves no save request except that a commit ends its own.
LEMMA WritesMoveSaves ==
  ASSUME TypeOK, Writes, NEW r \in Request
  PROVE  save'[r] = save[r] \/ save'[r] = None
<1>1. CASE \E x \in Request, delivered \in BOOLEAN : CompleteInterview(x, delivered)
  BY <1>1 DEF CompleteInterview, TypeOK
<1>2. CASE ~ \E x \in Request, delivered \in BOOLEAN : CompleteInterview(x, delivered)
  <2>1. save' = save
    BY <1>2 DEF Writes, CreateStudy, ReplaceStudyConfig, SetStudyLinksEnabled, DeleteStudy, RevokeParticipantLink,
                CreateParticipantLink, RecordConsent, Cleanup, calls
  <2> QED BY <2>1
<1> QED BY <1>1, <1>2

\* A call moves at most one of them on.
LEMMA CallsMoveSaves ==
  ASSUME TypeOK, Calls, NEW r \in Request
  PROVE  SaveMoves(r)
<1>1. ASSUME NEW x \in Request, ReadsOn(x) PROVE SaveMoves(r)
  <2>1. PICK q : save' = [save EXCEPT ![x] = q]
    BY <1>1 DEF ReadsOn, Reads
  <2>2. x # r => save'[r] = save[r]
    BY <2>1 DEF TypeOK
  <2> QED BY <1>1, <2>2 DEF ReadsOn, SaveMoves
<1>2. ASSUME NEW x \in Request, ReplayInterview(x) PROVE SaveMoves(r)
  BY <1>2 DEF ReplayInterview, TypeOK, SaveMoves
<1>3. ASSUME ~ \E x \in Request : ReadsOn(x) \/ ReplayInterview(x) PROVE save' = save
  BY <1>3 DEF Calls, OpenEdit, DropEdit, MintLink, Exchange, Agree, DropConsent, SetMaintenance, Deploy, Tick, vars, calls
<1> QED BY <1>1, <1>2, <1>3 DEF SaveMoves

\* The types and the sessions of saves are inductive.
LEMMA TypesStep ==
  ASSUME Types, [Next]_vars
  PROVE  Types'
<1>1. TypeOK' /\ SessionsStay
  BY StepTypes, Steps, SessionsLast DEF Types
<1>2. ASSUME NEW r \in Request, save'[r] # None PROVE session'[save'[r].session] # None
  <2>1. SaveMoves(r)
    BY Steps, WritesMoveSaves, CallsMoveSaves DEF Types, SaveMoves
  <2>2. \E s \in Session : session[s] # None /\ save'[r].session = s
    <3>1. ASSUME save[r] # None PROVE save[r].session \in Session /\ session[save[r].session] # None
      BY <3>1, SaveRequestIs DEF Types, TypeOK, Maybe, SavesAreOfSessions
    <3> QED BY <1>2, <2>1, <3>1 DEF SaveMoves, Opened, SessionAdmitted, Loaded, Verified, Sent
  <2> QED BY <1>1, <2>2 DEF SessionsStay, TypeOK, Maybe, Types
<1> QED BY <1>1, <1>2 DEF Types, SavesAreOfSessions

\* Types and SavesAreOfSessions are an inductive invariant.
LEMMA TypesHold == Spec => []Types
<1>1. Init => Types
  <2>1. SUFFICES ASSUME Init PROVE TypeOK /\ SavesAreOfSessions
    BY DEF Types
  <2>2. study \in [Study -> Maybe(StudyRow)]
    <3>1. [revision |-> 1, links |-> "unset", count |-> 0] \in StudyRow
      BY CollectionAssumption DEF StudyRow, Revision, Access
    <3> QED BY <2>1, <3>1 DEF Init, Maybe
  <2>3. made \in [Study -> Maybe([key : Maybe(Key), at : Time])]
    BY <2>1, CollectionAssumption DEF Init, Maybe, Time
  <2>4. now \in Time /\ maintenance \in {"open", "draining", "frozen", "recovery"} /\ deployed \in Transport
    BY <2>1, CollectionAssumption DEF Init, Time, Transport
  <2> QED BY <2>1, <2>2, <2>3, <2>4 DEF Init, TypeOK, SavesAreOfSessions, Maybe
<1>2. Types /\ [Next]_vars => Types'
  BY TypesStep
<1> QED BY <1>1, <1>2, PTL DEF Spec

\* In every reachable state every variable has its type: whatever is edited,
\* redeployed, deleted or delivered late between the reads of a save, the record
\* that is built and written is a record of its study (completion.ts:239-306).
THEOREM TypeCorrect == Spec => []TypeOK
BY TypesHold, PTL DEF Types
-----------------------------------------------------------------------------
(* The tables agree.                                                       *)

\* A changed study row that keeps its count changes no agreement.
LEMMA SameCount ==
  ASSUME TypeOK, TablesAgree, NEW st \in Study, NEW row \in StudyRow, study[st] # None,
         row.count = study[st].count, study' = [study EXCEPT ![st] = row],
         UNCHANGED <<link, consent, interview, member>>
  PROVE  TablesAgree'
<1>1. \A x \in Study : /\ study'[x] # None <=> study[x] # None
                       /\ study[x] # None => study'[x].count = study[x].count
  BY NoneIsNoRow DEF TypeOK
<1>2. \A x \in Study : InterviewsOf(x)' = InterviewsOf(x)
  BY DEF InterviewsOf
<1>3. /\ \A l \in Link : link[l] # None => link[l].study \in Study
      /\ \A s \in Session : consent[s] # None => consent[s].study \in Study
      /\ \A s \in Session : interview[s] # None => interview[s].study \in Study
  BY DEF TypeOK, Maybe, LinkRow, ConsentRow, InterviewRow
<1>4. \A x \in Study : study'[x] # None => study'[x].count = Cardinality(InterviewsOf(x)')
  BY <1>1, <1>2 DEF TablesAgree
<1>5. /\ \A l \in Link : link'[l] # None => study'[link'[l].study] # None
      /\ \A s \in Session : consent'[s] # None => study'[consent'[s].study] # None
      /\ \A s \in Session : interview'[s] # None => study'[interview'[s].study] # None
      /\ \A m \in member' : interview'[m.session] # None
  BY <1>1, <1>3 DEF TablesAgree
<1> QED BY <1>4, <1>5 DEF TablesAgree

\* A created study has no interviews yet: its id is fresh.
LEMMA CreateStudyAgrees ==
  ASSUME TypeOK, TablesAgree, NEW k \in Key, NEW st \in Study, CreateStudy(k, st)
  PROVE  TablesAgree'
<1> DEFINE row == [revision |-> 1, links |-> "unset", count |-> 0]
<1>1. row \in StudyRow /\ row # None /\ row.count = 0
  BY CollectionAssumption, NoneIsNoRow DEF StudyRow, Revision, Access
<1>2. study' = [study EXCEPT ![st] = row] /\ study[st] = None /\ UNCHANGED <<link, consent, interview, member>>
  BY DEF CreateStudy
<1> HIDE DEF row
<1>3. InterviewsOf(st) = {}
  BY <1>2 DEF InterviewsOf, TablesAgree
<1>4. Cardinality(InterviewsOf(st)) = 0
  BY <1>3, FS_EmptySet
<1>5. \A x \in Study : InterviewsOf(x)' = InterviewsOf(x)
  BY <1>2 DEF InterviewsOf
<1>6. \A x \in Study : study'[x] # None => study'[x].count = Cardinality(InterviewsOf(x)')
  BY <1>1, <1>2, <1>4, <1>5 DEF TablesAgree, TypeOK
<1>7. \A x \in Study : study[x] # None => study'[x] # None
  BY <1>1, <1>2 DEF TypeOK
<1>8. /\ \A l \in Link : link'[l] # None => study'[link'[l].study] # None
      /\ \A s \in Session : consent'[s] # None => study'[consent'[s].study] # None
      /\ \A s \in Session : interview'[s] # None => study'[interview'[s].study] # None
      /\ \A m \in member' : interview'[m.session] # None
  BY <1>2, <1>7 DEF TablesAgree, TypeOK, Maybe, LinkRow, ConsentRow, InterviewRow
<1> QED BY <1>6, <1>8 DEF TablesAgree

\* A deleted study takes its links, consents, interviews and membership with it.
LEMMA DeleteStudyAgrees ==
  ASSUME TypeOK, TablesAgree, NEW st \in Study, NEW confirmed \in BOOLEAN, DeleteStudy(st, confirmed)
  PROVE  TablesAgree'
<1>1. /\ study' = [study EXCEPT ![st] = None]
      /\ interview' = [s \in Session |-> IF s \in InterviewsOf(st) THEN None ELSE interview[s]]
      /\ member' = {m \in member : m.session \notin InterviewsOf(st)}
      /\ link' = [l \in Link |-> IF link[l] # None /\ link[l].study = st THEN None ELSE link[l]]
      /\ consent' = [s \in Session |-> IF consent[s] # None /\ consent[s].study = st THEN None ELSE consent[s]]
  BY DEF DeleteStudy
<1>2. \A x \in Study : x # st => study'[x] = study[x]
  BY <1>1 DEF TypeOK
<1>3. \A l \in Link : link'[l] # None => study'[link'[l].study] # None
  BY <1>1, <1>2 DEF TablesAgree, TypeOK, Maybe, LinkRow
<1>4. \A s \in Session : consent'[s] # None => study'[consent'[s].study] # None
  BY <1>1, <1>2 DEF TablesAgree, TypeOK, Maybe, ConsentRow
<1>5. \A s \in Session : interview'[s] # None => interview'[s] = interview[s] /\ interview[s].study # st
  BY <1>1 DEF InterviewsOf
<1>6. \A s \in Session : interview'[s] # None => study'[interview'[s].study] # None
  BY <1>2, <1>5 DEF TablesAgree, TypeOK, Maybe, InterviewRow
<1>7. \A m \in member' : interview'[m.session] # None
  BY <1>1 DEF TablesAgree, TypeOK
<1>8. ASSUME NEW x \in Study, study'[x] # None PROVE study'[x].count = Cardinality(InterviewsOf(x)')
  <2>1. x # st
    BY <1>1, <1>8 DEF TypeOK
  <2>2. InterviewsOf(x)' = InterviewsOf(x)
    BY <1>1, <2>1 DEF InterviewsOf
  <2> QED BY <1>2, <1>8, <2>1, <2>2 DEF TablesAgree
<1> QED BY <1>3, <1>4, <1>6, <1>7, <1>8 DEF TablesAgree

\* A link is created, and a consent stored, only for a study that is there.
LEMMA LinkAndConsentAgree ==
  ASSUME TypeOK, TablesAgree, UNCHANGED <<study, interview, member>>,
         \/ \E l \in Link, created \in BOOLEAN : CreateParticipantLink(l, created)
         \/ \E l \in Link : RevokeParticipantLink(l)
         \/ \E call \in consentCall : RecordConsent(call)
  PROVE  TablesAgree'
<1>1. \A x \in Study : InterviewsOf(x)' = InterviewsOf(x)
  BY DEF InterviewsOf
<1>2. ASSUME NEW l \in Link, link'[l] # None PROVE study[link'[l].study] # None
  <2>1. ASSUME NEW x \in Link, NEW created \in BOOLEAN, CreateParticipantLink(x, created), link'[l] # link[l]
        PROVE  study[link'[l].study] # None
    BY <2>1 DEF CreateParticipantLink, LinkCreatable, AtRevision, Enabled, TypeOK
  <2>2. ASSUME NEW x \in Link, RevokeParticipantLink(x), link'[l] # link[l]
        PROVE  study[link'[l].study] # None
    <3>1. l = x /\ link'[l] = [link[l] EXCEPT !.revoked = TRUE] /\ link[l] # None
      BY <2>2 DEF RevokeParticipantLink, TypeOK, LinkFound
    <3>2. link'[l].study = link[l].study
      BY <3>1 DEF TypeOK, Maybe, LinkRow
    <3> QED BY <3>1, <3>2 DEF TablesAgree
  <2>3. ASSUME NEW call \in consentCall, RecordConsent(call) PROVE link'[l] = link[l]
    BY <2>3 DEF RecordConsent
  <2> QED BY <1>2, <2>1, <2>2, <2>3 DEF TablesAgree
<1>3. ASSUME NEW s \in Session, consent'[s] # None PROVE study[consent'[s].study] # None
  <2>1. ASSUME NEW call \in consentCall, RecordConsent(call), consent'[s] # consent[s]
        PROVE  study[consent'[s].study] # None
    BY <2>1 DEF RecordConsent, ConsentStorable, AtRevision, Enabled, TypeOK
  <2>2. ASSUME \/ \E x \in Link, created \in BOOLEAN : CreateParticipantLink(x, created)
               \/ \E x \in Link : RevokeParticipantLink(x)
        PROVE  consent'[s] = consent[s]
    BY <1>3, <2>2 DEF CreateParticipantLink, RevokeParticipantLink
  <2> QED BY <1>3, <2>1, <2>2 DEF TablesAgree
<1> QED BY <1>1, <1>2, <1>3 DEF TablesAgree

\* Cleanup takes links, consents and membership only.
LEMMA CleanupAgrees ==
  ASSUME TypeOK, TablesAgree, Cleanup
  PROVE  TablesAgree'
<1>1. UNCHANGED <<study, interview>> /\ member' \subseteq member
  BY DEF Cleanup
<1>2. \A x \in Study : InterviewsOf(x)' = InterviewsOf(x)
  BY <1>1 DEF InterviewsOf
<1>3. /\ \A l \in Link : link'[l] # None => link'[l] = link[l]
      /\ \A s \in Session : consent'[s] # None => consent'[s] = consent[s]
  BY DEF Cleanup
<1> QED BY <1>1, <1>2, <1>3 DEF TablesAgree

\* A commit counts the interview it adds.
LEMMA CompleteAgrees ==
  ASSUME TypeOK, TablesAgree, NEW r \in Request, NEW delivered \in BOOLEAN, CompleteInterview(r, delivered)
  PROVE  TablesAgree'
<1>0. PICK q : q = save[r]
  OBVIOUS
<1> DEFINE n == Cardinality(InterviewsOf(q.study)) + 1
           row == [study[q.study] EXCEPT !.count = n]
<1>1. q \in SaveRequest /\ q.phase = "sent"
  BY <1>0 DEF CompleteInterview, TypeOK, Maybe
<1>2. /\ q.session \in Session /\ q.content \in Content /\ q.language \in Language
      /\ q.study \in Study /\ q.revision \in Revision
      /\ q.acceptedAt \in Time /\ q.transport \in Transport /\ q.at \in Time
  BY <1>1, SaveRequestIs
<1>3. /\ Authorized(q) /\ interview[q.session] = None
      /\ interview' = [interview EXCEPT ![q.session] = Record(q)]
      /\ member' = member \cup {[scope |-> x.scope, study |-> x.study, start |-> x.start,
                                 session |-> q.session] : x \in RatePlan(q)}
      /\ study' = [study EXCEPT ![q.study] = row]
      /\ UNCHANGED <<link, consent>>
  BY <1>0 DEF CompleteInterview
<1>20. PICK total : total = n
  OBVIOUS
<1> HIDE DEF n
<1>4. IsFiniteSet(InterviewsOf(q.study)) /\ Cardinality(InterviewsOf(q.study)) \in Nat
  BY CollectionAssumption, FS_CardinalityType, FS_Subset DEF InterviewsOf
<1>5. study[q.study] # None /\ study[q.study] \in StudyRow /\ n \in Nat
  BY <1>2, <1>3, <1>4 DEF Authorized, AtRevision, Enabled, TypeOK, Maybe, n
<1>6. row \in StudyRow /\ row # None /\ row.count = total
  BY <1>5, <1>20, NoneIsNoRow DEF StudyRow
<1> HIDE DEF row
<1>7. Record(q) \in InterviewRow /\ Record(q) # None /\ Record(q).study = q.study
  BY <1>2, NoneIsNoRow DEF Record, InterviewRow
<1>8. interview'[q.session] = Record(q) /\ \A s \in Session \ {q.session} : interview'[s] = interview[s]
  BY <1>2, <1>3 DEF TypeOK
<1>9. /\ study'[q.study] = row
      /\ \A x \in Study : (x # q.study => study'[x] = study[x]) /\ (study[x] # None => study'[x] # None)
  BY <1>2, <1>3, <1>6 DEF TypeOK
<1>10. InterviewsOf(q.study)' = InterviewsOf(q.study) \cup {q.session}
  BY <1>2, <1>7, <1>8 DEF InterviewsOf
<1>11. q.session \notin InterviewsOf(q.study)
  BY <1>3 DEF InterviewsOf
<1>12. Cardinality(InterviewsOf(q.study)') = total
  BY <1>4, <1>10, <1>11, <1>20, FS_AddElement DEF n
<1>13. \A x \in Study \ {q.study} : InterviewsOf(x)' = InterviewsOf(x)
  BY <1>3, <1>2, <1>7, <1>8 DEF InterviewsOf
<1>14. \A x \in Study : study'[x] # None => study'[x].count = Cardinality(InterviewsOf(x)')
  BY <1>6, <1>9, <1>12, <1>13 DEF TablesAgree
<1>15. \A s \in Session : interview'[s] # None => study'[interview'[s].study] # None
  BY <1>2, <1>5, <1>6, <1>7, <1>8, <1>9 DEF TablesAgree, TypeOK, Maybe, InterviewRow
<1>16. \A m \in member' : interview'[m.session] # None
  BY <1>3, <1>7, <1>8 DEF TablesAgree, TypeOK
<1>17. /\ \A l \in Link : link'[l] # None => study'[link'[l].study] # None
       /\ \A s \in Session : consent'[s] # None => study'[consent'[s].study] # None
  BY <1>3, <1>9 DEF TablesAgree, TypeOK, Maybe, LinkRow, ConsentRow
<1> QED BY <1>14, <1>15, <1>16, <1>17 DEF TablesAgree

\* Every step keeps the tables in agreement.
LEMMA TablesAgreeStep ==
  ASSUME Types, TablesAgree, [Next]_vars
  PROVE  TablesAgree'
<1>0. TypeOK
  BY DEF Types
<1>1. ASSUME Calls PROVE TablesAgree'
  BY <1>1, CallsWriteNothing DEF TablesAgree, InterviewsOf
<1>2. ASSUME NEW e \in Editor, ReplaceStudyConfig(e) PROVE TablesAgree'
  <2> DEFINE st == edit[e].study
             row == [study[st] EXCEPT !.revision = @ + 1]
  <2>1. st \in Study /\ study[st] \in StudyRow /\ study[st] # None /\ study[st].revision < MaxRevision
    BY <1>0, <1>2 DEF ReplaceStudyConfig, TypeOK, Maybe, EditRow
  <2>2. row \in StudyRow /\ row.count = study[st].count
    BY <2>1, CollectionAssumption DEF StudyRow, Revision
  <2>3. study' = [study EXCEPT ![st] = row] /\ UNCHANGED <<link, consent, interview, member>>
    BY <1>2 DEF ReplaceStudyConfig
  <2> HIDE DEF row, st
  <2> QED BY <1>0, <2>1, <2>2, <2>3, SameCount, Zenon
<1>3. ASSUME NEW st \in Study, NEW access \in {"on", "off"}, SetStudyLinksEnabled(st, access) PROVE TablesAgree'
  <2> DEFINE row == [study[st] EXCEPT !.links = access]
  <2>1. study[st] \in StudyRow /\ study[st] # None
    BY <1>0, <1>3 DEF SetStudyLinksEnabled, TypeOK, Maybe
  <2>2. row \in StudyRow /\ row.count = study[st].count
    BY <2>1 DEF StudyRow, Access
  <2>3. study' = [study EXCEPT ![st] = row] /\ UNCHANGED <<link, consent, interview, member>>
    BY <1>3 DEF SetStudyLinksEnabled
  <2> HIDE DEF row
  <2> QED BY <1>0, <2>1, <2>2, <2>3, SameCount, Zenon
<1>4. CASE \/ \E l \in Link : RevokeParticipantLink(l) \/ \E created \in BOOLEAN : CreateParticipantLink(l, created)
           \/ \E call \in consentCall : RecordConsent(call)
  <2>1. UNCHANGED <<study, interview, member>>
    BY <1>4 DEF RevokeParticipantLink, CreateParticipantLink, RecordConsent
  <2> QED BY <1>0, <1>4, <2>1, LinkAndConsentAgree
<1> QED BY <1>0, <1>1, <1>2, <1>3, <1>4, Steps, CreateStudyAgrees, DeleteStudyAgrees, CompleteAgrees, CleanupAgrees
        DEF Writes

\* Whatever arrives late, nothing belongs to a study that is gone: links,
\* consents and interviews have their study, membership has its interview, and
\* the count of a study is the number of its interviews, through creation,
\* deletion, cleanup and commits in any order (studies.ts:558-587).
THEOREM RowsGoTogether == Spec => []TablesAgree
<1>1. Init => TablesAgree
  <2>1. SUFFICES ASSUME Init PROVE TablesAgree
    OBVIOUS
  <2>2. \A st \in Study : InterviewsOf(st) = {} /\ Cardinality(InterviewsOf(st)) = 0
    BY <2>1, FS_EmptySet DEF Init, InterviewsOf
  <2>3. \A st \in Study : study[st] # None => study[st].count = 0
    BY <2>1 DEF Init
  <2> QED BY <2>1, <2>2, <2>3 DEF Init, TablesAgree
<1>2. Types /\ TablesAgree /\ [Next]_vars => TablesAgree'
  BY TablesAgreeStep
<1> QED BY <1>1, <1>2, TypesHold, PTL DEF Spec

\* Types and TablesAgree hold together.
LEMMA TablesHold == Spec => [](Types /\ TablesAgree)
BY TypesHold, RowsGoTogether, PTL

-----------------------------------------------------------------------------
(* Keys and the studies they make.                                         *)

\* A study that exists, or that a session was given for, has been made.
StudiesAreMade == /\ \A st \in Study : study[st] # None => made[st] # None
                  /\ \A s \in Session : session[s] # None => made[session[s].study] # None
                  /\ \A st \in Study : made[st] # None => made[st].at <= now

\* The receipt of a study stays as long as it was granted for, whatever happens
\* to the study.
ReceiptsBind ==
  \A st \in Study : made[st] # None /\ made[st].key # None =>
    \/ made[st].at + ReceiptTTL <= now
    \/ receipt[made[st].key] # None /\ receipt[made[st].key].expires >= made[st].at + ReceiptTTL

KeyInv == StudiesAreMade /\ ReceiptsBind /\ KeyMakesOneStudy

\* The clock only goes forward.
LEMMA ClockAdvances ==
  ASSUME TypeOK, Writes \/ Calls
  PROVE  now \in Nat /\ now' \in Nat /\ now <= now'
<1>1. now \in Nat
  BY CollectionAssumption DEF TypeOK, Time
<1>2. Tick => now' = now + 1
  BY DEF Tick
<1>3. ~Tick => now' = now
  BY DEF Writes, CreateStudy, ReplaceStudyConfig, SetStudyLinksEnabled, DeleteStudy, RevokeParticipantLink,
         CreateParticipantLink, RecordConsent, CompleteInterview, Cleanup, Calls, OpenEdit, DropEdit, MintLink, Exchange,
         Agree, DropConsent, SetMaintenance, Deploy, vars, ReadsOn, Reads, ReplayInterview
<1> QED BY <1>1, <1>2, <1>3

\* Only creation makes a study, with an id that was never used.
LEMMA MadeOnce ==
  ASSUME Writes \/ Calls, ~ \E k \in Key, st \in Study : CreateStudy(k, st)
  PROVE  made' = made
BY DEF Writes, ReplaceStudyConfig, SetStudyLinksEnabled, DeleteStudy, RevokeParticipantLink,
       CreateParticipantLink, RecordConsent, CompleteInterview, Cleanup, Calls, OpenEdit, DropEdit, MintLink, Exchange,
       Agree, DropConsent, SetMaintenance, Deploy, Tick, vars, ReadsOn, Reads, ReplayInterview

\* Nothing but creation brings a study into being.
LEMMA StudiesComeOnce ==
  ASSUME TypeOK, Writes \/ Calls, ~ \E k \in Key, st \in Study : CreateStudy(k, st), NEW st \in Study, study'[st] # None
  PROVE  study[st] # None
<1>1. ASSUME Calls PROVE study' = study
  BY <1>1, CallsWriteNothing
<1>2. ASSUME NEW e \in Editor, ReplaceStudyConfig(e) PROVE study[st] # None
  BY <1>2 DEF ReplaceStudyConfig, TypeOK
<1>3. ASSUME NEW x \in Study, NEW access \in {"on", "off"}, SetStudyLinksEnabled(x, access) PROVE study[st] # None
  BY <1>3 DEF SetStudyLinksEnabled, TypeOK
<1>4. ASSUME NEW x \in Study, NEW confirmed \in BOOLEAN, DeleteStudy(x, confirmed) PROVE study[st] # None
  BY <1>4 DEF DeleteStudy, TypeOK
<1>5. ASSUME NEW r \in Request, NEW delivered \in BOOLEAN, CompleteInterview(r, delivered) PROVE study[st] # None
  BY <1>5 DEF CompleteInterview, Authorized, AtRevision, Enabled, TypeOK
<1>6. ASSUME \/ \E l \in Link : RevokeParticipantLink(l) \/ \E created \in BOOLEAN : CreateParticipantLink(l, created)
             \/ \E call \in consentCall : RecordConsent(call)
             \/ Cleanup
      PROVE  study' = study
  BY <1>6 DEF RevokeParticipantLink, CreateParticipantLink, RecordConsent, Cleanup
<1> QED BY <1>1, <1>2, <1>3, <1>4, <1>5, <1>6 DEF Writes

\* A session starts with the study of its link.
LEMMA SessionsStart ==
  ASSUME TypeOK, Writes \/ Calls, NEW s \in Session, session'[s] # None, session[s] = None
  PROVE  \E l \in Link : /\ Exchange(s, l) /\ session'[s].link = l /\ session'[s].study = link[l].study
                         /\ session'[s].revision = link[l].revision
<1>1. \/ session' = session
      \/ \E x \in Session, l \in Link : Exchange(x, l)
  BY DEF Writes, CreateStudy, ReplaceStudyConfig, SetStudyLinksEnabled, DeleteStudy, RevokeParticipantLink,
         CreateParticipantLink, RecordConsent, CompleteInterview, Cleanup, Calls, OpenEdit, DropEdit, MintLink,
         Agree, DropConsent, SetMaintenance, Deploy, Tick, vars, ReadsOn, Reads, ReplayInterview
<1>2. PICK x \in Session, l \in Link : Exchange(x, l)
  BY <1>1
<1>3. x = s
  BY <1>2 DEF Exchange, TypeOK
<1> QED BY <1>2, <1>3 DEF Exchange, TypeOK

\* The study of a link that admits is there.
LEMMA StudiesAreMadeStep ==
  ASSUME Types, TablesAgree, StudiesAreMade, [Next]_vars
  PROVE  StudiesAreMade'
<1>0. TypeOK /\ (Writes \/ Calls) /\ SessionsStay
  BY Steps, SessionsLast DEF Types
<1>1. now \in Nat /\ now' \in Nat /\ now <= now'
  BY <1>0, ClockAdvances
<1>2. \A st \in Study : made[st] # None => made[st].at \in Nat
  BY <1>0, CollectionAssumption DEF TypeOK, Maybe, Time
<1>3. ASSUME NEW k \in Key, NEW st \in Study, CreateStudy(k, st)
      PROVE  /\ made[st] = None /\ made'[st] # None /\ made'[st].at = now
             /\ \A x \in Study \ {st} : made'[x] = made[x] /\ study'[x] = study[x]
  <2>1. [key |-> k, at |-> now] # None
    BY <1>0, NoneIsNoRow DEF TypeOK, Maybe
  <2> QED BY <1>0, <1>3, <2>1 DEF CreateStudy, TypeOK
<1>4. \A st \in Study : made[st] # None => made'[st] = made[st]
  BY <1>0, <1>3, MadeOnce
<1>5. \A st \in Study : study'[st] # None => made'[st] # None
  BY <1>0, <1>3, <1>4, StudiesComeOnce DEF StudiesAreMade
<1>6. \A st \in Study : made'[st] # None => made'[st].at <= now'
  <2>1. TAKE st \in Study
  <2>2. HAVE made'[st] # None
  <2>3. CASE made[st] # None
    BY <1>1, <1>2, <1>4, <2>3 DEF StudiesAreMade
  <2>4. CASE made[st] = None
    <3>1. made'[st].at = now
      BY <1>0, <1>3, <2>2, <2>4, MadeOnce
    <3> QED BY <1>1, <3>1
  <2> QED BY <2>3, <2>4
<1>7. ASSUME NEW s \in Session, session'[s] # None PROVE made'[session'[s].study] # None
  <2>1. CASE session[s] # None
    BY <1>0, <1>4, <2>1 DEF SessionsStay, StudiesAreMade, TypeOK, Maybe, SessionRow
  <2>2. CASE session[s] = None
    <3>1. PICK l \in Link : Exchange(s, l) /\ session'[s].study = link[l].study
      BY <1>0, <1>7, <2>2, SessionsStart
    <3>2. link[l].study \in Study /\ study[link[l].study] # None
      BY <1>0, <3>1 DEF Exchange, LinkAdmits, LinkFound, AtRevision, Enabled, TypeOK, Maybe, LinkRow
    <3> QED BY <1>4, <3>1, <3>2 DEF StudiesAreMade
  <2> QED BY <2>1, <2>2
<1> QED BY <1>5, <1>6, <1>7 DEF StudiesAreMade

\* Receipts last: deletion marks them, cleanup takes only those that have expired.
LEMMA ReceiptsLast ==
  ASSUME TypeOK, Writes \/ Calls, NEW k \in Key, receipt[k] # None, ~ \E st \in Study : CreateStudy(k, st)
  PROVE  \/ receipt'[k] # None /\ receipt'[k].expires = receipt[k].expires
         \/ receipt[k].expires <= now
<1>0. receipt[k] \in ReceiptRow
  BY DEF TypeOK, Maybe
<1>1. ASSUME NEW st \in Study, NEW confirmed \in BOOLEAN, DeleteStudy(st, confirmed)
      PROVE  receipt'[k] # None /\ receipt'[k].expires = receipt[k].expires
  <2>1. [receipt[k] EXCEPT !.disposition = "deleted"] # None
    BY <1>0, NoneIsNoRow DEF ReceiptRow
  <2> QED BY <1>0, <1>1, <2>1 DEF DeleteStudy, ReceiptRow
<1>2. ASSUME NEW j \in Key, NEW st \in Study, CreateStudy(j, st) PROVE receipt'[k] = receipt[k]
  BY <1>2 DEF CreateStudy, TypeOK
<1>3. CASE Cleanup
  BY <1>3 DEF Cleanup
<1>4. ASSUME \/ Calls
             \/ \E e \in Editor : ReplaceStudyConfig(e)
             \/ \E st \in Study, access \in {"on", "off"} : SetStudyLinksEnabled(st, access)
             \/ \E l \in Link : RevokeParticipantLink(l) \/ \E created \in BOOLEAN : CreateParticipantLink(l, created)
             \/ \E call \in consentCall : RecordConsent(call)
             \/ \E r \in Request, delivered \in BOOLEAN : CompleteInterview(r, delivered)
      PROVE  receipt' = receipt
  BY <1>4, CallsWriteNothing DEF ReplaceStudyConfig, SetStudyLinksEnabled, RevokeParticipantLink, CreateParticipantLink,
     RecordConsent, CompleteInterview
<1> QED BY <1>1, <1>2, <1>3, <1>4 DEF Writes

\* While a receipt binds its key, no other study is made with that key.
LEMMA KeyInvStep ==
  ASSUME Types, TablesAgree, KeyInv, [Next]_vars
  PROVE  KeyInv'
<1>0. TypeOK /\ (Writes \/ Calls) /\ StudiesAreMade' /\ ReceiptTTL \in Nat
  BY Steps, StudiesAreMadeStep, CollectionAssumption DEF Types, KeyInv
<1>1. now \in Nat /\ now' \in Nat /\ now <= now'
  BY <1>0, ClockAdvances
<1>2. /\ \A st \in Study : made[st] # None => made[st].at \in Nat
      /\ \A st \in Study : made[st] # None /\ made[st].key # None => made[st].key \in Key
      /\ \A k \in Key : receipt[k] # None => receipt[k].expires \in Nat
  BY <1>0, CollectionAssumption DEF TypeOK, Maybe, Time, ReceiptRow
<1>3. CASE ~ \E k \in Key, st \in Study : CreateStudy(k, st)
  <2>1. made' = made
    BY <1>0, <1>3, MadeOnce
  <2>2. ASSUME NEW st \in Study, made[st] # None, made[st].key # None, ~ (made[st].at + ReceiptTTL <= now')
        PROVE  receipt'[made[st].key] # None /\ receipt'[made[st].key].expires >= made[st].at + ReceiptTTL
    <3> DEFINE k == made[st].key
    <3>1. k \in Key /\ made[st].at \in Nat
      BY <1>2, <2>2
    <3>2. receipt[k] # None /\ receipt[k].expires >= made[st].at + ReceiptTTL
      BY <1>0, <1>1, <2>2, <3>1 DEF KeyInv, ReceiptsBind
    <3> HIDE DEF k
    <3>3. \/ receipt'[k] # None /\ receipt'[k].expires = receipt[k].expires
          \/ receipt[k].expires <= now
      BY <1>0, <1>3, <3>1, <3>2, ReceiptsLast
    <3>4. ~ (receipt[k].expires <= now)
      BY <1>0, <1>1, <1>2, <2>2, <3>1, <3>2
    <3> QED BY <3>2, <3>3, <3>4 DEF k
  <2> QED BY <1>0, <2>1, <2>2 DEF KeyInv, ReceiptsBind, KeyMakesOneStudy
<1>4. ASSUME NEW k \in Key, NEW st \in Study, CreateStudy(k, st)
      PROVE  KeyInv'
  <2> DEFINE row == [study |-> st, disposition |-> "created", expires |-> now + ReceiptTTL]
             new == [key |-> k, at |-> now]
  <2>1. row # None /\ row.expires = now + ReceiptTTL /\ new # None /\ new.key = k /\ new.at = now /\ k # None
    BY <1>0, <1>1, CollectionAssumption, NoneIsNoRow DEF ReceiptRow, TypeOK, Maybe
  <2>2. receipt' = [receipt EXCEPT ![k] = row] /\ made' = [made EXCEPT ![st] = new] /\ made[st] = None /\ now' = now
    BY <1>4 DEF CreateStudy
  <2>3. receipt[k] # None => receipt[k].expires <= now
    BY <1>1, <1>2, <1>4 DEF CreateStudy, ReceiptBinds, ReceiptLives
  <2> HIDE DEF row, new
  <2>4. /\ made'[st] = new /\ receipt'[k] = row
        /\ \A x \in Study \ {st} : made'[x] = made[x]
        /\ \A j \in Key \ {k} : receipt'[j] = receipt[j]
    BY <1>0, <2>2 DEF TypeOK
  <2>5. ASSUME NEW x \in Study \ {st}, made[x] # None, made[x].key = k PROVE made[x].at + ReceiptTTL <= now
    BY <1>0, <1>1, <1>2, <2>1, <2>3, <2>5 DEF KeyInv, ReceiptsBind
  <2>6. ReceiptsBind'
    <3>1. SUFFICES ASSUME NEW x \in Study, made'[x] # None, made'[x].key # None
                   PROVE  \/ made'[x].at + ReceiptTTL <= now'
                          \/ receipt'[made'[x].key] # None /\ receipt'[made'[x].key].expires >= made'[x].at + ReceiptTTL
      BY DEF ReceiptsBind
    <3>2. CASE x = st
      BY <1>0, <1>1, <2>1, <2>4, <3>2
    <3>3. CASE x # st /\ made[x].key = k
      BY <2>2, <2>4, <2>5, <3>1, <3>3
    <3>4. CASE x # st /\ made[x].key # k
      BY <1>2, <2>2, <2>4, <3>1, <3>4 DEF KeyInv, ReceiptsBind
    <3> QED BY <3>2, <3>3, <3>4
  <2>7. KeyMakesOneStudy'
    BY <2>1, <2>2, <2>4, <2>5 DEF KeyInv, KeyMakesOneStudy
  <2> QED BY <1>0, <2>6, <2>7 DEF KeyInv
<1> QED BY <1>3, <1>4

\* Receipts and made studies stay as described.
LEMMA KeysHold == Spec => []KeyInv
<1>1. Init => KeyInv
  <2>1. SUFFICES ASSUME Init PROVE KeyInv
    OBVIOUS
  <2>2. [key |-> None, at |-> 0] # None
    BY CollectionAssumption, NoneIsNoRow DEF Maybe, Time
  <2>3. \A st \in Study : /\ study[st] # None => made[st] # None
                          /\ made[st] # None => made[st].key = None /\ made[st].at = 0
    BY <2>1, <2>2 DEF Init
  <2>4. \A s \in Session : session[s] = None
    BY <2>1 DEF Init
  <2>5. now = 0
    BY <2>1 DEF Init
  <2> QED BY <2>3, <2>4, <2>5 DEF KeyInv, StudiesAreMade, ReceiptsBind, KeyMakesOneStudy
<1>2. Types /\ TablesAgree /\ KeyInv /\ [Next]_vars => KeyInv'
  BY KeyInvStep
<1> QED BY <1>1, <1>2, TablesHold, PTL DEF Spec

\* One idempotency key makes one study while its receipt lives, although the
\* study is deleted, cleanup runs and the request is repeated in between.
THEOREM OneStudyForAKey == Spec => []KeyMakesOneStudy
BY KeysHold, PTL DEF KeyInv

-----------------------------------------------------------------------------
(* Evidence: what a session agreed to travels with it.                     *)

\* What was pinned to a session when its link was exchanged.
PinnedTo(x, s) == session[s] # None /\ x.study = session[s].study /\ x.revision = session[s].revision

CallsPinned ==
  \A call \in consentCall :
    PinnedTo(call, call.session) /\ call.transport = session[call.session].shown
    /\ call.at <= now /\ now <= call.at + MaxLate

ConsentsPinned ==
  \A s \in Session : consent[s] # None =>
    PinnedTo(consent[s], s) /\ consent[s].transport = session[s].shown
    /\ consent[s].acceptedAt <= now /\ consent[s].expires = consent[s].acceptedAt + ConsentTTL

SavesPinned ==
  \A r \in Request : save[r] # None =>
    /\ save[r].phase \in {"verified", "sent"} => save[r].acceptedAt <= now
    /\ save[r].phase = "sent" =>
         save[r].acceptedAt <= save[r].at /\ save[r].at <= now /\ now <= save[r].at + MaxLate

InterviewsPinned ==
  \A s \in Session : interview[s] # None =>
    /\ PinnedTo(interview[s], s) /\ interview[s].transport = session[s].shown
    /\ interview[s].acceptedAt <= interview[s].completedAt
    /\ interview[s].completedAt < interview[s].acceptedAt + ConsentTTL
    /\ interview[s].completedAt <= now

Pinned == CallsPinned /\ ConsentsPinned /\ SavesPinned /\ InterviewsPinned

\* A consent row stays, goes, or is written from an agreement that may be stored.
ConsentRowOf(call) ==
  [study |-> call.study, revision |-> call.revision, language |-> call.language,
   transport |-> call.transport, acceptedAt |-> call.at, expires |-> call.at + ConsentTTL]

\* What a step may do to a consent row.
LEMMA ConsentSteps ==
  ASSUME TypeOK, Writes \/ Calls, NEW s \in Session
  PROVE  \/ consent'[s] = consent[s] \/ consent'[s] = None
         \/ \E call \in consentCall : /\ call.session = s /\ ConsentStorable(call) /\ RecordConsent(call)
                                      /\ consent'[s] = ConsentRowOf(call)
<1>1. ASSUME NEW call \in consentCall, RecordConsent(call), consent'[s] # consent[s]
      PROVE  call.session = s /\ ConsentStorable(call) /\ consent'[s] = ConsentRowOf(call)
  BY <1>1 DEF RecordConsent, TypeOK, ConsentRowOf
<1>2. ASSUME \/ Calls
             \/ \E k \in Key, st \in Study : CreateStudy(k, st)
             \/ \E e \in Editor : ReplaceStudyConfig(e)
             \/ \E st \in Study, access \in {"on", "off"} : SetStudyLinksEnabled(st, access)
             \/ \E l \in Link : RevokeParticipantLink(l) \/ \E created \in BOOLEAN : CreateParticipantLink(l, created)
             \/ \E r \in Request, delivered \in BOOLEAN : CompleteInterview(r, delivered)
      PROVE  consent' = consent
  BY <1>2, CallsWriteNothing DEF CreateStudy, ReplaceStudyConfig, SetStudyLinksEnabled, RevokeParticipantLink,
     CreateParticipantLink, CompleteInterview
<1>3. ASSUME Cleanup \/ \E st \in Study, confirmed \in BOOLEAN : DeleteStudy(st, confirmed)
      PROVE  consent'[s] = consent[s] \/ consent'[s] = None
  BY <1>3 DEF Cleanup, DeleteStudy
<1> QED BY <1>1, <1>2, <1>3 DEF Writes

\* An interview stays, goes, or is written by the commit of a save.
LEMMA InterviewSteps ==
  ASSUME TypeOK, Writes \/ Calls, NEW s \in Session
  PROVE  \/ interview'[s] = interview[s] \/ interview'[s] = None
         \/ \E r \in Request, delivered \in BOOLEAN :
              /\ CompleteInterview(r, delivered) /\ save[r].session = s /\ interview'[s] = Record(save[r])
<1>1. ASSUME NEW r \in Request, NEW delivered \in BOOLEAN, CompleteInterview(r, delivered), interview'[s] # interview[s]
      PROVE  save[r].session = s /\ interview'[s] = Record(save[r])
  BY <1>1 DEF CompleteInterview, TypeOK
<1>2. ASSUME \/ Calls
             \/ \E k \in Key, st \in Study : CreateStudy(k, st)
             \/ \E e \in Editor : ReplaceStudyConfig(e)
             \/ \E st \in Study, access \in {"on", "off"} : SetStudyLinksEnabled(st, access)
             \/ \E l \in Link : RevokeParticipantLink(l) \/ \E created \in BOOLEAN : CreateParticipantLink(l, created)
             \/ \E call \in consentCall : RecordConsent(call)
             \/ Cleanup
      PROVE  interview' = interview
  BY <1>2, CallsWriteNothing DEF CreateStudy, ReplaceStudyConfig, SetStudyLinksEnabled, RevokeParticipantLink,
     CreateParticipantLink, RecordConsent, Cleanup
<1>3. ASSUME NEW st \in Study, NEW confirmed \in BOOLEAN, DeleteStudy(st, confirmed)
      PROVE  interview'[s] = interview[s] \/ interview'[s] = None
  BY <1>3 DEF DeleteStudy
<1> QED BY <1>1, <1>2, <1>3 DEF Writes

\* An agreement in flight is old, or was just sent for the page's transport.
LEMMA CallSteps ==
  ASSUME TypeOK, Writes \/ Calls, NEW call \in consentCall'
  PROVE  \/ call \in consentCall
         \/ /\ call.session \in Session /\ session[call.session] # None
            /\ call.study = session[call.session].study /\ call.revision = session[call.session].revision
            /\ call.transport = session[call.session].shown /\ call.at = now /\ now' = now
<1>1. ASSUME NEW s \in Session, NEW language \in Language, Agree(s, language), call \notin consentCall
      PROVE  /\ call.session \in Session /\ session[call.session] # None
             /\ call.study = session[call.session].study /\ call.revision = session[call.session].revision
             /\ call.transport = session[call.session].shown /\ call.at = now /\ now' = now
  <2>1. call = [session |-> s, study |-> session[s].study, revision |-> session[s].revision,
                language |-> language, transport |-> deployed, at |-> now]
    BY <1>1 DEF Agree
  <2> QED BY <1>1, <2>1 DEF Agree, SessionAdmitted, DisclosureCurrent
<1>2. ASSUME ~ \E s \in Session, language \in Language : Agree(s, language)
      PROVE  consentCall' \subseteq consentCall
  BY <1>2 DEF Writes, CreateStudy, ReplaceStudyConfig, SetStudyLinksEnabled, DeleteStudy, RevokeParticipantLink,
         CreateParticipantLink, RecordConsent, CompleteInterview, Cleanup, Calls, OpenEdit, DropEdit, MintLink, Exchange,
         DropConsent, SetMaintenance, Deploy, Tick, vars, calls, ReadsOn, Reads, ReplayInterview
<1> QED BY <1>1, <1>2

\* Time does not pass a write that is due.
LEMMA TimeWaits ==
  ASSUME TypeOK, Writes \/ Calls
  PROVE  \/ now' = now
         \/ /\ now' = now + 1 /\ UNCHANGED <<rows, session, calls>>
            /\ \A r \in Request : save[r] # None /\ save[r].phase = "sent" => now < save[r].at + MaxLate
            /\ \A call \in consentCall : now < call.at + MaxLate
<1>1. Tick => /\ now' = now + 1 /\ UNCHANGED <<rows, session, calls>>
              /\ \A r \in Request : save[r] # None /\ save[r].phase = "sent" => now < save[r].at + MaxLate
              /\ \A call \in consentCall : now < call.at + MaxLate
  BY DEF Tick, InTime
<1>2. ~Tick => now' = now
  BY DEF Writes, CreateStudy, ReplaceStudyConfig, SetStudyLinksEnabled, DeleteStudy, RevokeParticipantLink,
         CreateParticipantLink, RecordConsent, CompleteInterview, Cleanup, Calls, OpenEdit, DropEdit, MintLink, Exchange,
         Agree, DropConsent, SetMaintenance, Deploy, vars, ReadsOn, Reads, ReplayInterview
<1> QED BY <1>1, <1>2

\* An agreement is of the page that was shown, and is executed while it is in time.
LEMMA CallsPinnedStep ==
  ASSUME TypeOK, Writes \/ Calls, SessionsStay, CallsPinned
  PROVE  CallsPinned'
<1>1. now \in Nat /\ MaxLate \in Nat /\ now' \in Nat /\ now <= now'
  BY ClockAdvances, CollectionAssumption
<1>2. SUFFICES ASSUME NEW call \in consentCall'
               PROVE  /\ PinnedTo(call, call.session)' /\ call.transport = session'[call.session].shown
                      /\ call.at <= now' /\ now' <= call.at + MaxLate
  BY DEF CallsPinned
<1>3. call \in consentCall => call.session \in Session /\ call.at \in Nat
  BY CollectionAssumption DEF TypeOK, ConsentCall, Time
<1>4. CASE call \in consentCall
  <2>1. PinnedTo(call, call.session)' /\ call.transport = session'[call.session].shown
    BY <1>3, <1>4 DEF CallsPinned, PinnedTo, SessionsStay
  <2>2. call.at <= now' /\ now' <= call.at + MaxLate
    BY <1>1, <1>3, <1>4, TimeWaits DEF CallsPinned
  <2> QED BY <2>1, <2>2
<1>5. CASE call \notin consentCall
  <2>1. /\ call.session \in Session /\ session[call.session] # None
        /\ call.study = session[call.session].study /\ call.revision = session[call.session].revision
        /\ call.transport = session[call.session].shown /\ call.at = now /\ now' = now
    BY <1>2, <1>5, CallSteps
  <2> QED BY <1>1, <2>1 DEF PinnedTo, SessionsStay
<1> QED BY <1>4, <1>5

\* A stored consent is of the session it was given in.
LEMMA ConsentsPinnedStep ==
  ASSUME TypeOK, Writes \/ Calls, SessionsStay, CallsPinned, ConsentsPinned
  PROVE  ConsentsPinned'
<1>1. now \in Nat /\ now' \in Nat /\ now <= now'
  BY ClockAdvances, CollectionAssumption
<1>2. SUFFICES ASSUME NEW s \in Session, consent'[s] # None
               PROVE  /\ PinnedTo(consent[s], s)' /\ consent'[s].transport = session'[s].shown
                      /\ consent'[s].acceptedAt <= now'
                      /\ consent'[s].expires = consent'[s].acceptedAt + ConsentTTL
  BY DEF ConsentsPinned
<1>3. CASE consent'[s] = consent[s]
  <2>1. consent[s].acceptedAt \in Nat
    BY <1>2, <1>3, CollectionAssumption DEF TypeOK, Maybe, ConsentRow, Time
  <2> QED BY <1>1, <1>2, <1>3, <2>1 DEF ConsentsPinned, PinnedTo, SessionsStay
<1>4. ASSUME NEW call \in consentCall, call.session = s, consent'[s] = ConsentRowOf(call)
      PROVE  /\ PinnedTo(consent[s], s)' /\ consent'[s].transport = session'[s].shown
             /\ consent'[s].acceptedAt <= now'
             /\ consent'[s].expires = consent'[s].acceptedAt + ConsentTTL
  <2>1. call.at \in Nat /\ call.at <= now /\ PinnedTo(call, s) /\ call.transport = session[s].shown
    BY <1>4, CollectionAssumption DEF TypeOK, ConsentCall, Time, CallsPinned
  <2>2. /\ consent'[s].study = call.study /\ consent'[s].revision = call.revision
        /\ consent'[s].transport = call.transport /\ consent'[s].acceptedAt = call.at
        /\ consent'[s].expires = call.at + ConsentTTL
    BY <1>4 DEF ConsentRowOf
  <2> QED BY <1>1, <2>1, <2>2 DEF PinnedTo, SessionsStay
<1> QED BY <1>2, <1>3, <1>4, ConsentSteps

\* A save carries times that have passed, and is executed while it is in time.
LEMMA SavesPinnedStep ==
  ASSUME TypeOK, Writes \/ Calls, ConsentsPinned, SavesPinned
  PROVE  SavesPinned'
<1>1. now \in Nat /\ now' \in Nat /\ now <= now' /\ MaxLate \in Nat
  BY ClockAdvances, CollectionAssumption
<1>2. SUFFICES ASSUME NEW r \in Request, save'[r] # None
               PROVE  /\ save'[r].phase \in {"verified", "sent"} => save'[r].acceptedAt <= now'
                      /\ save'[r].phase = "sent" =>
                           save'[r].acceptedAt <= save'[r].at /\ save'[r].at <= now' /\ now' <= save'[r].at + MaxLate
  BY DEF SavesPinned
<1>3. SaveMoves(r)
  BY WritesMoveSaves, CallsMoveSaves DEF SaveMoves
<1>4. save[r] # None => save[r] \in SaveRequest
  BY DEF TypeOK, Maybe
<1>5. save[r] # None => /\ save[r].phase \in {"verified", "sent"} => save[r].acceptedAt \in Nat
                        /\ save[r].phase = "sent" => save[r].at \in Nat
                        /\ save[r].session \in Session
  BY <1>4, SaveRequestIs, CollectionAssumption DEF Time
<1>6. CASE save'[r] = save[r]
  BY <1>1, <1>2, <1>5, <1>6, TimeWaits DEF SavesPinned
<1>7. CASE save'[r] # save[r]
  <2>1. now' = now
    BY <1>7, TimeWaits DEF calls
  <2>2. CASE \E s \in Session : Opened(r, s)
    BY <2>2 DEF Opened
  <2>3. CASE save[r] # None /\ Loaded(r)
    BY <2>3 DEF Loaded
  <2>4. CASE save[r] # None /\ Verified(r)
    <3>1. consent[save[r].session].acceptedAt <= now
      BY <1>5, <2>4 DEF Verified, ConsentsPinned
    <3> QED BY <2>1, <2>4, <3>1 DEF Verified
  <2>5. CASE save[r] # None /\ Sent(r)
    BY <1>1, <1>5, <2>1, <2>5 DEF Sent, SavesPinned
  <2> QED BY <1>2, <1>3, <1>7, <2>2, <2>3, <2>4, <2>5 DEF SaveMoves
<1> QED BY <1>6, <1>7

\* What a commit checks ties its record to the session's consent.
LEMMA CommitIsPinned ==
  ASSUME TypeOK, ConsentsPinned, SavesPinned, NEW r \in Request, NEW delivered \in BOOLEAN, CompleteInterview(r, delivered)
  PROVE  /\ save[r].session \in Session /\ PinnedTo(save[r], save[r].session)
         /\ save[r].transport = session[save[r].session].shown
         /\ save[r].acceptedAt <= save[r].at /\ save[r].at < save[r].acceptedAt + ConsentTTL /\ save[r].at <= now
         /\ save[r].acceptedAt \in Nat /\ save[r].at \in Nat
         /\ consent[save[r].session] # None /\ consent[save[r].session].acceptedAt = save[r].acceptedAt
         /\ consent[save[r].session].language = save[r].language
<1>0. PICK q : q = save[r]
  OBVIOUS
<1>1. q # None /\ q \in SaveRequest /\ q.phase = "sent" /\ Authorized(q)
  BY <1>0 DEF CompleteInterview, TypeOK, Maybe
<1>2. q.session \in Session /\ q.acceptedAt \in Nat /\ q.at \in Nat
  BY <1>1, SaveRequestIs, CollectionAssumption DEF Time
<1>3. q.acceptedAt <= q.at /\ q.at <= now
  BY <1>0, <1>1 DEF SavesPinned
<1> DEFINE row == consent[q.session]
<1>4. /\ row # None /\ ~Expired(row, q.at) /\ row.study = q.study /\ row.revision = q.revision
      /\ row.language = q.language /\ row.acceptedAt = q.acceptedAt /\ row.transport = q.transport
  BY <1>1 DEF Authorized, ConsentFound, ConsentMatches
<1>5. PinnedTo(row, q.session) /\ row.transport = session[q.session].shown
      /\ row.expires = row.acceptedAt + ConsentTTL
  BY <1>2, <1>4 DEF ConsentsPinned
<1>6. row.expires \in Nat /\ row.expires # None
  BY <1>2, <1>4, CollectionAssumption DEF TypeOK, Maybe, ConsentRow
<1>7. q.at < row.expires
  BY <1>2, <1>4, <1>6 DEF Expired
<1> QED BY <1>0, <1>2, <1>3, <1>4, <1>5, <1>6, <1>7 DEF PinnedTo

\* A kept interview is of its session, and was sent while its consent was valid.
LEMMA InterviewsPinnedStep ==
  ASSUME TypeOK, Writes \/ Calls, SessionsStay, ConsentsPinned, SavesPinned, InterviewsPinned
  PROVE  InterviewsPinned'
<1>1. now \in Nat /\ now' \in Nat /\ now <= now'
  BY ClockAdvances, CollectionAssumption
<1> DEFINE Good(s) == /\ PinnedTo(interview[s], s) /\ interview[s].transport = session[s].shown
                      /\ interview[s].acceptedAt <= interview[s].completedAt
                      /\ interview[s].completedAt < interview[s].acceptedAt + ConsentTTL
                      /\ interview[s].completedAt <= now
<1>2. SUFFICES ASSUME NEW s \in Session, interview'[s] # None PROVE Good(s)'
  BY DEF InterviewsPinned
<1>3. CASE interview'[s] = interview[s]
  <2>1. interview[s].completedAt \in Nat
    BY <1>2, <1>3, CollectionAssumption DEF TypeOK, Maybe, InterviewRow, Time
  <2> QED BY <1>1, <1>2, <1>3, <2>1 DEF InterviewsPinned, PinnedTo, SessionsStay
<1>4. ASSUME NEW r \in Request, NEW delivered \in BOOLEAN, CompleteInterview(r, delivered),
             save[r].session = s, interview'[s] = Record(save[r])
      PROVE  Good(s)'
  <2>1. /\ PinnedTo(save[r], s) /\ save[r].transport = session[s].shown
        /\ save[r].acceptedAt <= save[r].at /\ save[r].at < save[r].acceptedAt + ConsentTTL /\ save[r].at <= now
        /\ save[r].at \in Nat
    BY <1>4, CommitIsPinned
  <2>2. /\ interview'[s].study = save[r].study /\ interview'[s].revision = save[r].revision
        /\ interview'[s].transport = save[r].transport /\ interview'[s].acceptedAt = save[r].acceptedAt
        /\ interview'[s].completedAt = save[r].at
    BY <1>4 DEF Record
  <2> QED BY <1>1, <2>1, <2>2 DEF PinnedTo, SessionsStay
<1> QED BY <1>2, <1>3, <1>4, InterviewSteps

\* What is pinned to a session stays so.
LEMMA PinnedHolds == Spec => [](Types /\ Pinned)
<1>1. Init => Pinned
  BY DEF Init, Pinned, CallsPinned, ConsentsPinned, SavesPinned, InterviewsPinned
<1>2. Types /\ Pinned /\ [Next]_vars => Pinned'
  <2>1. SUFFICES ASSUME Types, Pinned, [Next]_vars PROVE Pinned'
    OBVIOUS
  <2>2. TypeOK /\ (Writes \/ Calls) /\ SessionsStay
    BY <2>1, Steps, SessionsLast DEF Types
  <2> QED BY <2>1, <2>2, CallsPinnedStep, ConsentsPinnedStep, SavesPinnedStep, InterviewsPinnedStep DEF Pinned
<1> QED BY <1>1, <1>2, TypesHold, PTL DEF Spec

\* A consent goes when it has expired, or with its study and the interviews there.
LEMMA ConsentsGo ==
  ASSUME TypeOK, Writes \/ Calls, NEW s \in Session, consent[s] # None, consent'[s] = None
  PROVE  \/ Expired(consent[s], now)
         \/ /\ study'[consent[s].study] = None
            /\ interview[s] # None /\ interview[s].study = consent[s].study => interview'[s] = None
<1>1. ASSUME NEW call \in consentCall, RecordConsent(call) PROVE FALSE
  <2>1. consent'[s] = ConsentRowOf(call)
    BY <1>1 DEF RecordConsent, TypeOK, ConsentRowOf
  <2>2. ConsentRowOf(call) \in ConsentRow
    BY CollectionAssumption DEF TypeOK, ConsentCall, ConsentRowOf, ConsentRow, Time
  <2> QED BY <2>1, <2>2, NoneIsNoRow
<1>2. ASSUME \/ Calls
             \/ \E k \in Key, st \in Study : CreateStudy(k, st)
             \/ \E e \in Editor : ReplaceStudyConfig(e)
             \/ \E st \in Study, access \in {"on", "off"} : SetStudyLinksEnabled(st, access)
             \/ \E l \in Link : RevokeParticipantLink(l) \/ \E created \in BOOLEAN : CreateParticipantLink(l, created)
             \/ \E r \in Request, delivered \in BOOLEAN : CompleteInterview(r, delivered)
      PROVE  consent' = consent
  BY <1>2, CallsWriteNothing DEF CreateStudy, ReplaceStudyConfig, SetStudyLinksEnabled, RevokeParticipantLink,
     CreateParticipantLink, CompleteInterview
<1>3. CASE Cleanup
  BY <1>3 DEF Cleanup
<1>4. ASSUME NEW st \in Study, NEW confirmed \in BOOLEAN, DeleteStudy(st, confirmed)
      PROVE  /\ study'[consent[s].study] = None
             /\ interview[s] # None /\ interview[s].study = consent[s].study => interview'[s] = None
  BY <1>4 DEF DeleteStudy, InterviewsOf, TypeOK
<1> QED BY <1>1, <1>2, <1>3, <1>4 DEF Writes

\* A kept interview's consent is still there, or has expired; a later one of the
\* same session is later by the time it was given.
ConsentsFollow ==
  \A s \in Session : interview[s] # None =>
    /\ consent[s] = None => interview[s].acceptedAt + ConsentTTL <= now
    /\ consent[s] # None =>
         /\ interview[s].acceptedAt <= consent[s].acceptedAt
         /\ consent[s].acceptedAt = interview[s].acceptedAt =>
              consent[s].language = interview[s].language /\ consent[s].transport = interview[s].transport

\* A second agreement is stored only after the first has expired, and no call is
\* so late that it was sent before the first was given.
LEMMA ConsentsFollowStep ==
  ASSUME TypeOK, Writes \/ Calls, MaxLate < ConsentTTL, Pinned, ConsentsFollow
  PROVE  ConsentsFollow'
<1>1. /\ now \in Nat /\ now' \in Nat /\ now <= now' /\ MaxLate \in Nat /\ ConsentTTL \in Nat
      /\ CallsPinned /\ ConsentsPinned /\ SavesPinned /\ InterviewsPinned
  BY ClockAdvances, CollectionAssumption DEF Pinned
<1> DEFINE Follows(s) ==
      /\ consent[s] = None => interview[s].acceptedAt + ConsentTTL <= now
      /\ consent[s] # None =>
           /\ interview[s].acceptedAt <= consent[s].acceptedAt
           /\ consent[s].acceptedAt = interview[s].acceptedAt =>
                consent[s].language = interview[s].language /\ consent[s].transport = interview[s].transport
<1>2. SUFFICES ASSUME NEW s \in Session, interview'[s] # None PROVE Follows(s)'
  BY DEF ConsentsFollow
<1>3. consent[s] # None => consent[s].acceptedAt \in Nat /\ consent[s].expires \in Nat
  BY CollectionAssumption DEF TypeOK, Maybe, ConsentRow, Time
<1>4. CASE interview'[s] = interview[s]
  <2>1. interview[s].acceptedAt \in Nat /\ Follows(s)
    BY <1>2, <1>4, CollectionAssumption DEF TypeOK, Maybe, InterviewRow, Time, ConsentsFollow
  <2>2. CASE consent'[s] = consent[s]
    BY <1>1, <1>4, <2>1, <2>2
  <2>3. CASE consent'[s] = None /\ consent[s] # None
    <3>1. interview[s].study = consent[s].study
      BY <1>1, <1>2, <1>4, <2>3 DEF ConsentsPinned, InterviewsPinned, PinnedTo
    <3>2. Expired(consent[s], now)
      BY <1>2, <1>4, <2>3, <3>1, ConsentsGo
    <3>3. consent[s].expires <= now /\ consent[s].expires = consent[s].acceptedAt + ConsentTTL
      BY <1>1, <2>3, <3>2 DEF Expired, ConsentsPinned
    <3> QED BY <1>1, <1>3, <1>4, <2>1, <2>3, <3>3
  <2>4. ASSUME NEW call \in consentCall, call.session = s, ConsentStorable(call), consent'[s] = ConsentRowOf(call)
        PROVE  Follows(s)'
    <3>1. call.at \in Nat /\ now <= call.at + MaxLate
      BY <1>1, CollectionAssumption DEF TypeOK, ConsentCall, Time, CallsPinned
    <3>2. interview[s].acceptedAt < call.at
      <4>1. CASE consent[s] = None
        BY <1>1, <2>1, <3>1, <4>1
      <4>2. CASE consent[s] # None
        <5>1. consent[s].expires <= call.at
          BY <2>4, <4>2 DEF ConsentStorable, ConsentFound, Expired
        <5>2. consent[s].expires = consent[s].acceptedAt + ConsentTTL /\ ConsentTTL > 0
          BY <1>1, <4>2, CollectionAssumption DEF ConsentsPinned
        <5> QED BY <1>1, <1>3, <2>1, <3>1, <4>2, <5>1, <5>2
      <4> QED BY <4>1, <4>2
    <3>3. consent'[s].acceptedAt = call.at /\ consent'[s] # None
      <4>1. ConsentRowOf(call) \in ConsentRow
        BY <1>1 DEF TypeOK, ConsentCall, ConsentRowOf, ConsentRow, Time
      <4> QED BY <2>4, <4>1, NoneIsNoRow DEF ConsentRowOf
    <3> QED BY <1>4, <2>1, <3>1, <3>2, <3>3
  <2> QED BY <2>2, <2>3, <2>4, ConsentSteps
<1>5. ASSUME NEW r \in Request, NEW delivered \in BOOLEAN, CompleteInterview(r, delivered),
             save[r].session = s, interview'[s] = Record(save[r])
      PROVE  Follows(s)'
  <2>1. /\ save[r].transport = session[s].shown /\ save[r].acceptedAt \in Nat
        /\ consent[s] # None /\ consent[s].acceptedAt = save[r].acceptedAt
        /\ consent[s].language = save[r].language
    BY <1>1, <1>5, CommitIsPinned
  <2>2. consent' = consent /\ consent[s].transport = session[s].shown
    BY <1>1, <1>5, <2>1 DEF CompleteInterview, ConsentsPinned
  <2>3. /\ interview'[s].language = save[r].language /\ interview'[s].transport = save[r].transport
        /\ interview'[s].acceptedAt = save[r].acceptedAt
    BY <1>5 DEF Record
  <2> QED BY <2>1, <2>2, <2>3
<1> QED BY <1>2, <1>4, <1>5, InterviewSteps

\* The evidence on a permanent record is what its participant agreed to: the
\* study, revision and transport of the page shown, under a consent that was
\* valid when the interview was sent (completion.ts:281-297).  A request must end
\* before a consent does (participantConsent.ts:5 keeps one for four hours):
\* otherwise an agreement as old as the first can be stored after cleanup has
\* taken the first, in another language, and carry the same time.
THEOREM EvidenceHolds == MaxLate < ConsentTTL => (Spec => []EvidenceAgrees)
<1>1. SUFFICES ASSUME MaxLate < ConsentTTL PROVE Spec => []EvidenceAgrees
  OBVIOUS
<1>2. Init => ConsentsFollow
  BY DEF Init, ConsentsFollow
<1>3. Types /\ Pinned /\ ConsentsFollow /\ [Next]_vars => ConsentsFollow'
  BY <1>1, Steps, ConsentsFollowStep DEF Types
<1>4. Types /\ Pinned /\ ConsentsFollow => EvidenceAgrees
  BY DEF Types, Pinned, InterviewsPinned, ConsentsFollow, EvidenceAgrees, PinnedTo
<1> QED BY <1>2, <1>3, <1>4, PinnedHolds, PTL DEF Spec

\* The first agreement wins: while a consent is valid nothing changes it, renews
\* it or replaces it, not even an agreement sent earlier, except that it goes with
\* its study (participants.ts:357-361).
THEOREM FirstConsentWins == Spec => ConsentNeverRenewed
<1> DEFINE P == \A s \in Session :
                  consent[s] # None /\ ~Expired(consent[s], now) /\ study'[consent[s].study] # None
                  => consent'[s] = consent[s]
<1>1. ASSUME Types, Pinned, [Next]_vars PROVE P
  <2>0. TypeOK /\ (Writes \/ Calls) /\ now \in Nat
    BY <1>1, Steps, ClockAdvances DEF Types
  <2>1. SUFFICES ASSUME NEW s \in Session, consent[s] # None, ~Expired(consent[s], now),
                        study'[consent[s].study] # None, consent'[s] # consent[s]
                 PROVE  FALSE
    OBVIOUS
  <2>2. consent'[s] # None
    BY <2>0, <2>1, ConsentsGo
  <2>3. PICK call \in consentCall : call.session = s /\ ConsentStorable(call)
    BY <2>0, <2>1, <2>2, ConsentSteps
  <2>4. call.at \in Nat /\ call.at <= now /\ consent[s].expires \in Nat
    BY <1>1, <2>0, <2>1, CollectionAssumption DEF TypeOK, ConsentCall, ConsentRow, Maybe, Time, Pinned, CallsPinned
  <2>5. consent[s].expires # None /\ consent[s].expires <= call.at
    BY <2>1, <2>3 DEF ConsentStorable, ConsentFound, Expired
  <2> QED BY <2>0, <2>1, <2>4, <2>5 DEF Expired
<1>2. Types /\ Pinned /\ [Next]_vars => [P]_vars
  BY <1>1
<1> QED BY <1>2, PinnedHolds, PTL DEF Spec, ConsentNeverRenewed

-----------------------------------------------------------------------------
(* Closed access.                                                          *)

\* A link comes into being by the route's call alone.
LEMMA LinksCome ==
  ASSUME TypeOK, Writes \/ Calls, NEW l \in Link, link[l] = None, link'[l] # None
  PROVE  \E created \in BOOLEAN : /\ CreateParticipantLink(l, created) /\ LinkCreatable(linkCall[l])
                                  /\ link'[l].study = linkCall[l].study
<1>1. ASSUME NEW x \in Link, NEW created \in BOOLEAN, CreateParticipantLink(x, created)
      PROVE  /\ x = l /\ LinkCreatable(linkCall[l]) /\ link'[l].study = linkCall[l].study
  BY <1>1 DEF CreateParticipantLink, TypeOK
<1>2. ASSUME NEW x \in Link, RevokeParticipantLink(x) PROVE FALSE
  BY <1>2 DEF RevokeParticipantLink, LinkFound, TypeOK
<1>3. ASSUME \/ Calls
             \/ \E k \in Key, st \in Study : CreateStudy(k, st)
             \/ \E e \in Editor : ReplaceStudyConfig(e)
             \/ \E st \in Study, access \in {"on", "off"} : SetStudyLinksEnabled(st, access)
             \/ \E call \in consentCall : RecordConsent(call)
             \/ \E r \in Request, delivered \in BOOLEAN : CompleteInterview(r, delivered)
      PROVE  link' = link
  BY <1>3, CallsWriteNothing DEF CreateStudy, ReplaceStudyConfig, SetStudyLinksEnabled, RecordConsent, CompleteInterview
<1>4. ASSUME Cleanup \/ \E st \in Study, confirmed \in BOOLEAN : DeleteStudy(st, confirmed)
      PROVE  link'[l] = link[l]
  BY <1>4 DEF Cleanup, DeleteStudy
<1> QED BY <1>1, <1>2, <1>3, <1>4 DEF Writes

\* What commits or answers a save.
Answers(r) == ReplayInterview(r) \/ \E delivered \in BOOLEAN : CompleteInterview(r, delivered)

\* A participant is told by an answer to their own save.
LEMMA ToldSteps ==
  ASSUME TypeOK, Writes \/ Calls, NEW s \in Session, told'[s] # told[s]
  PROVE  \E r \in Request : /\ Answers(r) /\ save[r].session = s
                            /\ told'[s] = told[s] \cup {save[r].content}
<1>1. ASSUME NEW r \in Request, Answers(r)
      PROVE  save[r].session = s /\ told'[s] = told[s] \cup {save[r].content}
  <2>1. told' = told \/ told' = [told EXCEPT ![save[r].session] = @ \cup {save[r].content}]
    BY <1>1 DEF Answers, ReplayInterview, CompleteInterview, Reply
  <2> QED BY <2>1 DEF TypeOK
<1>2. ASSUME ~ \E r \in Request : Answers(r) PROVE told' = told
  BY <1>2 DEF Answers, Writes, CreateStudy, ReplaceStudyConfig, SetStudyLinksEnabled, DeleteStudy, RevokeParticipantLink,
         CreateParticipantLink, RecordConsent, Cleanup, Calls, OpenEdit, DropEdit, MintLink, Exchange,
         Agree, DropConsent, SetMaintenance, Deploy, Tick, vars, ReadsOn, Reads
<1> QED BY <1>1, <1>2

\* A save is answered only while its session's study is open and its link stands.
LEMMA AnswersAreOpen ==
  ASSUME TypeOK, ConsentsPinned, NEW r \in Request, Answers(r)
  PROVE  LET s == save[r].session IN
         /\ s \in Session /\ Enabled(session[s].study) /\ maintenance \in {"open", "draining"}
         /\ link[session[s].link] # None /\ ~link[session[s].link].revoked
<1>0. PICK q : q = save[r]
  OBVIOUS
<1>1. q \in SaveRequest /\ Authorized(q)
  BY <1>0 DEF Answers, ReplayInterview, CompleteInterview, TypeOK, Maybe
<1>2. q.session \in Session
  BY <1>1, SaveRequestIs
<1>3. session[q.session].study = q.study
  BY <1>1, <1>2 DEF Authorized, ConsentFound, ConsentMatches, ConsentsPinned, PinnedTo
<1>4. maintenance \in {"open", "draining"}
  BY <1>1 DEF Authorized, Gate, Allowed
<1> QED BY <1>0, <1>1, <1>2, <1>3, <1>4 DEF Authorized, AtRevision, LinkFound

\* Access that is closed collects nothing, not even from requests admitted while
\* it was open: the store judges every write again by the study, the link, the
\* consent and the state of the workspace of the moment (completion.ts:239-306,
\* participants.ts:340-361).
THEOREM ClosedIsClosed == Spec => ClosedCollectsNothing
<1> DEFINE P ==
     /\ \A l \in Link : link[l] = None /\ link'[l] # None =>
          Enabled(link'[l].study) /\ maintenance = "open"
     /\ \A s \in Session : consent'[s] # None /\ consent'[s] # consent[s] =>
          Enabled(consent'[s].study) /\ maintenance \in {"open", "draining"}
     /\ \A s \in Session : (interview[s] = None /\ interview'[s] # None) \/ told'[s] # told[s] =>
          /\ Enabled(session[s].study) /\ maintenance \in {"open", "draining"}
          /\ link[session[s].link] # None /\ ~link[session[s].link].revoked
<1>1. ASSUME Types, Pinned, [Next]_vars PROVE P
  <2>0. TypeOK /\ (Writes \/ Calls) /\ ConsentsPinned
    BY <1>1, Steps DEF Types, Pinned
  <2>1. ASSUME NEW l \in Link, link[l] = None, link'[l] # None
        PROVE  Enabled(link'[l].study) /\ maintenance = "open"
    BY <2>0, <2>1, LinksCome DEF LinkCreatable, AtRevision, Gate, Allowed
  <2>2. ASSUME NEW s \in Session, consent'[s] # None, consent'[s] # consent[s]
        PROVE  Enabled(consent'[s].study) /\ maintenance \in {"open", "draining"}
    <3>1. PICK call \in consentCall : ConsentStorable(call) /\ consent'[s] = ConsentRowOf(call)
      BY <2>0, <2>2, ConsentSteps
    <3>2. consent'[s].study = call.study
      BY <3>1 DEF ConsentRowOf
    <3> QED BY <3>1, <3>2 DEF ConsentStorable, AtRevision, Gate, Allowed
  <2>3. ASSUME NEW s \in Session, (interview[s] = None /\ interview'[s] # None) \/ told'[s] # told[s]
        PROVE  /\ Enabled(session[s].study) /\ maintenance \in {"open", "draining"}
               /\ link[session[s].link] # None /\ ~link[session[s].link].revoked
    <3>1. PICK r \in Request : Answers(r) /\ save[r].session = s
      BY <2>0, <2>3, InterviewSteps, ToldSteps DEF Answers
    <3> QED BY <2>0, <3>1, AnswersAreOpen
  <2> QED BY <2>1, <2>2, <2>3
<1>2. Types /\ Pinned /\ [Next]_vars => [P]_vars
  BY <1>1
<1> QED BY <1>2, PinnedHolds, PTL DEF Spec, ClosedCollectsNothing

-----------------------------------------------------------------------------
(* Admission.                                                              *)

MemberOf(c, s) == [scope |-> c, study |-> interview[s].study, start |-> WindowStart(c, interview[s].completedAt),
                   session |-> s]

\* The membership of a kept interview stays for its window and the grace.
MembersStay ==
  \A c \in Scope, s \in Session : interview[s] # None =>
    \/ MemberOf(c, s) \in member
    \/ WindowStart(c, interview[s].completedAt) + Window[c] + MemberGrace <= now

\* Membership goes with its interview, or when its grace is over.
LEMMA MembersGo ==
  ASSUME TypeOK, Writes \/ Calls, NEW m \in member, m \notin member'
  PROVE  interview'[m.session] = None \/ MemberExpires(m) <= now
<1>1. ASSUME \/ Calls
             \/ \E k \in Key, st \in Study : CreateStudy(k, st)
             \/ \E e \in Editor : ReplaceStudyConfig(e)
             \/ \E st \in Study, access \in {"on", "off"} : SetStudyLinksEnabled(st, access)
             \/ \E l \in Link : RevokeParticipantLink(l) \/ \E created \in BOOLEAN : CreateParticipantLink(l, created)
             \/ \E call \in consentCall : RecordConsent(call)
             \/ \E r \in Request, delivered \in BOOLEAN : CompleteInterview(r, delivered)
      PROVE  member \subseteq member'
  BY <1>1, CallsWriteNothing DEF CreateStudy, ReplaceStudyConfig, SetStudyLinksEnabled, RevokeParticipantLink,
     CreateParticipantLink, RecordConsent, CompleteInterview
<1>2. CASE Cleanup
  <2>1. ~ (MemberExpires(m) > now)
    BY <1>2 DEF Cleanup
  <2>2. m.start \in Nat /\ m.scope \in Scope /\ now \in Nat
    BY CollectionAssumption DEF TypeOK, Time
  <2>3. MemberExpires(m) \in Nat
    BY <2>2, CollectionAssumption DEF MemberExpires
  <2> QED BY <2>1, <2>2, <2>3
<1>3. ASSUME NEW st \in Study, NEW confirmed \in BOOLEAN, DeleteStudy(st, confirmed)
      PROVE  interview'[m.session] = None
  BY <1>3 DEF DeleteStudy, TypeOK
<1> QED BY <1>1, <1>2, <1>3 DEF Writes

\* Every step keeps the membership that is due.
LEMMA MembersStayStep ==
  ASSUME TypeOK, Writes \/ Calls, MembersStay
  PROVE  MembersStay'
<1>1. now \in Nat /\ now' \in Nat /\ now <= now' /\ MemberGrace \in Nat
  BY ClockAdvances, CollectionAssumption
<1>2. SUFFICES ASSUME NEW c \in Scope, NEW s \in Session, interview'[s] # None
               PROVE  \/ MemberOf(c, s)' \in member'
                      \/ WindowStart(c, interview'[s].completedAt) + Window[c] + MemberGrace <= now'
  BY DEF MembersStay, WindowStart
<1>3. CASE interview'[s] = interview[s]
  <2>1. interview[s].completedAt \in Nat
    BY <1>2, <1>3, CollectionAssumption DEF TypeOK, Maybe, InterviewRow, Time
  <2>2. WindowStart(c, interview[s].completedAt) \in Nat /\ Window[c] \in Nat
    BY <2>1, WindowStartIs, CollectionAssumption
  <2>3. MemberOf(c, s)' = MemberOf(c, s)
    BY <1>3 DEF MemberOf, WindowStart
  <2>4. CASE MemberOf(c, s) \in member
    <3>1. MemberOf(c, s) \notin member' => MemberExpires(MemberOf(c, s)) <= now
      BY <1>2, <2>4, MembersGo DEF MemberOf
    <3>2. MemberExpires(MemberOf(c, s)) = WindowStart(c, interview[s].completedAt) + Window[c] + MemberGrace
      BY DEF MemberExpires, MemberOf
    <3> QED BY <1>1, <1>3, <2>2, <2>3, <3>1, <3>2
  <2>5. CASE WindowStart(c, interview[s].completedAt) + Window[c] + MemberGrace <= now
    BY <1>1, <1>3, <2>2, <2>5
  <2> QED BY <1>2, <1>3, <2>4, <2>5 DEF MembersStay
<1>4. ASSUME NEW r \in Request, NEW delivered \in BOOLEAN, CompleteInterview(r, delivered),
             save[r].session = s, interview'[s] = Record(save[r])
      PROVE  MemberOf(c, s)' \in member'
  <2>1. interview'[s].study = save[r].study /\ interview'[s].completedAt = save[r].at
    BY <1>4 DEF Record
  <2>2. MemberOf(c, s)' = [scope |-> c, study |-> save[r].study, start |-> WindowStart(c, save[r].at), session |-> s]
    BY <2>1 DEF MemberOf, WindowStart
  <2>3. [scope |-> c, study |-> save[r].study, start |-> WindowStart(c, save[r].at)] \in RatePlan(save[r])
    BY DEF RatePlan
  <2> QED BY <1>4, <2>2, <2>3 DEF CompleteInterview
<1> QED BY <1>2, <1>3, <1>4, InterviewSteps

\* One row has at most one member for each session.
LEMMA MembersAreFinite ==
  ASSUME TypeOK, NEW c \in Scope, NEW st \in Study, NEW start \in Nat
  PROVE  LET row == [scope |-> c, study |-> st, start |-> start] IN
         IsFiniteSet(Members(row)) /\ Cardinality(Members(row)) \in Nat
<1> DEFINE row == [scope |-> c, study |-> st, start |-> start]
           M == Members(row)
           g == [m \in M |-> m.session]
<1>1. ASSUME NEW m \in M
      PROVE  /\ m.session \in Session
             /\ m = [scope |-> c, study |-> st, start |-> start, session |-> m.session]
  <2>1. m \in [scope : Scope, study : Study, start : Time, session : Session]
    BY <1>1 DEF Members, TypeOK
  <2>2. m.scope = c /\ m.study = st /\ m.start = start
    BY <1>1 DEF Members
  <2> QED BY <2>1, <2>2
<1>2. g \in [M -> Session]
  BY <1>1
<1>3. \A a, b \in M : g[a] = g[b] => a = b
  <2> HIDE DEF M
  <2> QED BY <1>1
<1>4. g \in Injection(M, Session)
  <2> HIDE DEF g, M
  <2> QED BY <1>2, <1>3 DEF Injection, IsInjective
<1>5. IsFiniteSet(M)
  <2> HIDE DEF g, M
  <2> QED BY <1>4, CollectionAssumption, FS_Injection
<1> QED BY <1>5, FS_CardinalityType

\* While a request may still arrive for a window, every interview saved in it is
\* counted by a member.
LEMMA EveryoneIsCounted ==
  ASSUME TypeOK, MembersStay, MaxLate <= MemberGrace, NEW c \in Scope, NEW st \in Study, NEW at \in Nat, now <= at + MaxLate
  PROVE  LET row == [scope |-> c, study |-> st, start |-> WindowStart(c, at)] IN
         Cardinality(InterviewsIn(c, st, WindowStart(c, at))) <= Cardinality(Members(row))
<1> DEFINE start == WindowStart(c, at)
           row == [scope |-> c, study |-> st, start |-> start]
           T == InterviewsIn(c, st, start)
           M == Members(row)
<1>1. start \in Nat /\ at < start + Window[c] /\ Window[c] \in Nat /\ MaxLate \in Nat /\ MemberGrace \in Nat /\ now \in Nat
  BY WindowStartIs, CollectionAssumption DEF TypeOK, Time
<1>2. ASSUME NEW s \in T PROVE s \in Session /\ MemberOf(c, s) \in M
  <2>1. /\ s \in Session /\ interview[s] # None /\ interview[s].study = st
        /\ WindowStart(c, interview[s].completedAt) = start
    BY <1>2 DEF InterviewsIn, InterviewsOf
  <2>2. MemberOf(c, s) \in member
    BY <1>1, <2>1 DEF MembersStay
  <2> QED BY <2>1, <2>2 DEF Members, MemberOf
<1>3. IsFiniteSet(M)
  BY <1>1, MembersAreFinite
<1>4. [s \in T |-> MemberOf(c, s)] \in Injection(T, M)
  <2> DEFINE f == [s \in T |-> MemberOf(c, s)]
  <2>1. f \in [T -> M]
    BY <1>2
  <2>2. \A a, b \in T : f[a] = f[b] => a = b
    BY DEF MemberOf
  <2> HIDE DEF f, T, M
  <2>3. f \in Injection(T, M)
    BY <2>1, <2>2 DEF Injection, IsInjective
  <2> QED BY <2>3 DEF f
<1> HIDE DEF T, M
<1>5. Cardinality(T) <= Cardinality(M)
  BY <1>3, <1>4, FS_Injection
<1> QED BY <1>5 DEF T, M

\* A window that admits one more interview still has room for it.
LEMMA AdmissionStep ==
  ASSUME TypeOK, Writes \/ Calls, TablesAgree, Pinned, MembersStay, AdmissionHolds
  PROVE  AdmissionHolds'
<1>0. SUFFICES ASSUME NEW c \in Scope, NEW st \in Study, NEW start \in Time, Maximum[c] > 0, MaxLate <= MemberGrace
               PROVE  Cardinality(InterviewsIn(c, st, start)') <= Maximum[c]
  BY DEF AdmissionHolds
<1> DEFINE T == InterviewsIn(c, st, start)
<1>1. T \subseteq Session /\ IsFiniteSet(T) /\ Cardinality(T) \in Nat /\ Cardinality(T) <= Maximum[c] /\ Maximum[c] \in Nat
  <2>1. T \subseteq Session
    BY DEF InterviewsIn, InterviewsOf
  <2> QED BY <1>0, <2>1, CollectionAssumption, FS_Subset, FS_CardinalityType DEF AdmissionHolds
<1>2. CASE \A r \in Request, delivered \in BOOLEAN : ~CompleteInterview(r, delivered)
  <2>1. \A s \in Session : interview'[s] = interview[s] \/ interview'[s] = None
    BY <1>2, InterviewSteps
  <2>2. T' \subseteq T
    BY <2>1 DEF InterviewsIn, InterviewsOf, WindowStart
  <2>3. Cardinality(T') <= Cardinality(T) /\ Cardinality(T') \in Nat
    <3> HIDE DEF T
    <3> QED BY <1>1, <2>2, FS_Subset, FS_CardinalityType
  <2> QED BY <1>1, <2>3
<1>3. ASSUME NEW r \in Request, NEW delivered \in BOOLEAN, CompleteInterview(r, delivered)
      PROVE  Cardinality(T') <= Maximum[c]
  <2>1. PICK q : q = save[r]
    OBVIOUS
  <2>2. q \in SaveRequest /\ q.phase = "sent" /\ q # None
    BY <1>3, <2>1 DEF CompleteInterview, TypeOK, Maybe
  <2>3. q.session \in Session /\ q.study \in Study /\ q.at \in Nat /\ now <= q.at + MaxLate
    BY <2>1, <2>2, SaveRequestIs, CollectionAssumption DEF Time, Pinned, SavesPinned
  <2>4. /\ interview[q.session] = None /\ Admitted(q)
        /\ interview' = [interview EXCEPT ![q.session] = Record(q)]
    BY <1>3, <2>1 DEF CompleteInterview
  <2>5. /\ interview'[q.session] = Record(q) /\ \A s \in Session \ {q.session} : interview'[s] = interview[s]
        /\ Record(q).study = q.study /\ Record(q).completedAt = q.at
    BY <2>3, <2>4 DEF TypeOK, Record
  <2>6. CASE st = q.study /\ start = WindowStart(c, q.at)
    <3> DEFINE row == [scope |-> c, study |-> q.study, start |-> WindowStart(c, q.at)]
    <3>1. T' \subseteq T \cup {q.session}
      BY <2>5 DEF InterviewsIn, InterviewsOf, WindowStart
    <3>2. Cardinality(T) <= Cardinality(Members(row))
      BY <1>0, <2>3, <2>6, EveryoneIsCounted
    <3>3. row \in RatePlan(q) /\ row.scope = c
      BY DEF RatePlan
    <3>4. ~ \E m \in Members(row) : m.session = q.session
      BY <2>4 DEF Members, TablesAgree
    <3>5. Cardinality(Members(row)) < Maximum[c]
      BY <1>0, <1>1, <2>4, <3>3, <3>4 DEF Admitted
    <3>6. Cardinality(Members(row)) \in Nat
      BY <2>3, WindowStartIs, MembersAreFinite
    <3> HIDE DEF T, row
    <3>7. IsFiniteSet(T \cup {q.session}) /\ Cardinality(T \cup {q.session}) <= Cardinality(T) + 1
      BY <1>1, FS_AddElement
    <3>8. Cardinality(T \cup {q.session}) \in Nat
      BY <3>7, FS_CardinalityType
    <3>9. Cardinality(T') <= Cardinality(T \cup {q.session}) /\ Cardinality(T') \in Nat
      BY <3>1, <3>7, FS_Subset, FS_CardinalityType
    <3> QED BY <1>1, <3>2, <3>5, <3>6, <3>7, <3>8, <3>9
  <2>7. CASE ~ (st = q.study /\ start = WindowStart(c, q.at))
    <3>1. T' \subseteq T
      BY <2>5, <2>7 DEF InterviewsIn, InterviewsOf, WindowStart
    <3>2. Cardinality(T') <= Cardinality(T) /\ Cardinality(T') \in Nat
      <4> HIDE DEF T
      <4> QED BY <1>1, <3>1, FS_Subset, FS_CardinalityType
    <3> QED BY <1>1, <3>2
  <2> QED BY <2>6, <2>7
<1> QED BY <1>2, <1>3

\* Save admission holds in every window of every study, however late a request
\* arrives within the grace membership is kept for (completion.ts:44-45).
THEOREM AdmissionIsKept == Spec => []AdmissionHolds
<1>1. Init => MembersStay /\ AdmissionHolds
  <2>1. SUFFICES ASSUME Init PROVE MembersStay /\ AdmissionHolds
    OBVIOUS
  <2>2. \A s \in Session : interview[s] = None
    BY <2>1 DEF Init
  <2>3. \A c \in Scope, st \in Study, start \in Time : InterviewsIn(c, st, start) = {}
    BY <2>2 DEF InterviewsIn, InterviewsOf
  <2> QED BY <2>2, <2>3, FS_EmptySet, CollectionAssumption DEF MembersStay, AdmissionHolds
<1>2. ASSUME Types, TablesAgree, Pinned, MembersStay, AdmissionHolds, [Next]_vars
      PROVE  MembersStay' /\ AdmissionHolds'
  BY <1>2, Steps, MembersStayStep, AdmissionStep DEF Types
<1>3. Types /\ TablesAgree /\ Pinned /\ (MembersStay /\ AdmissionHolds) /\ [Next]_vars => (MembersStay /\ AdmissionHolds)'
  BY <1>2
<1> QED BY <1>1, <1>3, TablesHold, PinnedHolds, PTL DEF Spec

-----------------------------------------------------------------------------
(* The promise to participants.                                            *)

\* The store stands as it must: what the steps of the promise rest on.
Standing == Types /\ TablesAgree /\ KeyInv /\ Pinned

\* A step that changes neither the interviews nor which studies and sessions
\* there are does not touch the promise.
LEMMA PromiseUntouched ==
  ASSUME UNCHANGED <<interview, told, session>>, \A st \in Study : study'[st] = None <=> study[st] = None, TypeOK
  PROVE  UNCHANGED <<Kept, Closed, told>>
<1>1. Kept' = Kept
  BY DEF Kept
<1>2. \A s \in Session : session[s] # None => session[s].study \in Study
  BY DEF TypeOK, Maybe, SessionRow
<1>3. Closed' = Closed
  BY <1>2 DEF Closed
<1> QED BY <1>1, <1>3

\* Deleting a study closes its sessions and takes their interviews, no others.
LEMMA DeletionCloses ==
  ASSUME Standing, NEW st \in Study, NEW confirmed \in BOOLEAN, DeleteStudy(st, confirmed)
  PROVE  UNCHANGED <<Kept, Closed, told>> \/ \E S \in SUBSET Session : Promise!Close(S)
<1> DEFINE S == {s \in Session : session[s] # None /\ session[s].study = st}
<1>0. TypeOK /\ InterviewsPinned
  BY DEF Standing, Types, Pinned
<1>1. /\ study' = [study EXCEPT ![st] = None] /\ UNCHANGED <<session, told>>
      /\ interview' = [s \in Session |-> IF s \in InterviewsOf(st) THEN None ELSE interview[s]]
  BY DEF DeleteStudy
<1>2. \A s \in Session : session[s] # None => session[s].study \in Study
  BY <1>0 DEF TypeOK, Maybe, SessionRow
<1>3. \A x \in Study : study'[x] = None <=> x = st \/ study[x] = None
  BY <1>0, <1>1 DEF TypeOK
<1>4. Closed' = Closed \cup S
  BY <1>1, <1>2, <1>3 DEF Closed
<1>5. \A s \in Session : interview[s] # None => (s \in InterviewsOf(st) <=> s \in S)
  BY <1>0 DEF InterviewsPinned, PinnedTo, InterviewsOf
<1>6. Kept' = [s \in Session |-> IF s \in S THEN None ELSE Kept[s]]
  BY <1>1, <1>5 DEF Kept
<1> HIDE DEF S
<1>7. CASE S = {}
  <2>1. Kept' = Kept
    BY <1>6, <1>7 DEF Kept
  <2> QED BY <1>1, <1>4, <1>7, <2>1
<1>8. CASE S # {}
  <2>1. S \subseteq Session
    BY DEF S
  <2> QED BY <1>1, <1>4, <1>6, <1>8, <2>1 DEF Promise!Close
<1> QED BY <1>7, <1>8

\* A commit keeps the interview of a session whose study is there.
LEMMA CommitKeeps ==
  ASSUME Standing, NEW r \in Request, NEW delivered \in BOOLEAN, CompleteInterview(r, delivered)
  PROVE  \E s \in Session, c \in Content : Promise!Save(s, c)
<1>0. PICK q : q = save[r]
  OBVIOUS
<1>1. TypeOK /\ ConsentsPinned /\ SavesPinned /\ q \in SaveRequest /\ q.phase = "sent"
  BY <1>0 DEF Standing, Types, Pinned, CompleteInterview, TypeOK, Maybe
<1>2. /\ q.session \in Session /\ q.content \in Content /\ q.language \in Language
      /\ q.study \in Study /\ q.revision \in Revision
      /\ q.acceptedAt \in Time /\ q.transport \in Transport /\ q.at \in Time
  BY <1>1, SaveRequestIs
<1>3. /\ Authorized(q) /\ interview[q.session] = None
      /\ interview' = [interview EXCEPT ![q.session] = Record(q)]
      /\ \E row : study' = [study EXCEPT ![q.study] = row]
      /\ Reply(q, delivered) /\ session' = session
  BY <1>0 DEF CompleteInterview
<1>4. study[q.study] # None /\ session[q.session] # None /\ session[q.session].study = q.study
  BY <1>0, <1>1, <1>3, CommitIsPinned DEF Authorized, AtRevision, Enabled, PinnedTo
<1>5. Record(q) # None /\ Record(q).content = q.content
  <2>1. Record(q) \in InterviewRow
    BY <1>2 DEF Record, InterviewRow
  <2> QED BY <2>1, NoneIsNoRow DEF Record
<1>6. \A s \in Session : session[s] # None => session[s].study \in Study
  BY <1>1 DEF TypeOK, Maybe, SessionRow
<1>7. q.session \notin Closed /\ Kept[q.session] = None
  BY <1>2, <1>3, <1>4 DEF Closed, Kept
<1>8. Kept' = [Kept EXCEPT ![q.session] = q.content]
  <2>1. interview'[q.session] = Record(q) /\ \A s \in Session \ {q.session} : interview'[s] = interview[s]
    BY <1>1, <1>2, <1>3 DEF TypeOK
  <2> QED BY <1>2, <1>5, <2>1 DEF Kept
<1>9. Closed' = Closed
  <2>1. \A x \in Study : study'[x] = None <=> study[x] = None
    <3>1. TablesAgree'
      BY <1>1, CompleteAgrees DEF Standing
    <3>2. interview'[q.session] = Record(q)
      BY <1>1, <1>2, <1>3 DEF TypeOK
    <3>3. study'[q.study] # None
      BY <1>2, <1>5, <3>1, <3>2 DEF TablesAgree, Record
    <3> QED BY <1>1, <1>3, <1>4, <3>3 DEF TypeOK
  <2> QED BY <1>3, <1>6, <2>1 DEF Closed
<1>10. told' = told \/ told' = [told EXCEPT ![q.session] = @ \cup {q.content}]
  BY <1>3 DEF Reply
<1>11. Kept'[q.session] = q.content
  BY <1>2, <1>8 DEF Kept
<1>12. Promise!Save(q.session, q.content)
  BY <1>7, <1>8, <1>9, <1>10, <1>11 DEF Promise!Save, Promise!Keep, Promise!Tell
<1> QED BY <1>2, <1>12

\* A replay confirms what is kept.
LEMMA ReplayConfirms ==
  ASSUME Standing, NEW r \in Request, ReplayInterview(r)
  PROVE  \E s \in Session, c \in Content : Promise!Repeat(s, c)
<1>0. PICK q : q = save[r]
  OBVIOUS
<1>1. TypeOK /\ q \in SaveRequest
  BY <1>0 DEF Standing, Types, ReplayInterview, TypeOK, Maybe
<1>2. q.session \in Session /\ q.content \in Content
  BY <1>1, SaveRequestIs
<1>3. /\ interview[q.session] # None /\ interview[q.session].content = q.content
      /\ told' = [told EXCEPT ![q.session] = @ \cup {q.content}] /\ UNCHANGED <<interview, study, session>>
  BY <1>0 DEF ReplayInterview, SameSubmission, Reply, rows
<1>4. UNCHANGED <<Kept, Closed>> /\ Kept'[q.session] = q.content
  BY <1>2, <1>3 DEF Kept, Closed
<1> QED BY <1>2, <1>3, <1>4 DEF Promise!Repeat, Promise!Tell

\* Creating a study and giving out a session close and open nothing.
LEMMA BeginningsStutter ==
  ASSUME Standing, \/ \E k \in Key, st \in Study : CreateStudy(k, st)
                   \/ \E s \in Session, l \in Link : Exchange(s, l)
  PROVE  UNCHANGED <<Kept, Closed, told>>
<1>0. TypeOK /\ StudiesAreMade
  BY DEF Standing, Types, KeyInv
<1>1. \A s \in Session : session[s] # None => session[s].study \in Study
  BY <1>0 DEF TypeOK, Maybe, SessionRow
<1>2. ASSUME NEW k \in Key, NEW st \in Study, CreateStudy(k, st) PROVE UNCHANGED <<Kept, Closed, told>>
  <2>1. UNCHANGED <<interview, session, told>> /\ made[st] = None
    BY <1>2 DEF CreateStudy, calls
  <2>2. \A x \in Study \ {st} : study'[x] = study[x]
    BY <1>0, <1>2 DEF CreateStudy, TypeOK
  <2>3. \A s \in Session : session[s] # None => session[s].study # st
    BY <1>0, <2>1 DEF StudiesAreMade
  <2>4. Closed' = Closed
    BY <1>1, <2>1, <2>2, <2>3 DEF Closed
  <2> QED BY <2>1, <2>4 DEF Kept
<1>3. ASSUME NEW s \in Session, NEW l \in Link, Exchange(s, l) PROVE UNCHANGED <<Kept, Closed, told>>
  <2>1. UNCHANGED <<interview, study, told>> /\ session[s] = None
    BY <1>3 DEF Exchange, rows
  <2>2. \A x \in Session \ {s} : session'[x] = session[x]
    BY <1>0, <1>3 DEF Exchange, TypeOK
  <2>3. session'[s].study = link[l].study /\ study[link[l].study] # None
    BY <1>0, <1>3 DEF Exchange, LinkAdmits, AtRevision, Enabled, TypeOK
  <2>4. Closed' = Closed
    BY <2>1, <2>2, <2>3 DEF Closed
  <2> QED BY <2>1, <2>4 DEF Kept
<1> QED BY <1>2, <1>3

\* Every step of the store is a step of the promise, or leaves it as it is.
LEMMA PromiseStep ==
  ASSUME Standing, [Next]_vars
  PROVE  Promise!Next \/ UNCHANGED <<Kept, Closed, told>>
<1>0. Types /\ TypeOK /\ (Writes \/ Calls)
  BY Steps DEF Standing, Types
<1>1. ASSUME NEW st \in Study, NEW confirmed \in BOOLEAN, DeleteStudy(st, confirmed)
      PROVE  Promise!Next \/ UNCHANGED <<Kept, Closed, told>>
  BY <1>1, DeletionCloses DEF Promise!Next
<1>2. ASSUME NEW r \in Request, NEW delivered \in BOOLEAN, CompleteInterview(r, delivered) PROVE Promise!Next
  BY <1>2, CommitKeeps DEF Promise!Next
<1>3. ASSUME NEW r \in Request, ReplayInterview(r) PROVE Promise!Next
  BY <1>3, ReplayConfirms DEF Promise!Next
<1>4. ASSUME NEW e \in Editor, ReplaceStudyConfig(e) PROVE UNCHANGED <<Kept, Closed, told>>
  <2> DEFINE st == edit[e].study
             row == [study[st] EXCEPT !.revision = @ + 1]
  <2>1. st \in Study /\ study[st] \in StudyRow /\ study[st] # None /\ study[st].revision < MaxRevision
    BY <1>0, <1>4 DEF ReplaceStudyConfig, TypeOK, Maybe, EditRow
  <2>2. row \in StudyRow /\ row # None
    BY <2>1, CollectionAssumption, NoneIsNoRow DEF StudyRow, Revision
  <2>3. study' = [study EXCEPT ![st] = row] /\ UNCHANGED <<interview, told, session>>
    BY <1>4 DEF ReplaceStudyConfig
  <2> HIDE DEF row, st
  <2>4. \A x \in Study : study'[x] = None <=> study[x] = None
    BY <1>0, <2>1, <2>2, <2>3 DEF TypeOK
  <2> QED BY <1>0, <2>3, <2>4, PromiseUntouched
<1>5. ASSUME NEW st \in Study, NEW access \in {"on", "off"}, SetStudyLinksEnabled(st, access)
      PROVE  UNCHANGED <<Kept, Closed, told>>
  <2> DEFINE row == [study[st] EXCEPT !.links = access]
  <2>1. study[st] \in StudyRow /\ study[st] # None
    BY <1>0, <1>5 DEF SetStudyLinksEnabled, TypeOK, Maybe
  <2>2. row \in StudyRow /\ row # None
    BY <2>1, NoneIsNoRow DEF StudyRow, Access
  <2>3. study' = [study EXCEPT ![st] = row] /\ UNCHANGED <<interview, told, session>>
    BY <1>5 DEF SetStudyLinksEnabled
  <2> HIDE DEF row
  <2>4. \A x \in Study : study'[x] = None <=> study[x] = None
    BY <1>0, <2>1, <2>2, <2>3 DEF TypeOK
  <2> QED BY <1>0, <2>3, <2>4, PromiseUntouched
<1>6. ASSUME \/ \E l \in Link : RevokeParticipantLink(l) \/ \E created \in BOOLEAN : CreateParticipantLink(l, created)
             \/ \E call \in consentCall : RecordConsent(call)
             \/ Cleanup
      PROVE  UNCHANGED <<Kept, Closed, told>>
  <2>1. UNCHANGED <<study, interview, told, session>>
    BY <1>6 DEF RevokeParticipantLink, CreateParticipantLink, RecordConsent, Cleanup
  <2> QED BY <1>0, <2>1, PromiseUntouched
<1>7. ASSUME Calls, ~(\E s \in Session, l \in Link : Exchange(s, l)), ~(\E r \in Request : ReplayInterview(r))
      PROVE  UNCHANGED <<Kept, Closed, told>>
  <2>1. UNCHANGED <<study, interview>>
    BY <1>7, CallsWriteNothing
  <2>2. UNCHANGED <<told, session>>
    BY <1>7 DEF Calls, OpenEdit, DropEdit, MintLink, Agree, DropConsent, SetMaintenance, Deploy, Tick, vars,
                ReadsOn, Reads
  <2> QED BY <1>0, <2>1, <2>2, PromiseUntouched
<1> QED BY <1>0, <1>1, <1>2, <1>3, <1>4, <1>5, <1>6, <1>7, BeginningsStutter DEF Writes

\* The workspace keeps the promise made to participants (InterviewPromise): a
\* saved interview is immutable, leaves only with its study and for good, and
\* "saved" is said only of what is kept, over two tabs, lost replies, replays and
\* late requests (completion.ts:239-306, studies.ts:558-587).
THEOREM PromiseIsKept == Spec => KeepsInterviews
<1>1. Init => Promise!Init
  BY DEF Init, Promise!Init, Kept, Closed
<1>2. Standing /\ [Next]_vars => [Promise!Next]_(Promise!vars)
  BY PromiseStep DEF Promise!vars
<1>3. Spec => []Standing
  BY TablesHold, KeysHold, PinnedHolds, PTL DEF Standing
<1> QED BY <1>1, <1>2, <1>3, PTL DEF Spec, KeepsInterviews, Promise!Spec

=============================================================================
