------------------------ MODULE InterviewCompletion ------------------------
(***************************************************************************)
(* Collecting interviews in one workspace.                                  *)
(*                                                                         *)
(* A researcher creates studies, edits and pauses them, hands out           *)
(* participant links, revokes them and deletes studies.  A participant      *)
(* exchanges a link for a session, agrees to the consent text of the        *)
(* study's current revision, and saves the finished interview.  The routes  *)
(* read the WorkspaceStore object in several RPCs and then write through    *)
(* one; between the RPCs anything may change, so the object checks the      *)
(* whole authority of a write again in the transaction that writes.         *)
(*                                                                         *)
(* A request keeps the time it captured when it was sent, and the object    *)
(* judges expiry by that time: a late request is judged by an old clock.    *)
(* What a committed interview means for its analysis jobs is AnalysisJobs.  *)
(***************************************************************************)
EXTENDS Naturals, FiniteSets

CONSTANTS
  Study, Link, Session, Key,   \* ids: studies, links, participant sessions, idempotency keys
  Request, Editor,             \* save requests and open edits, each handled by one route call
  Content,                     \* what a participant may submit (all the fingerprint covers)
  Language,                    \* interview languages; each has its own consent text
  MaxRevision,                 \* bound: revisions of a study
  MaxTime,                     \* bound: the clock
  MaxLate,                     \* bound: ticks between sending a write and executing it
  SessionTTL,                  \* PARTICIPANT_SESSION_DURATION
  ConsentTTL,                  \* CONSENT_TTL_MS
  LinkTTL, LinkGrace,          \* getExpirationTime, LINK_CLEANUP_GRACE_MS
  ReceiptTTL, FenceTTL,        \* RECEIPT_TTL_MS, DELETION_FENCE_TTL_MS
  MaxReceipts, MaxActiveLinks, \* MAX_STUDY_CREATE_RECEIPTS, MAX_ACTIVE_LINKS
  Scope, Window, Maximum,      \* LIMITS.save: a window and a maximum for each scope
  MemberGrace,                 \* MEMBER_GRACE_SECONDS
  Existing,                    \* studies that exist at the start
  Environment,                 \* which events a configuration explores
  None

Events == {"lost", "edit", "pause", "revoke", "delete", "create", "deploy", "operator", "expiry"}

ASSUME CollectionAssumption ==
  /\ {MaxRevision, SessionTTL, ConsentTTL, LinkTTL, ReceiptTTL, FenceTTL, MaxReceipts,
      MaxActiveLinks} \subseteq Nat \ {0}
  /\ {MaxTime, MaxLate, LinkGrace, MemberGrace} \subseteq Nat
  /\ Window \in [Scope -> Nat \ {0}] /\ Maximum \in [Scope -> Nat]
  /\ Existing \subseteq Study /\ Environment \subseteq Events /\ IsFiniteSet(Session)
  /\ None \notin Nat \cup Key \cup Link \cup Study \cup Content

\* A consent outlives the session it was given in, so no session consents twice.
ASSUME ConsentOutlivesSession == SessionTTL <= ConsentTTL

VARIABLES
  now,          \* the clock
  maintenance,  \* workspace_meta.maintenance_state
  deployed,     \* the transport this deployment sends participant text over
  study,        \* table studies
  receipt,      \* idempotency_receipts of study creation
  fence,        \* deletion_fences: the expiry of each fenced study and interview, or 0
  link,         \* table participant_links
  session,      \* the participant-session cookies and the page each holder was shown
  consent,      \* table consents
  interview,    \* table interviews, with generation 1's frozen inputs
  member,       \* table budget_members
  minted,       \* the link ids the route has minted
  linkCall,     \* createParticipantLink in flight, by link id
  consentCall,  \* recordConsent in flight
  save,         \* save requests in progress
  edit,         \* researchers' edits in progress
  told,         \* history: contents each participant was told are saved
  made          \* history: the key that made each study, and when

rows == <<study, receipt, fence, link, consent, interview, member>>
linkIds == <<minted, linkCall>>
calls == <<linkIds, consentCall, save, edit>>
vars == <<now, maintenance, deployed, rows, session, calls, told, made>>

Revision  == 1..MaxRevision
Time      == 0..MaxTime
Transport == {"direct", "cloudflare-gateway"}
Maybe(S)  == S \cup {None}
Access    == {"unset", "on", "off"}

\* The rows of the tables, and what is in flight.
StudyRow     == [revision : Revision, links : Access, count : Nat]
ReceiptRow   == [study : Study, disposition : {"created", "deleted"}, expires : Nat]
LinkRow      == [study : Study, revision : Revision, expires : Maybe(Nat), revoked : BOOLEAN]
SessionRow   == [link : Link, study : Study, revision : Revision, shown : Transport, expires : Nat]
ConsentRow   == [study : Study, revision : Revision, language : Language, transport : Transport,
                 acceptedAt : Time, expires : Nat]
InterviewRow == [study : Study, revision : Revision, content : Content, language : Language,
                 acceptedAt : Time, transport : Transport, completedAt : Time]
LinkCall     == [study : Study, revision : Revision, at : Time, expires : Maybe(Nat)]
ConsentCall  == [session : Session, study : Study, revision : Revision, language : Language,
                 transport : Transport, at : Time]
EditRow      == [study : Study, revision : Revision, confirmed : BOOLEAN]
SaveRequest ==
  [phase : {"admitted"}, session : Session, content : Content, language : Language]
  \cup [phase : {"loaded"}, session : Session, content : Content, language : Language,
        study : Study, revision : Revision, links : Access]
  \cup [phase : {"verified"}, session : Session, content : Content, language : Language,
        study : Study, revision : Revision, links : Access, acceptedAt : Time, transport : Transport]
  \cup [phase : {"sent"}, session : Session, content : Content, language : Language,
        study : Study, revision : Revision, links : Access,
        acceptedAt : Time, transport : Transport, at : Time]

\* null is no row.
ASSUME NoneIsNoRow ==
  None \notin StudyRow \cup ReceiptRow \cup LinkRow \cup SessionRow \cup ConsentRow \cup InterviewRow
            \cup LinkCall \cup EditRow \cup SaveRequest \cup [key : Maybe(Key), at : Time]


\* ALLOWED, for the operation classes used here.
Allowed == [entry      |-> {"open"},
            session    |-> {"open", "draining"},
            mutation   |-> {"open"},
            settlement |-> {"open", "draining"}]
Gate(class) == maintenance \in Allowed[class]

Expired(row, t) == row.expires # None /\ row.expires <= t

\* resolveLink: found, neither revoked nor expired at t.
LinkFound(l, t) == link[l] # None /\ ~link[l].revoked /\ ~Expired(link[l], t)

Enabled(st) == study[st] # None /\ study[st].links # "off"
AtRevision(st, revision) == Enabled(st) /\ study[st].revision = revision

\* A link admits participants while it is found and its study is open at its revision.
LinkAdmits(l, t) == LinkFound(l, t) /\ AtRevision(link[l].study, link[l].revision)

Init ==
  /\ now = 0 /\ maintenance = "open" /\ deployed = "direct"
  /\ study = [st \in Study |-> IF st \in Existing THEN [revision |-> 1, links |-> "unset", count |-> 0]
                                                  ELSE None]
  /\ made = [st \in Study |-> IF st \in Existing THEN [key |-> None, at |-> 0] ELSE None]
  /\ receipt = [k \in Key |-> None]
  /\ fence = [x \in Study \cup Session |-> 0]
  /\ link = [l \in Link |-> None] /\ linkCall = [l \in Link |-> None] /\ minted = {}
  /\ session = [s \in Session |-> None] /\ consent = [s \in Session |-> None]
  /\ consentCall = {} /\ member = {}
  /\ interview = [s \in Session |-> None]
  /\ save = [r \in Request |-> None] /\ edit = [e \in Editor |-> None]
  /\ told = [s \in Session |-> {}]

-----------------------------------------------------------------------------
(* Studies: create, edit, pause, delete. *)

ReceiptLives(k) == receipt[k] # None /\ receipt[k].expires > now

ReceiptOfDeletedReleases(k) ==   \* mutant: deleting a study frees its creation key
  ReceiptLives(k) /\ receipt[k].disposition = "created"

\* A live receipt binds its key, to a deleted study too: the request is replayed
\* or refused and writes nothing.
ReceiptBinds(k) == ReceiptLives(k)

\* createStudy for a key whose receipt is absent or expired (an expired one is
\* replaced); the route mints a fresh candidate id.
CreateStudy(k, st) ==
  /\ "create" \in Environment /\ Gate("mutation")
  /\ made[st] = None
  /\ ~ReceiptBinds(k) /\ Cardinality({j \in Key : ReceiptLives(j)}) < MaxReceipts
  /\ fence[st] <= now /\ study[st] = None
  /\ study' = [study EXCEPT ![st] = [revision |-> 1, links |-> "unset", count |-> 0]]
  /\ receipt' = [receipt EXCEPT ![k] = [study |-> st, disposition |-> "created", expires |-> now + ReceiptTTL]]
  /\ made' = [made EXCEPT ![st] = [key |-> k, at |-> now]]
  /\ UNCHANGED <<now, maintenance, deployed, fence, link, consent, interview, member, session, calls, told>>

\* PUT /api/studies/[id]: the route reads the study, warns unless confirmed when
\* it holds interviews, and takes the revision it read into the write.
OpenEdit(e, st, confirmed) ==
  /\ "edit" \in Environment /\ Gate("mutation")
  /\ edit[e] = None /\ study[st] # None
  /\ study[st].count > 0 => confirmed
  /\ edit' = [edit EXCEPT ![e] = [study |-> st, revision |-> study[st].revision, confirmed |-> confirmed]]
  /\ UNCHANGED <<now, maintenance, deployed, rows, session, linkIds, consentCall, save, told, made>>

\* replaceStudyConfig with a changed configuration: compare-and-set on the
\* revision; linksEnabled is kept as it is now.
ReplaceStudyConfig(e) ==
  /\ edit[e] # None /\ Gate("mutation")
  /\ LET st == edit[e].study IN
     /\ study[st] # None /\ study[st].revision = edit[e].revision
     /\ study[st].revision < MaxRevision
     /\ study' = [study EXCEPT ![st].revision = @ + 1]
  /\ edit' = [edit EXCEPT ![e] = None]
  /\ UNCHANGED <<now, maintenance, deployed, receipt, fence, link, consent, interview, member,
                 session, linkIds, consentCall, save, told, made>>

DropEdit(e) ==
  /\ edit[e] # None
  /\ edit' = [edit EXCEPT ![e] = None]
  /\ UNCHANGED <<now, maintenance, deployed, rows, session, linkIds, consentCall, save, told, made>>

\* setStudyLinksEnabled: no revision bump; an equal configuration writes nothing.
SetStudyLinksEnabled(st, access) ==
  /\ "pause" \in Environment /\ Gate("mutation")
  /\ study[st] # None /\ study[st].links # access
  /\ study' = [study EXCEPT ![st].links = access]
  /\ UNCHANGED <<now, maintenance, deployed, receipt, fence, link, consent, interview, member,
                 session, calls, told, made>>

InterviewsOf(st) == {s \in Session : interview[s] # None /\ interview[s].study = st}

\* deleteStudy, with the interviews only when the researcher confirmed it.
DeleteStudy(st, confirmed) ==
  /\ "delete" \in Environment /\ Gate("mutation")
  /\ study[st] # None
  /\ InterviewsOf(st) # {} => confirmed
  /\ study' = [study EXCEPT ![st] = None]
  /\ interview' = [s \in Session |-> IF s \in InterviewsOf(st) THEN None ELSE interview[s]]
  /\ fence' = [x \in Study \cup Session |-> IF x \in InterviewsOf(st) \cup {st} THEN now + FenceTTL ELSE fence[x]]
  /\ member' = {m \in member : m.session \notin InterviewsOf(st)}
  /\ link' = [l \in Link |-> IF link[l] # None /\ link[l].study = st THEN None ELSE link[l]]
  /\ consent' = [s \in Session |-> IF consent[s] # None /\ consent[s].study = st THEN None ELSE consent[s]]
  /\ receipt' = [k \in Key |-> IF receipt[k] # None /\ receipt[k].study = st
                               THEN [receipt[k] EXCEPT !.disposition = "deleted"] ELSE receipt[k]]
  /\ UNCHANGED <<now, maintenance, deployed, session, calls, told, made>>

-----------------------------------------------------------------------------
(* Participant links. *)

\* POST /api/generate-link: the route reads the study, mints a link id and sends
\* the revision it read.
MintLink(l, st, expires) ==
  /\ l \notin minted
  /\ Enabled(st)
  /\ expires # None => "expiry" \in Environment
  /\ minted' = minted \cup {l}
  /\ linkCall' = [linkCall EXCEPT ![l] =
       [study |-> st, revision |-> study[st].revision, at |-> now, expires |-> expires]]
  /\ UNCHANGED <<now, maintenance, deployed, rows, session, consentCall, save, edit, told, made>>

Active(t) == {l \in Link : LinkFound(l, t)}

LinkCreatableWhilePaused(call) ==   \* mutant: the pause flag is not read again at the write
  /\ Gate("mutation")
  /\ study[call.study] # None /\ study[call.study].revision = call.revision
  /\ Cardinality(Active(call.at)) < MaxActiveLinks

LinkCreatable(call) ==
  /\ Gate("mutation")
  /\ AtRevision(call.study, call.revision)
  /\ Cardinality(Active(call.at)) < MaxActiveLinks

\* createParticipantLink, executed or (created = FALSE) refused or lost.
CreateParticipantLink(l, created) ==
  /\ linkCall[l] # None
  /\ linkCall' = [linkCall EXCEPT ![l] = None] /\ minted' = minted
  /\ LET call == linkCall[l] IN
     IF created
       THEN /\ LinkCreatable(call)
            /\ link' = [link EXCEPT ![l] = [study |-> call.study, revision |-> call.revision,
                                            expires |-> call.expires, revoked |-> FALSE]]
       ELSE link' = link
  /\ UNCHANGED <<now, maintenance, deployed, study, receipt, fence, consent, interview, member,
                 session, consentCall, save, edit, told, made>>

RevokeParticipantLink(l) ==
  /\ "revoke" \in Environment /\ Gate("mutation")
  /\ LinkFound(l, now)
  /\ link' = [link EXCEPT ![l].revoked = TRUE]
  /\ UNCHANGED <<now, maintenance, deployed, study, receipt, fence, consent, interview, member,
                 session, calls, told, made>>

-----------------------------------------------------------------------------
(* Participant sessions and consent. *)

\* GET /api/generate-link: the exchange pins a fresh session to the link's study
\* and revision, and the consent page discloses the transport in use.
Exchange(s, l) ==
  /\ session[s] = None
  /\ Gate("entry") /\ LinkAdmits(l, now)
  /\ LET ends == IF Expired(link[l], now + SessionTTL) THEN link[l].expires ELSE now + SessionTTL IN
     session' = [session EXCEPT ![s] =
       [link |-> l, study |-> link[l].study, revision |-> link[l].revision,
        shown |-> deployed, expires |-> ends]]
  /\ UNCHANGED <<now, maintenance, deployed, rows, calls, told, made>>

\* getParticipantRequestContext admits a session's request: a live token, its
\* link found at the token's study and revision, and the study still open there.
SessionAdmitted(s) ==
  /\ session[s] # None /\ now < session[s].expires
  /\ Gate("session") /\ LinkAdmits(session[s].link, now)

StaleDisclosureAccepted(s) == TRUE   \* mutant: the echoed transport is not compared

\* The page was rendered for the transport in use.
DisclosureCurrent(s) == session[s].shown = deployed

\* POST /api/consent: the page echoes the transport it disclosed, which must be
\* the one in use; then the route sends the agreement to the object.
Agree(s, language) ==
  /\ SessionAdmitted(s)
  /\ DisclosureCurrent(s)
  /\ Cardinality(consentCall) < 2     \* bound: agreements in flight
  /\ consentCall' = consentCall \cup
       {[session |-> s, study |-> session[s].study, revision |-> session[s].revision,
         language |-> language, transport |-> deployed, at |-> now]}
  /\ UNCHANGED <<now, maintenance, deployed, rows, session, linkIds, save, edit, told, made>>

\* readConsent: the row of the session, unless expired at t.
ConsentFound(s, t) == consent[s] # None /\ ~Expired(consent[s], t)

ConsentInAnyLanguage(s, st, revision, language) ==   \* mutant: the consent text is not compared
  consent[s].study = st /\ consent[s].revision = revision

\* consentMatches: same study, revision and consent text.
ConsentMatches(s, st, revision, language) ==
  /\ consent[s].study = st /\ consent[s].revision = revision /\ consent[s].language = language

ConsentOfAnyStudy(call) ==   \* mutant: the study is not read again at the write
  Gate("session") /\ ~ConsentFound(call.session, call.at)

ConsentRenewed(call) ==   \* mutant: the last writer wins
  Gate("session") /\ AtRevision(call.study, call.revision)

ConsentStorable(call) ==
  /\ Gate("session")
  /\ AtRevision(call.study, call.revision)
  /\ ~ConsentFound(call.session, call.at)

\* recordConsent: the first writer wins.  An agreement that finds a stored one is
\* answered from it, or refused, and writes nothing.
RecordConsent(call) ==
  /\ call \in consentCall
  /\ consentCall' = consentCall \ {call}
  /\ consent' =
       IF ConsentStorable(call)
         THEN [consent EXCEPT ![call.session] =
                [study |-> call.study, revision |-> call.revision, language |-> call.language,
                 transport |-> call.transport, acceptedAt |-> call.at, expires |-> call.at + ConsentTTL]]
         ELSE consent
  /\ UNCHANGED <<now, maintenance, deployed, study, receipt, fence, link, interview, member,
                 session, linkIds, save, edit, told, made>>

DropConsent(call) ==
  /\ call \in consentCall
  /\ consentCall' = consentCall \ {call}
  /\ UNCHANGED <<now, maintenance, deployed, rows, session, linkIds, save, edit, told, made>>

-----------------------------------------------------------------------------
(* Saving an interview: three reads, then one write. *)

\* POST /api/interviews/save: the request context.
OpenSave(r, s, content, language) ==
  /\ save[r] = None /\ SessionAdmitted(s)
  /\ save' = [save EXCEPT ![r] = [phase |-> "admitted", session |-> s, content |-> content,
                                  language |-> language]]
  /\ UNCHANGED <<now, maintenance, deployed, rows, session, linkIds, consentCall, edit, told, made>>

\* loadCanonicalStudy: the configuration that will be frozen into the record,
\* access flag and revision included.
LoadStudy(r) ==
  /\ save[r] # None /\ save[r].phase = "admitted"
  /\ LET st == session[save[r].session].study IN
     /\ study[st] # None
     /\ save' = [save EXCEPT ![r] =
          [phase |-> "loaded", session |-> @.session, content |-> @.content, language |-> @.language,
           study |-> st, revision |-> study[st].revision, links |-> study[st].links]]
  /\ UNCHANGED <<now, maintenance, deployed, rows, session, linkIds, consentCall, edit, told, made>>

\* verifyConsent against the loaded revision: the evidence on the record is the
\* one read here.
VerifyConsent(r) ==
  /\ save[r] # None /\ save[r].phase = "loaded"
  /\ LET s == save[r].session IN
     /\ ConsentFound(s, now)
     /\ ConsentMatches(s, save[r].study, save[r].revision, save[r].language)
     /\ save' = [save EXCEPT ![r] =
          [phase |-> "verified", session |-> s, content |-> @.content, language |-> @.language,
           study |-> @.study, revision |-> @.revision, links |-> @.links,
           acceptedAt |-> consent[s].acceptedAt, transport |-> consent[s].transport]]
  /\ UNCHANGED <<now, maintenance, deployed, rows, session, linkIds, consentCall, edit, told, made>>

\* The reply is back: the record is built with the time of now and sent.
SendSave(r) ==
  /\ save[r] # None /\ save[r].phase = "verified"
  /\ save' = [save EXCEPT ![r] =
       [phase |-> "sent", session |-> @.session, content |-> @.content, language |-> @.language,
        study |-> @.study, revision |-> @.revision, links |-> @.links,
        acceptedAt |-> @.acceptedAt, transport |-> @.transport, at |-> now]]
  /\ UNCHANGED <<now, maintenance, deployed, rows, session, linkIds, consentCall, edit, told, made>>

\* The client's request ends without a commit: refused at a read, lost, or timed out.
DropSave(r) ==
  /\ save[r] # None
  /\ save' = [save EXCEPT ![r] = None]
  /\ UNCHANGED <<now, maintenance, deployed, rows, session, linkIds, consentCall, edit, told, made>>

\* decide, first part: everything that must still hold before a record of this
\* session is looked for, judged at the time the request carries.
Authorized(q) ==
  LET l == session[q.session].link IN
  /\ Gate("session")
  /\ AtRevision(q.study, q.revision) /\ study[q.study].links = q.links
  /\ LinkFound(l, q.at) /\ link[l].study = q.study /\ link[l].revision = q.revision
  /\ ConsentFound(q.session, q.at) /\ ConsentMatches(q.session, q.study, q.revision, q.language)
  /\ consent[q.session].acceptedAt = q.acceptedAt /\ consent[q.session].transport = q.transport
  /\ fence[q.session] <= q.at

RecordWithoutTransport(q) ==   \* mutant: the disclosed transport is not carried to the record
  [study |-> q.study, revision |-> q.revision, content |-> q.content, language |-> q.language,
   acceptedAt |-> q.acceptedAt, completedAt |-> q.at]

Record(q) == [study |-> q.study, revision |-> q.revision, content |-> q.content, language |-> q.language,
              acceptedAt |-> q.acceptedAt, transport |-> q.transport, completedAt |-> q.at]

AnySubmission(q) == TRUE   \* mutant: the fingerprint is not compared

\* A replay has the study and the fingerprint of the record; the fingerprint
\* covers the content and the consent evidence, not the time of the save.
SameSubmission(q) ==
  LET kept == interview[q.session] IN
  /\ kept.study = q.study /\ kept.content = q.content /\ kept.language = q.language
  /\ kept.acceptedAt = q.acceptedAt /\ kept.transport = q.transport

\* getSavePersistRatePlan: one row for each scope, in the window of the request's time.
WindowStart(c, t) == t - (t % Window[c])
RatePlan(q) == {[scope |-> c, study |-> q.study, start |-> WindowStart(c, q.at)] : c \in Scope}

Members(row) == {m \in member : m.scope = row.scope /\ m.study = row.study /\ m.start = row.start}

\* Save admission: every row is checked before any is charged.
Admitted(q) ==
  \A row \in RatePlan(q) :
    \/ Maximum[row.scope] = 0
    \/ \E m \in Members(row) : m.session = q.session
    \/ Cardinality(Members(row)) < Maximum[row.scope]

Reply(q, delivered) ==
  /\ delivered \/ "lost" \in Environment
  /\ told' = IF delivered THEN [told EXCEPT ![q.session] = @ \cup {q.content}] ELSE told

\* persistCompletedInterview commits: the record, its admission and the count.
CompleteInterview(r, delivered) ==
  /\ save[r] # None /\ save[r].phase = "sent"
  /\ LET q == save[r] IN
     /\ Authorized(q) /\ interview[q.session] = None /\ Admitted(q)
     /\ interview' = [interview EXCEPT ![q.session] = Record(q)]
     /\ member' = member \cup {[scope |-> row.scope, study |-> row.study, start |-> row.start,
                                session |-> q.session] : row \in RatePlan(q)}
     /\ study' = [study EXCEPT ![q.study].count = Cardinality(InterviewsOf(q.study)) + 1]
     /\ Reply(q, delivered)
  /\ save' = [save EXCEPT ![r] = None]
  /\ UNCHANGED <<now, maintenance, deployed, receipt, fence, link, consent, session,
                 linkIds, consentCall, edit, made>>

\* .. or answers a replay of what is stored.
ReplayInterview(r) ==
  /\ save[r] # None /\ save[r].phase = "sent"
  /\ LET q == save[r] IN
     /\ Authorized(q) /\ interview[q.session] # None /\ SameSubmission(q)
     /\ Reply(q, TRUE)
  /\ save' = [save EXCEPT ![r] = None]
  /\ UNCHANGED <<now, maintenance, deployed, rows, session, linkIds, consentCall, edit, made>>

-----------------------------------------------------------------------------
(* The operator, the deployment, cleanup and time. *)

SetMaintenance(state) ==
  /\ "operator" \in Environment /\ state # maintenance
  /\ maintenance' = state
  /\ UNCHANGED <<now, deployed, rows, session, calls, told, made>>

\* A deployment with another AI_TRANSPORT.
Deploy ==
  /\ "deploy" \in Environment
  /\ \E t \in Transport \ {deployed} : deployed' = t
  /\ UNCHANGED <<now, maintenance, rows, session, calls, told, made>>

MemberExpiresWithWindow(m) == m.start + Window[m.scope]   \* mutant: membership has no grace

MemberExpires(m) == m.start + Window[m.scope] + MemberGrace

\* The alarm's cleanup of expired rows.
Cleanup ==
  /\ "expiry" \in Environment /\ Gate("settlement")
  /\ consent' = [s \in Session |-> IF consent[s] # None /\ Expired(consent[s], now) THEN None ELSE consent[s]]
  /\ link' = [l \in Link |-> IF link[l] # None /\ link[l].expires # None /\ link[l].expires + LinkGrace <= now
                             THEN None ELSE link[l]]
  /\ receipt' = [k \in Key |-> IF receipt[k] # None /\ receipt[k].expires <= now THEN None ELSE receipt[k]]
  /\ member' = {m \in member : MemberExpires(m) > now}
  /\ fence' = [x \in Study \cup Session |-> IF fence[x] <= now THEN 0 ELSE fence[x]]
  /\ <<consent, link, receipt, member, fence>>' # <<consent, link, receipt, member, fence>>
  /\ UNCHANGED <<now, maintenance, deployed, study, interview, session, calls, told, made>>

\* No write executes later than MaxLate after it was sent: by then the request
\* has been abandoned with the invocation that carried it.
InTime(at) == now < at + MaxLate

Tick ==
  /\ "expiry" \in Environment /\ now < MaxTime
  /\ \A r \in Request : save[r] # None /\ save[r].phase = "sent" => InTime(save[r].at)
  /\ \A call \in consentCall : InTime(call.at)
  /\ \A l \in Link : linkCall[l] # None => InTime(linkCall[l].at)
  /\ now' = now + 1
  /\ UNCHANGED <<maintenance, deployed, rows, session, calls, told, made>>

Next ==
  \/ \E k \in Key, st \in Study : CreateStudy(k, st)
  \/ \E e \in Editor : (\E st \in Study, confirmed \in BOOLEAN : OpenEdit(e, st, confirmed))
                       \/ ReplaceStudyConfig(e) \/ DropEdit(e)
  \/ \E st \in Study : (\E access \in {"on", "off"} : SetStudyLinksEnabled(st, access))
                       \/ \E confirmed \in BOOLEAN : DeleteStudy(st, confirmed)
  \/ \E l \in Link : \/ \E st \in Study, expires \in {None, now + LinkTTL} : MintLink(l, st, expires)
                     \/ \E created \in BOOLEAN : CreateParticipantLink(l, created)
                     \/ RevokeParticipantLink(l)
                     \/ \E s \in Session : Exchange(s, l)
  \/ \E s \in Session, language \in Language :
       \/ Agree(s, language)
       \/ \E r \in Request, content \in Content : OpenSave(r, s, content, language)
  \/ \E call \in consentCall : RecordConsent(call) \/ DropConsent(call)
  \/ \E r \in Request : \/ LoadStudy(r) \/ VerifyConsent(r) \/ SendSave(r) \/ DropSave(r) \/ ReplayInterview(r)
                        \/ \E delivered \in BOOLEAN : CompleteInterview(r, delivered)
  \/ \E state \in {"open", "draining", "frozen", "recovery"} : SetMaintenance(state)
  \/ Deploy \/ Cleanup \/ Tick

Spec == Init /\ [][Next]_vars

-----------------------------------------------------------------------------
(* Properties. *)

\* Every variable has its type.
TypeOK ==
  /\ now \in Time /\ maintenance \in {"open", "draining", "frozen", "recovery"} /\ deployed \in Transport
  /\ study \in [Study -> Maybe(StudyRow)] /\ receipt \in [Key -> Maybe(ReceiptRow)]
  /\ fence \in [Study \cup Session -> Nat] /\ link \in [Link -> Maybe(LinkRow)]
  /\ session \in [Session -> Maybe(SessionRow)] /\ consent \in [Session -> Maybe(ConsentRow)]
  /\ interview \in [Session -> Maybe(InterviewRow)]
  /\ member \subseteq [scope : Scope, study : Study, start : Time, session : Session]
  /\ linkCall \in [Link -> Maybe(LinkCall)] /\ minted \subseteq Link
  /\ consentCall \subseteq ConsentCall
  /\ save \in [Request -> Maybe(SaveRequest)] /\ edit \in [Editor -> Maybe(EditRow)]
  /\ told \in [Session -> SUBSET Content]
  /\ made \in [Study -> Maybe([key : Maybe(Key), at : Time])]

\* A study's rows go with it and late writes do not bring them back: links,
\* consents and interviews belong to a study that exists, admission membership to
\* an interview that exists, and a study counts its interviews (studies.ts:558-587).
TablesAgree ==
  /\ \A l \in Link : link[l] # None => study[link[l].study] # None
  /\ \A s \in Session : consent[s] # None => study[consent[s].study] # None
  /\ \A s \in Session : interview[s] # None => study[interview[s].study] # None
  /\ \A m \in member : interview[m.session] # None
  /\ \A st \in Study : study[st] # None => study[st].count = Cardinality(InterviewsOf(st))

\* The evidence on a permanent record is what its participant agreed to: the
\* session's own study and revision, the transport the consent page showed, and
\* the text and time of a consent that was valid when the interview was sent,
\* whatever was edited, redeployed, repeated or delivered late in between
\* (completion.ts:281-297).
EvidenceAgrees ==
  \A s \in Session : interview[s] # None =>
    LET kept == interview[s] IN
    /\ session[s].study = kept.study /\ session[s].revision = kept.revision
    /\ session[s].shown = kept.transport
    /\ kept.acceptedAt <= kept.completedAt /\ kept.completedAt < kept.acceptedAt + ConsentTTL
    /\ consent[s] # None /\ consent[s].acceptedAt = kept.acceptedAt =>
         consent[s].language = kept.language /\ consent[s].transport = kept.transport

\* The first agreement wins: while a consent is valid nothing changes it, renews
\* it or replaces it, except that it goes with its study (participants.ts:357-361).
ConsentNeverRenewed ==
  [][\A s \in Session :
       consent[s] # None /\ ~Expired(consent[s], now) /\ study'[consent[s].study] # None
       => consent'[s] = consent[s]]_vars

InterviewsIn(c, st, start) == {s \in InterviewsOf(st) : WindowStart(c, interview[s].completedAt) = start}

\* Save admission holds in every window: a study keeps no more interviews saved
\* in one window than the scope's maximum, although requests arrive after their
\* window has ended and cleanup deletes the membership, as long as a request is
\* no later than the grace membership is kept for (completion.ts:44-45).
AdmissionHolds ==
  \A c \in Scope, st \in Study, start \in Time :
    Maximum[c] > 0 /\ MaxLate <= MemberGrace => Cardinality(InterviewsIn(c, st, start)) <= Maximum[c]

\* One idempotency key makes one study while its receipt lives, deleted or not.
KeyMakesOneStudy ==
  \A st1, st2 \in Study :
    (/\ st1 # st2 /\ made[st1] # None /\ made[st2] # None
     /\ made[st1].key # None /\ made[st1].key = made[st2].key)
    => made[st1].at + ReceiptTTL <= made[st2].at \/ made[st2].at + ReceiptTTL <= made[st1].at

\* Access that is closed collects nothing, not even from requests admitted while
\* it was open: no link, consent, interview or confirmation for a study that is
\* paused or gone, nor for a held workspace; and nothing from a revoked link.
ClosedCollectsNothing ==
  [][/\ \A l \in Link : link[l] = None /\ link'[l] # None =>
          Enabled(link'[l].study) /\ maintenance = "open"
     /\ \A s \in Session : consent'[s] # None /\ consent'[s] # consent[s] =>
          Enabled(consent'[s].study) /\ maintenance \in {"open", "draining"}
     /\ \A s \in Session : (interview[s] = None /\ interview'[s] # None) \/ told'[s] # told[s] =>
          /\ Enabled(session[s].study) /\ maintenance \in {"open", "draining"}
          /\ link[session[s].link] # None /\ ~link[session[s].link].revoked]_vars

Closed == {s \in Session : session[s] # None /\ study[session[s].study] = None}
Kept == [s \in Session |-> IF interview[s] = None THEN None ELSE interview[s].content]

Promise == INSTANCE InterviewPromise WITH kept <- Kept, closed <- Closed

\* The workspace keeps the promise made to participants: a saved interview is
\* immutable, leaves only with its study and for good, and "saved" is said only
\* of what is kept, over two tabs, lost replies, replays and late requests.
KeepsInterviews == Promise!Spec

\* The soft lock of PUT /api/studies/[id] (route.ts:2, 224): an edit the researcher
\* has not confirmed does not replace the configuration of a study with interviews.
UnconfirmedEditFindsNoInterview ==
  [][\A e \in Editor :
       edit[e] # None /\ ~edit[e].confirmed /\ edit'[e] = None /\ study' # study
       => InterviewsOf(edit[e].study) = {}]_vars

=============================================================================
