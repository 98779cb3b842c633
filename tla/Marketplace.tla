------------------------------ MODULE Marketplace ------------------------------
(***************************************************************************)
(* The marketplace: one listing, its review and publication, and its       *)
(* installs into one organization with consent, authorization codes and    *)
(* app tokens.  Each handler is one transaction that reads without locks.  *)
(***************************************************************************)
EXTENDS Naturals, FiniteSets

CONSTANTS
    Installs, Grants,   \* rows of marketplace_install; access and refresh token pairs
    AuthCodes, MarketTxns,
    Scopes,             \* requested_scopes that the installer holds too
    SecurityItems, RequiredItems, ReviewItems,   \* of the review checklist
    NoInstall

ASSUME MarketplaceAssumption ==
    /\ SecurityItems \subseteq ReviewItems /\ SecurityItems # {}
    /\ RequiredItems \subseteq ReviewItems
    /\ NoInstall \notin Installs /\ IsFiniteSet(Installs)

VARIABLES
    listing,      \* marketplace_listing.status
    review,       \* marketplace_review: completed items, security_review_completed
    install,      \* marketplace_install: status, consented_scopes
    grant,        \* marketplace_app_token pairs: install, scopes, which of the two live
    authCode,     \* marketplace_oauth_code: state, consented_scopes
    codeInstalls, \* history: installs each code made
    marketTxn,    \* what each request has read
    marketRaces   \* history: the review, codes and installs written from an old read

marketplaceVars == <<listing, review, install, grant, authCode, codeInstalls, marketTxn, marketRaces>>
publisherVars == <<listing, review>>
installVars == <<install, grant, authCode, codeInstalls>>

NoMarketTxn == [op |-> "idle"]
Consents == SUBSET Scopes \ {{}}   \* validate_consent

MarketplaceTypeOK ==
    /\ listing \in {"none", "draft", "submitted", "in_review", "published", "rejected"}
    /\ review \in [there : BOOLEAN, done : SUBSET ReviewItems, secure : BOOLEAN]
    /\ install \in [Installs -> [status : {"none", "active", "revoked"}, consent : SUBSET Scopes]]
    /\ grant \in [Grants -> [install : Installs \cup {NoInstall}, scopes : SUBSET Scopes,
                             access : BOOLEAN, refresh : BOOLEAN]]
    /\ authCode \in [AuthCodes -> [state : {"none", "issued", "used", "expired"}, scopes : SUBSET Scopes]]
    /\ codeInstalls \in [AuthCodes -> 0 .. Cardinality(Installs)]
    /\ DOMAIN marketTxn = MarketTxns

MarketReads(x, what) ==
    /\ marketTxn[x] = NoMarketTxn
    /\ marketTxn' = [marketTxn EXCEPT ![x] = what]
    /\ UNCHANGED <<publisherVars, installVars, marketRaces>>

EndMarketTxn(x) == marketTxn' = [marketTxn EXCEPT ![x] = NoMarketTxn]
NoteRace(thing, raced) == marketRaces' = IF raced THEN marketRaces \cup {thing} ELSE marketRaces

-----------------------------------------------------------------------------
(* The publisher and the reviewer *)

CreateListing ==
    /\ listing = "none"
    /\ listing' = "draft"
    /\ UNCHANGED <<review, installVars, marketTxn, marketRaces>>

\* seed_one publishes a first-party listing with no review.
SeedOne ==
    /\ listing = "none"
    /\ listing' = "published"
    /\ marketRaces' = marketRaces \cup {"review"}
    /\ UNCHANGED <<review, installVars, marketTxn>>

SubmitListingRead(x) ==
    /\ listing \in {"draft", "rejected", "submitted"}
    /\ MarketReads(x, [op |-> "submit", seen |-> listing])

\* The status is written whatever it is by now; ensure_review adds the checklist.
SubmitListingWrite(x) ==
    /\ marketTxn[x].op = "submit"
    /\ listing' = "submitted"
    /\ review' = [review EXCEPT !.there = TRUE]
    /\ EndMarketTxn(x)
    /\ UNCHANGED <<installVars, marketRaces>>

UpdateChecklistRead(x, items) ==
    /\ listing # "none"
    /\ MarketReads(x, [op |-> "checklist", items |-> items \cup review.done, status |-> listing, seen |-> review])

SecurityReviewComplete(done) == SecurityItems \subseteq done
Publishable == RequiredItems \subseteq review.done /\ review.secure

\* complete_items writes back the whole checklist it read; a submitted listing
\* becomes in_review.
UpdateChecklistWrite(x) ==
    LET done == marketTxn[x].items
    IN  /\ marketTxn[x].op = "checklist"
        /\ review' = [there |-> TRUE, done |-> done, secure |-> SecurityReviewComplete(done)]
        /\ listing' = IF marketTxn[x].status = "submitted" THEN "in_review" ELSE listing
        /\ NoteRace("review", review # marketTxn[x].seen)
        /\ EndMarketTxn(x)
        /\ UNCHANGED installVars

\* Any listing may be published once its review is complete.
PublishListing ==
    /\ listing # "none"
    /\ Publishable
    /\ listing' = "published"
    /\ UNCHANGED <<review, installVars, marketTxn, marketRaces>>

\* The checklist stays; installs stay.
RejectListing ==
    /\ listing # "none" /\ review.there
    /\ listing' = "rejected"
    /\ UNCHANGED <<review, installVars, marketTxn, marketRaces>>

-----------------------------------------------------------------------------
(* Installs, consent and tokens *)

ActiveInstalls == {i \in Installs : install[i].status = "active"}

IssuedPair(i, scopes) == [install |-> i, scopes |-> scopes, access |-> TRUE, refresh |-> TRUE]

IssueTokens(g, i, scopes) ==
    /\ grant[g].install = NoInstall
    /\ grant' = [grant EXCEPT ![g] = IssuedPair(i, scopes)]

\* create_install: a second active install meets the unique index.
InstallListing(i, g, scopes) ==
    /\ ActiveInstalls = {} /\ install[i].status = "none"
    /\ install' = [install EXCEPT ![i] = [status |-> "active", consent |-> scopes]]
    /\ IssueTokens(g, i, scopes)

CreateInstall(i, g, scopes) ==
    /\ listing = "published"
    /\ InstallListing(i, g, scopes)
    /\ UNCHANGED <<publisherVars, authCode, codeInstalls, marketTxn, marketRaces>>

RevokeInstallTokens(i) ==
    [g \in Grants |-> IF grant[g].install = i THEN [grant[g] EXCEPT !.access = FALSE, !.refresh = FALSE] ELSE grant[g]]

\* uninstall and disconnect.
RevokeInstall(i) ==
    /\ install[i].status = "active"
    /\ install' = [install EXCEPT ![i].status = "revoked"]
    /\ grant' = RevokeInstallTokens(i)
    /\ UNCHANGED <<publisherVars, authCode, codeInstalls, marketTxn, marketRaces>>

ReconsentRead(x, i) ==
    /\ install[i].status = "active"
    /\ MarketReads(x, [op |-> "reconsent", install |-> i, seen |-> install[i]])

\* The live tokens carry the old consent: revoked before new ones are issued.
Reconsent(x, g, scopes) ==
    LET i == marketTxn[x].install
    IN  /\ marketTxn[x].op = "reconsent"
        /\ grant[g].install = NoInstall
        /\ install' = [install EXCEPT ![i].consent = scopes]
        /\ grant' = [RevokeInstallTokens(i) EXCEPT ![g] = IssuedPair(i, scopes)]
        /\ NoteRace(i, install[i] # marketTxn[x].seen)
        /\ EndMarketTxn(x)
        /\ UNCHANGED <<publisherVars, authCode, codeInstalls>>

\* authorize: a single-use code with the consent.
CreateAuthorizationCode(c, scopes) ==
    /\ listing = "published" /\ authCode[c].state = "none"
    /\ authCode' = [authCode EXCEPT ![c] = [state |-> "issued", scopes |-> scopes]]
    /\ UNCHANGED <<publisherVars, install, grant, codeInstalls, marketTxn, marketRaces>>

CodeExpires(c) ==
    /\ authCode[c].state = "issued"
    /\ authCode' = [authCode EXCEPT ![c].state = "expired"]
    /\ UNCHANGED <<publisherVars, install, grant, codeInstalls, marketTxn, marketRaces>>

ExchangeCodeRead(x, c) ==
    /\ authCode[c].state = "issued" /\ listing = "published"
    /\ MarketReads(x, [op |-> "code", code |-> c, seen |-> authCode[c]])

ExchangeCodeWrite(x, i, g) ==
    LET c == marketTxn[x].code
    IN  /\ marketTxn[x].op = "code"
        /\ InstallListing(i, g, marketTxn[x].seen.scopes)
        /\ authCode' = [authCode EXCEPT ![c].state = "used"]
        /\ codeInstalls' = [codeInstalls EXCEPT ![c] = @ + 1]
        /\ NoteRace(c, authCode[c] # marketTxn[x].seen)
        /\ EndMarketTxn(x)
        /\ UNCHANGED publisherVars

\* resolve_token: a live refresh token of an active install; what it may carry
\* on is the consent read now.
ResolveToken(g) == grant[g].refresh /\ grant[g].install \in ActiveInstalls

ExchangeRefreshRead(x, g) ==
    /\ ResolveToken(g)
    /\ MarketReads(x, [op |-> "refresh", grant |-> g, seen |-> <<grant[g], install[grant[g].install]>>])

\* The refresh token is revoked, the access token of its pair is not.
ExchangeRefreshWrite(x, g) ==
    LET old == marketTxn[x].grant
        i == grant[old].install
    IN  /\ marketTxn[x].op = "refresh"
        /\ grant[g].install = NoInstall
        /\ grant' = [grant EXCEPT ![old].refresh = FALSE, ![g] = IssuedPair(i, marketTxn[x].seen[2].consent)]
        /\ NoteRace(i, <<grant[old], install[i]>> # marketTxn[x].seen)
        /\ EndMarketTxn(x)
        /\ UNCHANGED <<publisherVars, install, authCode, codeInstalls>>

\* A request that finds no free row, or whose install conflicts, rolls back.
MarketTxnFails(x) ==
    /\ marketTxn[x].op \in {"code", "refresh", "reconsent"}
    /\ EndMarketTxn(x)
    /\ UNCHANGED <<publisherVars, installVars, marketRaces>>

-----------------------------------------------------------------------------

MarketplaceInit ==
    /\ listing = "none" /\ review = [there |-> FALSE, done |-> {}, secure |-> FALSE]
    /\ install = [i \in Installs |-> [status |-> "none", consent |-> {}]]
    /\ grant = [g \in Grants |-> [install |-> NoInstall, scopes |-> {}, access |-> FALSE, refresh |-> FALSE]]
    /\ authCode = [c \in AuthCodes |-> [state |-> "none", scopes |-> {}]]
    /\ codeInstalls = [c \in AuthCodes |-> 0]
    /\ marketTxn = [x \in MarketTxns |-> NoMarketTxn] /\ marketRaces = {}

PublisherNext ==
    \/ CreateListing \/ SeedOne \/ PublishListing \/ RejectListing
    \/ \E x \in MarketTxns : SubmitListingRead(x) \/ SubmitListingWrite(x) \/ UpdateChecklistWrite(x)
    \/ \E x \in MarketTxns, items \in SUBSET ReviewItems : UpdateChecklistRead(x, items)

InstallNext ==
    \/ \E i \in Installs, g \in Grants, scopes \in Consents : CreateInstall(i, g, scopes)
    \/ \E i \in Installs : RevokeInstall(i)
    \/ \E x \in MarketTxns, i \in Installs : ReconsentRead(x, i)
    \/ \E x \in MarketTxns, g \in Grants, scopes \in Consents : Reconsent(x, g, scopes)
    \/ \E c \in AuthCodes, scopes \in Consents : CreateAuthorizationCode(c, scopes)
    \/ \E c \in AuthCodes : CodeExpires(c)
    \/ \E x \in MarketTxns, c \in AuthCodes : ExchangeCodeRead(x, c)
    \/ \E x \in MarketTxns, i \in Installs, g \in Grants : ExchangeCodeWrite(x, i, g)
    \/ \E x \in MarketTxns, g \in Grants : ExchangeRefreshRead(x, g) \/ ExchangeRefreshWrite(x, g)
    \/ \E x \in MarketTxns : MarketTxnFails(x)

MarketplaceNext == PublisherNext \/ InstallNext

-----------------------------------------------------------------------------

\* "Fails until every required item and the security review are complete": a
\* published listing passed its review, unless two updates of the checklist
\* raced or the catalogue was seeded.
PublishedPassedReview ==
    listing = "published" /\ "review" \notin marketRaces =>
       RequiredItems \cup SecurityItems \subseteq review.done

\* What an app may do: a token that works carries no scope beyond the consent
\* in force and there is one refresh token to an install, unless the consent or
\* the token changed between the read and the write of an exchange.
TokensWithinConsent ==
    \A i \in ActiveInstalls \ marketRaces :
       /\ \A g \in Grants : grant[g].install = i /\ (grant[g].access \/ grant[g].refresh) =>
                            grant[g].scopes \subseteq install[i].consent
       /\ Cardinality({g \in Grants : grant[g].install = i /\ grant[g].refresh}) <= 1

\* A code makes one install, unless two exchanges read it before either wrote.
CodesWorkOnce == \A c \in AuthCodes \ marketRaces : codeInstalls[c] <= 1
=============================================================================
