----------------------------- MODULE Customers -----------------------------
(***************************************************************************)
(* Who a customer is: profiles, the endpoints they are reached at and the  *)
(* claims about their names, as three actors change them at one time:      *)
(*   - the Telegram bot, which onboards a customer step by step and takes  *)
(*     his messages (integrations/telegram/onboarding.py, handlers.py,     *)
(*     services/customer_endpoint_resolution.py); it handles one update    *)
(*     after the other;                                                    *)
(*   - the email worker, which routes the messages of a sender             *)
(*     (integrations/email_connector/identity.py);                         *)
(*   - the owner, who decides on claims and endpoints                      *)
(*     (services/outreach.py, customer_identity_state.py).                 *)
(*                                                                         *)
(* Each reads in one step and commits in a later one.  The object mapper   *)
(* writes the columns whose value differs from the one it read, and no     *)
(* other (Written); locks and versions there are none.                     *)
(***************************************************************************)
EXTENDS Integers, FiniteSets, Sequences

CONSTANTS
    User,          \* Telegram users: the token of the user is the endpoint
    Email, Phone,  \* tokens of addresses and of phone numbers
    Name,          \* tokens of names
    None,
    MaxCustomers,
    MaxMails,      \* messages the email worker routes
    MaxReviews     \* what the owner and the managers do

ASSUME CustomersAssumption ==
    /\ MaxCustomers \in Nat /\ MaxMails \in Nat /\ MaxReviews \in Nat
    /\ User \intersect Email = {} /\ User \intersect Phone = {} /\ Email \intersect Phone = {}
    /\ None \notin User \union Email \union Phone \union Name

VARIABLES
    customers,  \* customers, by id
    endpoint,   \* customer_endpoints, by token
    claim,      \* customer_identity_claims: status by endpoint and name
    links,      \* customer_record_links: endpoint a record came from, customer
    session,    \* telegram_onboarding_sessions, by user
    bot, mail, owner,  \* what the three actors are doing
    done        \* how much of the bounds is used up

vars == <<customers, endpoint, claim, links, session, bot, mail, owner, done>>

Endpoints == User \union Email \union Phone
NoEndpoint == [owner |-> 0, status |-> "none", origin |-> "none"]
NoSession == [status |-> "none", name |-> None, email |-> None, phone |-> None, customer |-> 0]
Idle == [at |-> "idle"]

NewCustomer(name, profile, key) ==
    [primary |-> name, profile |-> profile, review |-> "clear", key |-> key]

\* There may be a customer of earlier, known by his invoices only.
Init ==
    /\ customers \in {<<>>, <<NewCustomer(None, "confirmed", <<"invoice", None>>)>>}
    /\ endpoint = [t \in Endpoints |-> NoEndpoint]
    /\ claim = [k \in Endpoints \X Name |-> "none"]
    /\ links = {}
    /\ session = [u \in User |-> NoSession]
    /\ bot = Idle /\ mail = Idle /\ owner = Idle
    /\ done = [mails |-> 0, reviews |-> 0]

-----------------------------------------------------------------------------

Spend(what, most) == done[what] < most /\ done' = [done EXCEPT ![what] = @ + 1]

Open == {"observed", "conflicting"}
Decided == {"accepted", "rejected"}

\* What a transaction leaves of a row (or of the claims) that was now when it
\* committed, when it read seen and assigned new.
Written(now, seen, new) == [f \in DOMAIN now |-> IF new[f] # seen[f] THEN new[f] ELSE now[f]]

Owned(c) == {k \in DOMAIN claim : endpoint[k[1]].owner = c}

\* reconcile_customer_identity_state: one way, to confirmed.
Reconciled(row, claims, own) ==
    IF /\ row.primary # None
       /\ \E k \in own : k[2] = row.primary /\ claims[k] = "accepted"
       /\ \A k \in own : claims[k] \notin Open
    THEN [row EXCEPT !.review = "clear", !.profile = "confirmed"]
    ELSE row

-----------------------------------------------------------------------------
(* The Telegram bot *)

\* begin_onboarding, which every update goes through first.  A completed
\* session needs no repair here: ProfileComplete says so.
Begun(s) ==
    IF s.status \in {"none", "cancelled"} THEN [s EXCEPT !.status = "awaiting_consent"]
    ELSE IF s.status = "reconciling" THEN [s EXCEPT !.status = "awaiting_phone"]
    ELSE s

Consented(s) == IF s.status = "awaiting_consent" THEN [s EXCEPT !.status = "awaiting_name"] ELSE s

Keep(u, s) == session' = [session EXCEPT ![u] = s]

\* /start and /cancel commit twice: the bot may die in between.
Start(u) ==
    /\ bot = Idle
    /\ \E s \in {Begun(session[u]), Consented(Begun(session[u]))} : Keep(u, s)
    /\ UNCHANGED <<customers, endpoint, claim, links, bot, mail, owner, done>>

CancelOnboarding(u) ==
    /\ bot = Idle
    /\ \E s \in {Begun(session[u]), [session[u] EXCEPT !.status = "cancelled"]} : Keep(u, s)
    /\ UNCHANGED <<customers, endpoint, claim, links, bot, mail, owner, done>>

\* A message whose update nobody claimed before.  One that is not what is
\* asked for leaves the session as begin_onboarding left it, which Start and
\* CancelOnboarding cover.
SubmitName(u, name) ==
    /\ bot = Idle /\ Begun(session[u]).status = "awaiting_name"
    /\ Keep(u, [session[u] EXCEPT !.name = name, !.status = "awaiting_gmail"])
    /\ UNCHANGED <<customers, endpoint, claim, links, bot, mail, owner, done>>

SubmitGmail(u, email) ==
    /\ bot = Idle /\ Begun(session[u]).status = "awaiting_gmail"
    /\ Keep(u, [session[u] EXCEPT !.email = email, !.status = "awaiting_phone"])
    /\ UNCHANGED <<customers, endpoint, claim, links, bot, mail, owner, done>>

\* The session is told to be complete before the profile is resolved.
SubmitPhoneComplete(u, phone) ==
    /\ bot = Idle /\ Begun(session[u]).status = "awaiting_phone"
    /\ Keep(u, [session[u] EXCEPT !.phone = phone, !.status = "awaiting_message"])
    /\ bot' = [at |-> "reconciling", user |-> u]
    /\ UNCHANGED <<customers, endpoint, claim, links, mail, owner, done>>

\* The first commit of submit_phone, before the profile is protected.
SubmitPhone(u, phone) ==
    /\ bot = Idle /\ Begun(session[u]).status = "awaiting_phone"
    /\ Keep(u, [session[u] EXCEPT !.phone = phone, !.status = "reconciling"])
    /\ bot' = [at |-> "reconciling", user |-> u]
    /\ UNCHANGED <<customers, endpoint, claim, links, mail, owner, done>>

\* The three endpoints of a session, in the order they are added.
Bundle(u) == <<u, session[u].email, session[u].phone>>

Candidates(u) ==
    {endpoint[t].owner : t \in {t \in {Bundle(u)[i] : i \in 1 .. 3} : endpoint[t].status \in {"observed", "verified"}}}

\* Endpoints of two customers: no merge, both are marked for review.
Conflict(u) ==
    /\ bot.at = "reconciling" /\ bot.user = u /\ Cardinality(Candidates(u)) > 1
    /\ customers' = [c \in DOMAIN customers |->
            IF c \in Candidates(u) THEN [customers[c] EXCEPT !.review = "review_required"] ELSE customers[c]]
    /\ bot' = Idle
    /\ UNCHANGED <<endpoint, claim, links, session, mail, owner, done>>

\* resolve_customer_endpoint reads: 0 stands for a customer to be created.
ResolveReads(u) ==
    /\ bot.at = "reconciling" /\ bot.user = u
    /\ \/ /\ Candidates(u) = {} /\ Len(customers) < MaxCustomers
          \* The name of the new profile is unique, and made from the address.
          /\ \A c \in DOMAIN customers : customers[c].key # <<"telegram", session[u].email>>
          /\ bot' = [at |-> "resolving", user |-> u, customer |-> 0, claims |-> claim]
       \/ \E c \in Candidates(u) :
            /\ Candidates(u) = {c}
            /\ bot' = [at |-> "resolving", user |-> u, customer |-> c, row |-> customers[c], claims |-> claim]
    /\ UNCHANGED <<customers, endpoint, claim, links, session, mail, owner, done>>

\* _add_endpoint refuses one that is another customer's, or revoked.
Refused(e, c) == e.status # "none" /\ (e.owner # c \/ e.status = "revoked")

Added(e, c, verified) ==
    IF e.status = "none"
    THEN [owner |-> c, status |-> IF verified THEN "verified" ELSE "observed", origin |-> "telegram_onboarding"]
    ELSE [e EXCEPT !.status = IF verified THEN "verified" ELSE @]

\* The endpoints the bot can add before the first that is refused.
Additions(u, c) ==
    {i \in 1 .. 3 : \A j \in 1 .. i : ~Refused(endpoint[Bundle(u)[j]], c)}

WithEndpoints(u, c) ==
    [t \in Endpoints |->
        IF \E i \in Additions(u, c) : Bundle(u)[i] = t THEN Added(endpoint[t], c, t = u) ELSE endpoint[t]]

Target == IF bot.customer = 0 THEN Len(customers) + 1 ELSE bot.customer

WithCustomer(c, row) == IF c = Len(customers) + 1 THEN Append(customers, row) ELSE [customers EXCEPT ![c] = row]

\* A refused endpoint ends the resolution with an error, and the update of the
\* receipt that tells of it commits what was done so far.
ResolveRefused(u) ==
    /\ bot.at = "resolving" /\ bot.user = u /\ Target <= MaxCustomers
    /\ \E i \in 1 .. 3 : Refused(endpoint[Bundle(u)[i]], Target)
    /\ customers' =
            IF bot.customer = 0
            THEN Append(customers, NewCustomer(session[u].name, "provisional", <<"telegram", session[u].email>>))
            ELSE customers
    /\ endpoint' = WithEndpoints(u, Target)
    /\ bot' = Idle
    /\ UNCHANGED <<claim, links, session, mail, owner, done>>

\* Mutant: a claim that was decided is opened again.
OnboardingNameAnew(seen, name, status) ==
    LET conflicts == seen.primary \notin {None, name}
    IN  [row |-> [seen EXCEPT !.primary = IF @ = None THEN name ELSE @,
                              !.review = IF conflicts THEN "review_required" ELSE @,
                              !.profile = "confirmed"],
         status |-> IF conflicts THEN "conflicting" ELSE "accepted"]

\* _record_onboarding_name: the name the customer gives himself, which never
\* takes the place of another.
OnboardingName(seen, name, status) ==
    LET conflicts == seen.primary \notin {None, name}
    IN  [row |-> [seen EXCEPT !.primary = IF @ = None THEN name ELSE @,
                              !.review = IF conflicts THEN "review_required" ELSE @,
                              !.profile = "confirmed"],
         status |-> IF status \in Decided THEN status ELSE IF conflicts THEN "conflicting" ELSE "accepted"]

Resolve(u) ==
    LET c == Target
        name == session[u].name
        fresh == NewCustomer(name, "provisional", <<"telegram", session[u].email>>)
        seen == IF bot.customer = 0 THEN fresh ELSE bot.row
        now == IF bot.customer = 0 THEN fresh ELSE customers[c]
        told == OnboardingName(seen, name, bot.claims[<<u, name>>])
    IN  /\ bot.at = "resolving" /\ bot.user = u /\ c <= MaxCustomers
        /\ \A i \in 1 .. 3 : ~Refused(endpoint[Bundle(u)[i]], c)
        /\ customers' = WithCustomer(c, Written(now, seen, told.row))
        /\ endpoint' = WithEndpoints(u, c)
        /\ claim' = Written(claim, bot.claims, [bot.claims EXCEPT ![<<u, name>>] = told.status])
        /\ links' = links \union {<<u, c>>}
        /\ bot' = [at |-> "resolved", user |-> u, customer |-> c]
        /\ UNCHANGED <<session, mail, owner, done>>

Complete(u) ==
    /\ bot.at = "resolved" /\ bot.user = u
    /\ Keep(u, [session[u] EXCEPT !.customer = bot.customer, !.status = "awaiting_message"])
    /\ bot' = Idle
    /\ UNCHANGED <<customers, endpoint, claim, links, mail, owner, done>>

\* A message is protected, then linked to the profile of its session.
IngestMessage(u) ==
    /\ bot = Idle /\ session[u].status \in {"awaiting_message", "completed"} /\ session[u].customer # 0
    /\ bot' = [at |-> "stored", user |-> u]
    /\ UNCHANGED <<customers, endpoint, claim, links, session, mail, owner, done>>

LinkMessage(u) ==
    /\ bot.at = "stored" /\ bot.user = u
    /\ links' = links \union {<<u, session[u].customer>>}
    /\ Keep(u, [session[u] EXCEPT !.status = "completed"])
    /\ bot' = Idle
    /\ UNCHANGED <<customers, endpoint, claim, mail, owner, done>>

\* The process dies, or two inserts meet at a unique key: the update is lost.
BotFails ==
    /\ bot # Idle
    /\ bot' = Idle
    /\ UNCHANGED <<customers, endpoint, claim, links, session, mail, owner, done>>

-----------------------------------------------------------------------------
(* The email worker *)

\* route_email_sender reads the endpoint, the customer and the claims: a
\* revoked endpoint, and one only another channel has seen, route nothing.
RouteReads(e, name) ==
    /\ mail = Idle /\ Spend("mails", MaxMails)
    /\ \/ /\ endpoint[e].status = "none" /\ Len(customers) < MaxCustomers
          /\ mail' = [at |-> "routing", email |-> e, name |-> name, customer |-> 0]
       \/ /\ endpoint[e].status \in {"observed", "verified"}
          /\ endpoint[e].status = "observed" => endpoint[e].origin = "inbound_email"
          /\ LET c == endpoint[e].owner
             IN  mail' = [at |-> "routing", email |-> e, name |-> name, customer |-> c,
                          row |-> customers[c], claims |-> claim]
    /\ UNCHANGED <<customers, endpoint, claim, links, session, bot, owner>>

\* _record_claims, for a customer and claims as they were read.
SenderClaims(c, row, claims, e, name, own) ==
    LET named == [row EXCEPT !.primary = IF @ = None THEN name ELSE @]
        status == IF claims[<<e, name>>] \in Decided THEN claims[<<e, name>>]
                  ELSE IF name # named.primary THEN "conflicting" ELSE "observed"
        told == [claims EXCEPT ![<<e, name>>] = status]
        marked == [named EXCEPT !.review = IF status = "conflicting" THEN "review_required" ELSE @]
    IN  IF name = None THEN [row |-> row, claims |-> claims]
        ELSE [row |-> Reconciled(marked, told, own \union {<<e, name>>}), claims |-> told]

RouteTargetNew == Len(customers) + 1

\* A new profile, unless the endpoint was added by another in the meantime:
\* then the message goes to the owner of that one.
RouteTarget == IF endpoint[mail.email].status = "none" THEN Len(customers) + 1 ELSE endpoint[mail.email].owner

RouteNew ==
    LET e == mail.email
        c == RouteTarget
        row == IF c \in DOMAIN customers THEN customers[c] ELSE NewCustomer(None, "provisional", <<"email", e>>)
        told == SenderClaims(c, row, claim, e, mail.name, Owned(c))
    IN  /\ mail.at = "routing" /\ mail.customer = 0 /\ c <= MaxCustomers
        /\ mail' = Idle
        /\ IF endpoint[e].status = "revoked" THEN UNCHANGED <<customers, endpoint, claim, links>>
           ELSE /\ customers' = WithCustomer(c, told.row)
                /\ endpoint' = [endpoint EXCEPT ![e] =
                        IF @.status = "none" THEN [owner |-> c, status |-> "observed", origin |-> "inbound_email"] ELSE @]
                /\ claim' = told.claims
                /\ links' = links \union {<<e, c>>}
        /\ UNCHANGED <<session, bot, owner, done>>

RouteKnown ==
    LET c == mail.customer
        told == SenderClaims(c, mail.row, mail.claims, mail.email, mail.name, Owned(c))
    IN  /\ mail.at = "routing" /\ mail.customer # 0
        /\ customers' = [customers EXCEPT ![c] = Written(@, mail.row, told.row)]
        /\ claim' = Written(claim, mail.claims, told.claims)
        /\ links' = links \union {<<mail.email, c>>}
        /\ mail' = Idle
        /\ UNCHANGED <<endpoint, session, bot, owner, done>>

MailFails ==
    /\ mail # Idle
    /\ mail' = Idle
    /\ UNCHANGED <<customers, endpoint, claim, links, session, bot, owner, done>>

-----------------------------------------------------------------------------
(* The owner, and the managers who register addresses *)

\* resolve_identity_claim reads a claim, its customer and the other claims.
DecideReads(k, decision) ==
    /\ Spend("reviews", MaxReviews)
    /\ owner = Idle /\ claim[k] # "none"
    /\ owner' = [at |-> "deciding", claim |-> k, decision |-> decision, customer |-> endpoint[k[1]].owner,
                  row |-> customers[endpoint[k[1]].owner], claims |-> claim]
    /\ UNCHANGED <<customers, endpoint, claim, links, session, bot, mail>>

\* accept_primary closes the other claims that are open; accept_alias and
\* reject leave them to be decided.
DecidedClaims(k, decision, claims, own) ==
    [j \in DOMAIN claims |->
        IF j = k THEN IF decision = "reject" THEN "rejected" ELSE "accepted"
        ELSE IF decision = "accept_primary" /\ j \in own /\ claims[j] \in Open
             THEN IF j[2] = k[2] THEN "accepted" ELSE "rejected"
        ELSE claims[j]]

Decide ==
    LET c == owner.customer
        told == DecidedClaims(owner.claim, owner.decision, owner.claims, Owned(c))
        named == [owner.row EXCEPT !.primary = IF owner.decision = "accept_primary" THEN owner.claim[2] ELSE @]
    IN  /\ owner.at = "deciding"
        /\ customers' = [customers EXCEPT ![c] = Written(@, owner.row, Reconciled(named, told, Owned(c)))]
        /\ claim' = Written(claim, owner.claims, told)
        /\ owner' = Idle
        /\ UNCHANGED <<endpoint, links, session, bot, mail, done>>

\* register_email_endpoint, which also restores a revoked one.
Register(c, e) ==
    /\ Spend("reviews", MaxReviews)
    /\ \/ /\ endpoint[e].status = "none"
          /\ endpoint' = [endpoint EXCEPT ![e] = [owner |-> c, status |-> "observed", origin |-> "manual"]]
       \/ /\ endpoint[e].status = "revoked" /\ endpoint[e].owner = c
          /\ endpoint' = [endpoint EXCEPT ![e].status = "observed"]
    /\ UNCHANGED <<customers, claim, links, session, bot, mail, owner>>

Verify(t) ==
    /\ Spend("reviews", MaxReviews)
    /\ endpoint[t].status \in {"observed", "verified"}
    /\ endpoint' = [endpoint EXCEPT ![t].status = "verified"]
    /\ customers' = [customers EXCEPT ![endpoint[t].owner].profile =
            IF customers[endpoint[t].owner].review = "clear" THEN "confirmed" ELSE @]
    /\ UNCHANGED <<claim, links, session, bot, mail, owner>>

Revoke(t) ==
    /\ Spend("reviews", MaxReviews)
    /\ endpoint[t].status \in {"observed", "verified"}
    /\ endpoint' = [endpoint EXCEPT ![t].status = "revoked"]
    /\ UNCHANGED <<customers, claim, links, session, bot, mail, owner>>

\* Submitting or approving a message to a customer reconciles his profile.
Approve(c) ==
    /\ customers' = [customers EXCEPT ![c] = Reconciled(@, claim, Owned(c))]
    /\ UNCHANGED <<endpoint, claim, links, session, bot, mail, owner, done>>

-----------------------------------------------------------------------------

Onboard(u) ==
    \/ Start(u) \/ CancelOnboarding(u)
    \/ \E name \in Name : SubmitName(u, name)
    \/ \E email \in Email : SubmitGmail(u, email)
    \/ \E phone \in Phone : SubmitPhone(u, phone)
    \/ Conflict(u) \/ ResolveReads(u) \/ ResolveRefused(u) \/ Resolve(u) \/ Complete(u)
    \/ IngestMessage(u) \/ LinkMessage(u)

\* What the owner and the managers do about claims and endpoints.
Manage ==
    \/ \E k \in DOMAIN claim, decision \in {"accept_primary", "accept_alias", "reject"} : DecideReads(k, decision)
    \/ Decide
    \/ \E c \in DOMAIN customers, e \in Email : Register(c, e)
    \/ \E t \in Endpoints : Verify(t) \/ Revoke(t)

Next ==
    \/ \E u \in User : Onboard(u)
    \/ BotFails
    \/ \E e \in Email, name \in Name \union {None} : RouteReads(e, name)
    \/ RouteNew \/ RouteKnown \/ MailFails
    \/ Manage
    \/ \E c \in DOMAIN customers : Approve(c)

Spec == Init /\ [][Next]_vars

-----------------------------------------------------------------------------

\* A session that waits for messages has a profile behind it: the customer
\* owns the endpoint of the user and the address and the number he gave, and
\* the name he gave is a claim of that customer, whatever was interrupted,
\* cancelled or begun again on the way (submit_phone, begin_onboarding).
ProfileComplete ==
    \A u \in User :
        session[u].status \in {"awaiting_message", "completed"} =>
            /\ session[u].customer # 0
            /\ \A i \in 1 .. 3 : endpoint[Bundle(u)[i]].owner = session[u].customer
            /\ claim[<<u, session[u].name>>] # "none"

\* A record is linked to the customer who owns the endpoint it came from, on
\* every channel and whatever endpoints are added, revoked and restored
\* (ingest_customer_message, resolve_customer_endpoint, route_email_sender).
LinksFollowEndpoints == \A l \in links : endpoint[l[1]].owner = l[2]

\* Somebody commits who read the claim before it was decided.
Overtaken(k) ==
    \/ bot.at = "resolving" /\ bot' # bot /\ bot.claims[k] \in Open
    \/ mail.at = "routing" /\ mail' # mail /\ mail.customer # 0 /\ mail.claims[k] \in Open
    \/ owner.at = "deciding" /\ owner' # owner /\ owner.claims[k] \in Open

\* What the owner decided of a claim stands: no message and no onboarding that
\* comes later undoes it, only the owner, who may decide the claim again, and
\* a transaction that read the claim while it was open
\* (resolve_identity_claim, _record_claims, _record_onboarding_name).
DecisionsStand ==
    [][\A k \in DOMAIN claim :
            \/ claim[k] \in Decided => claim'[k] = claim[k]
            \/ owner.at = "deciding" /\ owner' # owner /\ owner.claim = k
            \/ Overtaken(k)]_vars

\* "a conflicting later name triggers owner review, never a silent rename"
\* (README.md): the name of a profile, once there, changes by a decision of
\* the owner (resolve_identity_claim) and not otherwise.
NeverRenamed ==
    [][\A c \in DOMAIN customers :
            \/ customers[c].primary \in {None, customers'[c].primary}
            \/ owner.at = "deciding" /\ owner' = Idle]_vars
=============================================================================
