-------------------------- MODULE Customers_proofs --------------------------
(***************************************************************************)
(* Theorems of Customers, for any users, addresses, numbers, names and     *)
(* bounds.                                                                 *)
(***************************************************************************)
EXTENDS Customers, SequenceTheorems, TLAPS

Endpoint ==
    [owner : Nat, status : {"none", "observed", "verified", "revoked"},
     origin : {"none", "telegram_onboarding", "inbound_email", "manual"}]
ClaimStatus == {"none", "observed", "conflicting", "accepted", "rejected"}
Claims == [Endpoints \X Name -> ClaimStatus]
Step == {"none", "cancelled", "awaiting_consent", "awaiting_name", "awaiting_gmail", "awaiting_phone",
         "reconciling", "awaiting_message", "completed"}

\* Every endpoint that is known belongs to a customer, and keeps to it.
Held(t, c) == endpoint[t].status # "none" /\ endpoint[t].owner = c

HeldAll(u, c) == Held(u, c) /\ Held(session[u].email, c) /\ Held(session[u].phone, c)

Numbered(s) == \E S : s \in Seq(S)

RowsOK ==
    /\ Numbered(customers)
    /\ endpoint \in [Endpoints -> Endpoint]
    /\ claim \in Claims
    /\ \A t \in Endpoints : endpoint[t].status # "none" => endpoint[t].owner # 0

\* What a session s of the user u has been given by the time it is where it is.
SessionOK(u, s) ==
    /\ s \in [status : Step, name : Name \union {None}, email : Email \union {None},
              phone : Phone \union {None}, customer : Nat]
    /\ s.status = "awaiting_gmail" => s.name \in Name
    /\ s.status = "awaiting_phone" => s.name \in Name /\ s.email \in Email
    /\ s.status \in {"reconciling", "awaiting_message", "completed"} =>
           s.name \in Name /\ s.email \in Email /\ s.phone \in Phone
    /\ s.customer # 0 => Held(u, s.customer)
    /\ s.status \in {"awaiting_message", "completed"} =>
           /\ s.customer # 0
           /\ Held(s.email, s.customer) /\ Held(s.phone, s.customer)
           /\ claim[<<u, s.name>>] # "none"

SessionsOK ==
    /\ session = [u \in User |-> session[u]]
    /\ \A u \in User : SessionOK(u, session[u])

LinksOK == \A l \in links : l \in Endpoints \X Nat /\ Held(l[1], l[2])

\* What the bot knows in the middle of an update; nobody else writes sessions.
BotOK ==
    \/ bot = Idle
    \/ /\ bot.at = "stored" /\ bot.user \in User /\ session[bot.user].status \in {"awaiting_message", "completed"}
    \/ /\ bot.at = "reconciling" /\ bot.user \in User /\ session[bot.user].status = "reconciling"
    \/ /\ bot.at = "resolving" /\ bot.user \in User /\ session[bot.user].status = "reconciling"
       /\ bot.customer \in Nat /\ bot.claims \in Claims
       /\ \A k \in Endpoints \X Name : bot.claims[k] # "none" => claim[k] # "none"
    \/ /\ bot.at = "resolved" /\ bot.user \in User /\ session[bot.user].status = "reconciling"
       /\ bot.customer \in Nat \ {0} /\ HeldAll(bot.user, bot.customer)
       /\ claim[<<bot.user, session[bot.user].name>>] # "none"

MailOK ==
    \/ mail = Idle
    \/ /\ mail.at = "routing" /\ mail.email \in Email /\ mail.name \in Name \union {None}
       /\ mail.customer \in Nat
       /\ mail.customer # 0 => Held(mail.email, mail.customer) /\ mail.claims \in Claims

OwnerOK ==
    \/ owner = Idle
    \/ owner.at = "deciding" /\ owner.claims \in Claims

\* The inductive invariant.
IInv ==
    /\ RowsOK
    /\ SessionsOK
    /\ LinksOK
    /\ BotOK
    /\ MailOK
    /\ OwnerOK

\* No step forgets an endpoint, gives it to another customer or forgets a claim.
Keeps ==
    /\ \A t \in Endpoints : endpoint[t].status # "none" =>
           endpoint'[t].status # "none" /\ endpoint'[t].owner = endpoint[t].owner
    /\ \A k \in Endpoints \X Name : claim[k] # "none" => claim'[k] # "none"

-----------------------------------------------------------------------------
(* The operators *)

\* A function with the domain of a sequence is a sequence.
LEMMA SameLength ==
    ASSUME NEW s, NEW f, Numbered(s), f = [c \in DOMAIN s |-> f[c]]
    PROVE  Numbered(f)
<1>1. PICK S : s \in Seq(S) BY DEF Numbered
<1> DEFINE T == {f[c] : c \in DOMAIN s}
<1>2. PICK n \in Nat : s \in [1 .. n -> S] BY <1>1, SeqDef
<1>3. f \in [1 .. n -> T] BY <1>2
<1>4. f \in Seq(T) BY <1>3, SeqDef
<1> QED BY <1>4 DEF Numbered

\* A customer added, or one replaced, leaves a sequence of customers.
LEMMA ReplacedNumbered ==
    ASSUME Numbered(customers), NEW c, NEW row
    PROVE  Numbered([customers EXCEPT ![c] = row])
<1> DEFINE f == [customers EXCEPT ![c] = row]
<1>1. PICK S : customers \in Seq(S) BY DEF Numbered
<1>2. PICK n \in Nat : customers \in [1 .. n -> S] BY <1>1, SeqDef
<1>3. f = [i \in DOMAIN customers |-> f[i]] BY <1>2
<1>4. Numbered(f) BY <1>3, SameLength
<1> QED BY <1>4

LEMMA WithCustomerNumbered ==
    ASSUME Numbered(customers), NEW c, NEW row
    PROVE  Numbered(WithCustomer(c, row))
<1>1. PICK S : customers \in Seq(S) BY DEF Numbered
<1> DEFINE T == S \union {row}
<1>2. customers \in Seq(T) BY <1>1
<1>3. Append(customers, row) \in Seq(T) BY <1>2
<1>4. CASE c = Len(customers) + 1 BY <1>3, <1>4 DEF WithCustomer, Numbered
<1>5. CASE c # Len(customers) + 1 BY <1>5, ReplacedNumbered DEF WithCustomer
<1> QED BY <1>4, <1>5

\* What a transaction writes over the claims is claims, and a claim that is
\* there stays there when the transaction takes none away.
LEMMA WrittenClaims ==
    ASSUME NEW now \in Claims, NEW seen \in Claims, NEW new \in Claims,
           \A k \in Endpoints \X Name : new[k] = seen[k] \/ new[k] # "none"
    PROVE  /\ Written(now, seen, new) \in Claims
           /\ \A k \in Endpoints \X Name : now[k] # "none" => Written(now, seen, new)[k] # "none"
           /\ \A k \in Endpoints \X Name : new[k] # "none" /\ seen[k] = "none" => Written(now, seen, new)[k] # "none"
BY DEF Written, Claims

\* No customer has the number 0, which stands for one to be created.
LEMMA NextNumber ==
    ASSUME Numbered(customers)
    PROVE  Len(customers) \in Nat
BY DEF Numbered

-----------------------------------------------------------------------------
(* What every step leaves as it is *)

LEMMA InitIInv == Init => IInv
<1> SUFFICES ASSUME Init PROVE IInv OBVIOUS
<1>1. Numbered(customers)
    <2>1. <<>> \in Seq({}) OBVIOUS
    <2>2. ASSUME NEW row PROVE <<row>> \in Seq({row}) OBVIOUS
    <2> QED BY <2>1, <2>2 DEF Init, Numbered
<1>2. RowsOK
    <2>1. NoEndpoint \in Endpoint BY DEF NoEndpoint, Endpoint
    <2>2. endpoint \in [Endpoints -> Endpoint] BY <2>1 DEF Init
    <2>3. claim \in Claims BY DEF Init, Claims, ClaimStatus
    <2>4. \A t \in Endpoints : endpoint[t].status = "none" BY DEF Init, NoEndpoint
    <2> QED BY <1>1, <2>2, <2>3, <2>4 DEF RowsOK
<1>3. SessionsOK
    <2>1. \A u \in User : SessionOK(u, NoSession) BY DEF SessionOK, Step, NoSession
    <2>2. session = [u \in User |-> NoSession] BY DEF Init
    <2> QED BY <2>1, <2>2 DEF SessionsOK
<1>4. LinksOK BY DEF Init, LinksOK
<1>5. BotOK /\ MailOK /\ OwnerOK BY DEF Init, BotOK, MailOK, OwnerOK
<1> QED BY <1>2, <1>3, <1>4, <1>5 DEF IInv

\* An endpoint that is held stays held.
LEMMA HeldKept ==
    ASSUME Keeps, NEW t \in Endpoints, NEW c, Held(t, c)
    PROVE  Held(t, c)'
BY DEF Keeps, Held

LEMMA LinksKept ==
    ASSUME LinksOK, Keeps, \A l \in links' : l \in links \/ (l \in Endpoints \X Nat /\ Held(l[1], l[2])')
    PROVE  LinksOK'
<1> SUFFICES ASSUME NEW l \in links' PROVE l \in Endpoints \X Nat /\ Held(l[1], l[2])'
    BY DEF LinksOK
<1>1. CASE l \in links
    <2>1. l \in Endpoints \X Nat /\ l[1] \in Endpoints /\ Held(l[1], l[2]) BY <1>1 DEF LinksOK
    <2> QED BY <2>1, HeldKept
<1>2. CASE l \notin links BY <1>2
<1> QED BY <1>1, <1>2

\* The endpoints a session names.
LEMMA BundleEndpoints ==
    ASSUME NEW u \in User, session[u].email \in Email, session[u].phone \in Phone
    PROVE  \A i \in 1 .. 3 : Bundle(u)[i] \in Endpoints
BY DEF Bundle, Endpoints

\* A session that is as it was is all right after the step.
LEMMA SessionKept ==
    ASSUME Keeps, NEW u \in User, NEW s, SessionOK(u, s)
    PROVE  SessionOK(u, s)'
<1>1. u \in Endpoints BY DEF Endpoints
<1>2. s.customer # 0 => Held(u, s.customer)' BY <1>1, HeldKept DEF SessionOK
<1>3. ASSUME s.status \in {"awaiting_message", "completed"}
      PROVE  Held(s.email, s.customer)' /\ Held(s.phone, s.customer)' /\ claim'[<<u, s.name>>] # "none"
    <2>1. s.email \in Endpoints /\ s.phone \in Endpoints BY <1>3 DEF SessionOK, Endpoints
    <2>2. <<u, s.name>> \in Endpoints \X Name BY <1>1, <1>3 DEF SessionOK
    <2>3. Held(s.email, s.customer) /\ Held(s.phone, s.customer) /\ claim[<<u, s.name>>] # "none"
        BY <1>3 DEF SessionOK
    <2>4. claim'[<<u, s.name>>] # "none" BY <2>2, <2>3 DEF Keeps
    <2> QED BY <2>1, <2>3, <2>4, HeldKept
<1> QED BY <1>2, <1>3 DEF SessionOK

LEMMA SessionsKept ==
    ASSUME SessionsOK, Keeps, session' = session
    PROVE  SessionsOK'
<1>1. ASSUME NEW u \in User PROVE SessionOK(u, session[u])' BY <1>1, SessionKept DEF SessionsOK
<1> QED BY <1>1 DEF SessionsOK

LEMMA SessionsChanged ==
    ASSUME SessionsOK, Keeps, NEW u \in User, NEW s, session' = [session EXCEPT ![u] = s], SessionOK(u, s)'
    PROVE  SessionsOK' /\ session'[u] = s
<1>1. DOMAIN session = User BY DEF SessionsOK
<1>2. session' = [v \in User |-> session'[v]] BY <1>1
<1>3. session'[u] = s BY <1>1
<1>4. ASSUME NEW v \in User PROVE SessionOK(v, session[v])'
    <2>1. CASE v = u BY <2>1, <1>3
    <2>2. CASE v # u
        <3>1. session'[v] = session[v] BY <2>2, <1>1
        <3>2. SessionOK(v, session[v]) BY DEF SessionsOK
        <3> QED BY <3>1, <3>2, SessionKept
    <2> QED BY <2>1, <2>2
<1>5. (\A v \in User : SessionOK(v, session[v]))' BY <1>4
<1>6. SessionsOK' BY <1>2, <1>5 DEF SessionsOK
<1> QED BY <1>3, <1>6

LEMMA BotKept ==
    ASSUME BotOK, SessionsOK, Keeps, bot' = bot, session' = session
    PROVE  BotOK'
<1>1. CASE bot = Idle BY <1>1 DEF BotOK
<1>2. CASE bot.at = "stored" /\ bot # Idle BY <1>2 DEF BotOK
<1>3. CASE bot.at = "reconciling" /\ bot # Idle BY <1>3 DEF BotOK
<1>4. CASE bot.at = "resolving" /\ bot # Idle BY <1>4 DEF BotOK, Keeps
<1>5. CASE bot.at = "resolved" /\ bot # Idle
    <2> DEFINE u == bot.user
    <2>1. u \in User /\ session[u].status = "reconciling" /\ bot.customer \in Nat \ {0}
          /\ HeldAll(u, bot.customer) /\ claim[<<u, session[u].name>>] # "none"
        BY <1>5 DEF BotOK
    <2>2. session[u].name \in Name /\ session[u].email \in Email /\ session[u].phone \in Phone
        BY <2>1 DEF SessionsOK, SessionOK
    <2>3. u \in Endpoints /\ session[u].email \in Endpoints /\ session[u].phone \in Endpoints
        BY <2>1, <2>2 DEF Endpoints
    <2>4. HeldAll(u, bot.customer)' BY <2>1, <2>3, HeldKept DEF HeldAll
    <2>5. claim'[<<u, session[u].name>>] # "none" BY <2>1, <2>2, <2>3 DEF Keeps
    <2> QED BY <1>5, <2>1, <2>4, <2>5 DEF BotOK
<1> QED BY <1>1, <1>2, <1>3, <1>4, <1>5 DEF BotOK

LEMMA MailKept ==
    ASSUME MailOK, Keeps, mail' = mail
    PROVE  MailOK'
<1>1. CASE mail = Idle BY <1>1 DEF MailOK
<1>2. CASE mail # Idle
    <2>1. mail.email \in Endpoints BY <1>2 DEF MailOK, Endpoints
    <2>2. mail.customer # 0 => Held(mail.email, mail.customer)' BY <1>2, <2>1, HeldKept DEF MailOK
    <2> QED BY <1>2, <2>2 DEF MailOK
<1> QED BY <1>1, <1>2

\* A step that leaves the endpoints and the claims alone.
LEMMA NothingForgotten ==
    ASSUME UNCHANGED <<endpoint, claim>>
    PROVE  Keeps
BY DEF Keeps

LEMMA RowsKept ==
    ASSUME RowsOK, UNCHANGED <<customers, endpoint, claim>>
    PROVE  RowsOK'
BY DEF RowsOK, Numbered

-----------------------------------------------------------------------------
(* The Telegram bot *)

\* A step that writes the session of a user and begins or ends an update.
LEMMA SessionStep ==
    ASSUME IInv, NEW u \in User, NEW s, Keep(u, s), SessionOK(u, s), UNCHANGED <<customers, endpoint, claim, mail, owner>>,
           LinksOK', bot' = Idle \/ (bot' = [at |-> "reconciling", user |-> u] /\ s.status = "reconciling")
    PROVE  IInv'
<1>1. Keeps BY NothingForgotten
<1>2. RowsOK' BY RowsKept DEF IInv
<1>3. SessionOK(u, s)' BY <1>1, SessionKept
<1>4. SessionsOK' /\ session'[u] = s BY <1>1, <1>3, SessionsChanged DEF IInv, Keep
<1>5. BotOK' BY <1>4 DEF BotOK
<1>6. MailOK' BY <1>1, MailKept DEF IInv
<1>7. OwnerOK' BY DEF IInv, OwnerOK
<1> QED BY <1>2, <1>4, <1>5, <1>6, <1>7 DEF IInv

LEMMA SameLinks ==
    ASSUME LinksOK, UNCHANGED <<links, endpoint>>
    PROVE  LinksOK'
BY DEF LinksOK, Held

\* The session that begin_onboarding leaves is all right.
LEMMA BegunOK ==
    ASSUME SessionsOK, NEW u \in User
    PROVE  /\ SessionOK(u, session[u])
           /\ SessionOK(u, Begun(session[u]))
           /\ SessionOK(u, Consented(Begun(session[u])))
<1> DEFINE s == session[u]
<1>1. SessionOK(u, s) BY DEF SessionsOK
<1> HIDE DEF s
<1>2. SessionOK(u, Begun(s))
    <2>1. CASE s.status \in {"none", "cancelled"}
        <3>1. Begun(s) = [s EXCEPT !.status = "awaiting_consent"] BY <2>1 DEF Begun
        <3> QED BY <1>1, <3>1 DEF SessionOK, Step
    <2>2. CASE s.status = "reconciling"
        <3>1. Begun(s) = [s EXCEPT !.status = "awaiting_phone"] BY <2>2 DEF Begun
        <3> QED BY <1>1, <2>2, <3>1 DEF SessionOK, Step
    <2>3. CASE s.status \notin {"none", "cancelled", "reconciling"}
        BY <1>1, <2>3 DEF Begun
    <2> QED BY <2>1, <2>2, <2>3
<1>3. SessionOK(u, Consented(Begun(s)))
    <2> DEFINE b == Begun(s)
    <2> HIDE DEF b
    <2>1. SessionOK(u, b) BY <1>2 DEF b
    <2>2. SessionOK(u, Consented(b)) BY <2>1 DEF Consented, SessionOK, Step
    <2> QED BY <2>2 DEF b
<1> QED BY <1>1, <1>2, <1>3 DEF s

LEMMA StartStep == ASSUME IInv, NEW u \in User, Start(u) PROVE IInv'
<1>1. PICK s \in {Begun(session[u]), Consented(Begun(session[u]))} : Keep(u, s) BY DEF Start
<1>2. SessionOK(u, s) BY BegunOK DEF IInv
<1>3. LinksOK' BY SameLinks DEF IInv, Start
<1> QED BY <1>1, <1>2, <1>3, SessionStep DEF Start

LEMMA CancelStep == ASSUME IInv, NEW u \in User, CancelOnboarding(u) PROVE IInv'
<1> DEFINE q == [session[u] EXCEPT !.status = "cancelled"]
<1>1. PICK s \in {Begun(session[u]), q} : Keep(u, s) BY DEF CancelOnboarding
<1>2. SessionOK(u, session[u]) /\ SessionOK(u, Begun(session[u])) BY BegunOK DEF IInv
<1>3. SessionOK(u, q) BY <1>2 DEF SessionOK, Step
<1>4. LinksOK' BY SameLinks DEF IInv, CancelOnboarding
<1>5. SessionOK(u, s) BY <1>2, <1>3
<1> QED BY <1>1, <1>4, <1>5, SessionStep DEF CancelOnboarding

LEMMA SubmitNameStep == ASSUME IInv, NEW u \in User, NEW name \in Name, SubmitName(u, name) PROVE IInv'
<1> DEFINE s == [session[u] EXCEPT !.name = name, !.status = "awaiting_gmail"]
<1>1. SessionOK(u, session[u]) BY BegunOK DEF IInv
<1>2. SessionOK(u, s) BY <1>1 DEF SessionOK, Step
<1>3. LinksOK' BY SameLinks DEF IInv, SubmitName
<1> HIDE DEF s
<1>4. Keep(u, s) BY DEF SubmitName, s
<1> QED BY <1>2, <1>3, <1>4, SessionStep DEF SubmitName

LEMMA SubmitGmailStep == ASSUME IInv, NEW u \in User, NEW email \in Email, SubmitGmail(u, email) PROVE IInv'
<1> DEFINE s == [session[u] EXCEPT !.email = email, !.status = "awaiting_phone"]
<1>1. SessionOK(u, session[u]) BY BegunOK DEF IInv
<1>2. session[u].status = "awaiting_gmail" BY DEF SubmitGmail, Begun
<1>3. SessionOK(u, s) BY <1>1, <1>2 DEF SessionOK, Step
<1>4. LinksOK' BY SameLinks DEF IInv, SubmitGmail
<1> HIDE DEF s
<1>5. Keep(u, s) BY DEF SubmitGmail, s
<1> QED BY <1>3, <1>4, <1>5, SessionStep DEF SubmitGmail

LEMMA SubmitPhoneStep == ASSUME IInv, NEW u \in User, NEW phone \in Phone, SubmitPhone(u, phone) PROVE IInv'
<1> DEFINE s == [session[u] EXCEPT !.phone = phone, !.status = "reconciling"]
<1>1. SessionOK(u, session[u]) /\ SessionOK(u, Begun(session[u])) BY BegunOK DEF IInv
<1>2. session[u].status \in {"awaiting_phone", "reconciling"} BY DEF SubmitPhone, Begun
<1>3. SessionOK(u, s) /\ s.status = "reconciling" BY <1>1, <1>2 DEF SessionOK, Step
<1>4. LinksOK' BY SameLinks DEF IInv, SubmitPhone
<1> HIDE DEF s
<1>5. Keep(u, s) BY DEF SubmitPhone, s
<1> QED BY <1>3, <1>4, <1>5, SessionStep DEF SubmitPhone

LEMMA LinkMessageStep == ASSUME IInv, NEW u \in User, LinkMessage(u) PROVE IInv'
<1> DEFINE s == [session[u] EXCEPT !.status = "completed"]
<1>1. SessionOK(u, session[u]) BY BegunOK DEF IInv
<1>2. session[u].status \in {"awaiting_message", "completed"} BY DEF LinkMessage, IInv, BotOK, Idle
<1>3. SessionOK(u, s) BY <1>1, <1>2 DEF SessionOK, Step
<1>4. Held(u, session[u].customer) /\ <<u, session[u].customer>> \in Endpoints \X Nat
    BY <1>1, <1>2 DEF SessionOK, Endpoints
<1>5. LinksOK'
    <2>1. \A l \in links' : l \in Endpoints \X Nat /\ endpoint[l[1]].status # "none" /\ endpoint[l[1]].owner = l[2]
        BY <1>4 DEF LinkMessage, IInv, LinksOK, Held
    <2> QED BY <2>1 DEF LinksOK, Held, LinkMessage
<1> HIDE DEF s
<1>6. Keep(u, s) BY DEF LinkMessage, s
<1> QED BY <1>3, <1>5, <1>6, SessionStep DEF LinkMessage

LEMMA CompleteStep == ASSUME IInv, NEW u \in User, Complete(u) PROVE IInv'
<1> DEFINE s == [session[u] EXCEPT !.customer = bot.customer, !.status = "awaiting_message"]
<1>1. SessionOK(u, session[u]) BY BegunOK DEF IInv
<1>2. /\ session[u].status = "reconciling" /\ bot.customer \in Nat \ {0}
      /\ HeldAll(u, bot.customer) /\ claim[<<u, session[u].name>>] # "none"
    BY DEF Complete, IInv, BotOK, Idle
<1>3. SessionOK(u, s) BY <1>1, <1>2 DEF SessionOK, Step, HeldAll
<1>4. LinksOK' BY SameLinks DEF IInv, Complete
<1> HIDE DEF s
<1>5. Keep(u, s) BY DEF Complete, s
<1> QED BY <1>3, <1>4, <1>5, SessionStep DEF Complete

\* A step of the bot that only reads, or is the last of an update that came to nothing.
LEMMA BotOnly ==
    ASSUME IInv, UNCHANGED <<customers, endpoint, claim, links, session, mail, owner>>, BotOK'
    PROVE  IInv'
<1>1. Keeps BY NothingForgotten
<1>2. RowsOK' /\ LinksOK' BY RowsKept, SameLinks DEF IInv
<1>3. SessionsOK' /\ MailOK' BY <1>1, SessionsKept, MailKept DEF IInv
<1>4. OwnerOK' BY DEF IInv, OwnerOK
<1> QED BY <1>2, <1>3, <1>4 DEF IInv

LEMMA ResolveReadsStep == ASSUME IInv, NEW u \in User, ResolveReads(u) PROVE IInv'
<1>1. session[u].status = "reconciling" BY DEF ResolveReads, IInv, BotOK, Idle
<1>2. u \in Endpoints /\ session[u].email \in Endpoints /\ session[u].phone \in Endpoints
    BY <1>1 DEF IInv, SessionsOK, SessionOK, Endpoints
<1>3. ASSUME NEW c \in Candidates(u) PROVE c \in Nat
    BY <1>2, <1>3 DEF Candidates, Bundle, IInv, RowsOK, Endpoint
<1>4. /\ bot'.at = "resolving" /\ bot'.user = u /\ bot'.customer \in Nat /\ bot'.claims = claim
    BY <1>3 DEF ResolveReads
<1>5. BotOK' BY <1>1, <1>4 DEF BotOK, ResolveReads, IInv, RowsOK
<1> QED BY <1>5, BotOnly DEF ResolveReads

LEMMA IngestMessageStep == ASSUME IInv, NEW u \in User, IngestMessage(u) PROVE IInv'
<1>1. BotOK' BY DEF BotOK, IngestMessage
<1> QED BY <1>1, BotOnly DEF IngestMessage

LEMMA BotFailsStep == ASSUME IInv, BotFails PROVE IInv'
<1>1. BotOK' BY DEF BotOK, BotFails
<1> QED BY <1>1, BotOnly DEF BotFails

LEMMA ConflictStep == ASSUME IInv, NEW u \in User, Conflict(u) PROVE IInv'
<1>1. Keeps BY NothingForgotten DEF Conflict
<1>2. Numbered(customers')
    <2>1. customers' = [c \in DOMAIN customers |-> customers'[c]] BY DEF Conflict
    <2>2. Numbered(customers) BY DEF IInv, RowsOK
    <2> DEFINE f == customers'
    <2>3. f = [c \in DOMAIN customers |-> f[c]] BY <2>1
    <2> HIDE DEF f
    <2>4. Numbered(f) BY <2>2, <2>3, SameLength
    <2> QED BY <2>4 DEF f
<1>3. RowsOK' BY <1>2 DEF Conflict, IInv, RowsOK, Numbered
<1>4. LinksOK' BY SameLinks DEF Conflict, IInv
<1>5. SessionsOK' /\ MailOK' BY <1>1, SessionsKept, MailKept DEF Conflict, IInv
<1>6. BotOK' /\ OwnerOK' BY DEF Conflict, BotOK, OwnerOK, IInv
<1> QED BY <1>3, <1>4, <1>5, <1>6 DEF IInv

\* Endpoints that are added to a customer are his from then on, and no other changes hands.
LEMMA WithEndpointsKeeps ==
    ASSUME IInv, NEW u \in User, session[u].email \in Email, session[u].phone \in Phone, NEW c \in Nat \ {0},
           endpoint' = WithEndpoints(u, c)
    PROVE  /\ endpoint' \in [Endpoints -> Endpoint]
           /\ \A t \in Endpoints : endpoint'[t].status # "none" => endpoint'[t].owner # 0
           /\ \A t \in Endpoints : endpoint[t].status # "none" =>
                  endpoint'[t].status # "none" /\ endpoint'[t].owner = endpoint[t].owner
           /\ session' = session /\ (\A i \in 1 .. 3 : ~Refused(endpoint[Bundle(u)[i]], c)) => HeldAll(u, c)'
<1>1. endpoint \in [Endpoints -> Endpoint] /\ \A t \in Endpoints : endpoint[t].status # "none" => endpoint[t].owner # 0
    BY DEF IInv, RowsOK
<1>2. ASSUME NEW e \in Endpoint, NEW v \in BOOLEAN, ~Refused(e, c)
      PROVE  Added(e, c, v) \in Endpoint /\ Added(e, c, v).status # "none" /\ Added(e, c, v).owner = c
    <2>1. CASE e.status = "none" BY <2>1 DEF Added, Endpoint
    <2>2. CASE e.status # "none"
        <3>1. Added(e, c, v) = [e EXCEPT !.status = IF v THEN "verified" ELSE @] BY <2>2 DEF Added
        <3>2. e.owner = c BY <1>2, <2>2 DEF Refused
        <3> QED BY <2>2, <3>1, <3>2 DEF Endpoint
    <2> QED BY <2>1, <2>2
<1>3. ASSUME NEW t \in Endpoints
      PROVE  \/ endpoint'[t] = endpoint[t] /\ \A i \in Additions(u, c) : Bundle(u)[i] # t
             \/ /\ endpoint'[t] = Added(endpoint[t], c, t = u) /\ ~Refused(endpoint[t], c)
                /\ \E i \in Additions(u, c) : Bundle(u)[i] = t
    <2>1. CASE \E i \in Additions(u, c) : Bundle(u)[i] = t
        <3>1. PICK i \in Additions(u, c) : Bundle(u)[i] = t BY <2>1
        <3>2. ~Refused(endpoint[t], c) BY <3>1 DEF Additions
        <3> QED BY <2>1, <3>2 DEF WithEndpoints
    <2>2. CASE ~\E i \in Additions(u, c) : Bundle(u)[i] = t BY <2>2 DEF WithEndpoints
    <2> QED BY <2>1, <2>2
<1>4. ASSUME NEW t \in Endpoints
      PROVE  /\ endpoint'[t] \in Endpoint
             /\ endpoint'[t].status # "none" => endpoint'[t].owner # 0
             /\ endpoint[t].status # "none" => endpoint'[t].status # "none" /\ endpoint'[t].owner = endpoint[t].owner
    <2>1. CASE endpoint'[t] = endpoint[t] BY <2>1, <1>1
    <2>2. CASE endpoint'[t] # endpoint[t]
        <3>1. endpoint'[t] = Added(endpoint[t], c, t = u) /\ ~Refused(endpoint[t], c) BY <2>2, <1>3
        <3>2. endpoint[t] \in Endpoint BY <1>1
        <3>3. endpoint'[t] \in Endpoint /\ endpoint'[t].status # "none" /\ endpoint'[t].owner = c
            BY <3>1, <3>2, <1>2
        <3>4. endpoint[t].status # "none" => endpoint[t].owner = c BY <3>1 DEF Refused
        <3> QED BY <3>3, <3>4
    <2> QED BY <2>1, <2>2
<1>5. endpoint' \in [Endpoints -> Endpoint] BY <1>4 DEF WithEndpoints
<1>6. ASSUME \A i \in 1 .. 3 : ~Refused(endpoint[Bundle(u)[i]], c), session' = session
      PROVE  HeldAll(u, c)'
    <2>1. Additions(u, c) = 1 .. 3 BY <1>6 DEF Additions
    <2>2. ASSUME NEW i \in 1 .. 3 PROVE Held(Bundle(u)[i], c)'
        <3> DEFINE t == Bundle(u)[i]
        <3>1. t \in Endpoints BY BundleEndpoints
        <3>2. i \in Additions(u, c) BY <2>1
        <3> HIDE DEF t
        <3>3. endpoint'[t] = Added(endpoint[t], c, t = u) /\ ~Refused(endpoint[t], c)
            BY <3>1, <3>2, <1>3 DEF t
        <3>4. endpoint'[t].status # "none" /\ endpoint'[t].owner = c BY <3>1, <3>3, <1>1, <1>2
        <3>5. Bundle(u)' = Bundle(u) BY <1>6 DEF Bundle
        <3> QED BY <3>4, <3>5 DEF Held, t
    <2>3. Bundle(u)[1] = u /\ Bundle(u)[2] = session[u].email /\ Bundle(u)[3] = session[u].phone BY DEF Bundle
    <2>4. 1 \in 1 .. 3 /\ 2 \in 1 .. 3 /\ 3 \in 1 .. 3 OBVIOUS
    <2>5. endpoint'[u].status # "none" /\ endpoint'[u].owner = c BY <2>2, <2>3, <2>4, <1>6 DEF Held, Bundle
    <2>6. endpoint'[session[u].email].status # "none" /\ endpoint'[session[u].email].owner = c
        BY <2>2, <2>3, <2>4, <1>6 DEF Held, Bundle
    <2>7. endpoint'[session[u].phone].status # "none" /\ endpoint'[session[u].phone].owner = c
        BY <2>2, <2>3, <2>4, <1>6 DEF Held, Bundle
    <2> QED BY <2>5, <2>6, <2>7, <1>6 DEF HeldAll, Held
<1> QED BY <1>4, <1>5, <1>6

\* The customer the bot resolves a profile to.
LEMMA TargetNumber ==
    ASSUME IInv, bot.at = "resolving"
    PROVE  Target \in Nat \ {0}
<1>1. Len(customers) \in Nat BY NextNumber DEF IInv, RowsOK
<1>2. bot.customer \in Nat BY DEF IInv, BotOK, Idle
<1> QED BY <1>1, <1>2 DEF Target

LEMMA ResolveRefusedStep == ASSUME IInv, NEW u \in User, ResolveRefused(u) PROVE IInv'
<1>1. session[u].status = "reconciling" BY DEF ResolveRefused, IInv, BotOK, Idle
<1>2. session[u].email \in Email /\ session[u].phone \in Phone BY <1>1 DEF IInv, SessionsOK, SessionOK
<1>3. PICK t \in Nat \ {0} : t = Target BY TargetNumber DEF ResolveRefused
<1>4. endpoint' = WithEndpoints(u, t) BY <1>3 DEF ResolveRefused
<1>5. /\ endpoint' \in [Endpoints -> Endpoint]
      /\ \A e \in Endpoints : endpoint'[e].status # "none" => endpoint'[e].owner # 0
      /\ Keeps
    BY <1>2, <1>4, WithEndpointsKeeps DEF Keeps, ResolveRefused
<1>6. Numbered(customers')
    <2>1. PICK S : customers \in Seq(S) BY DEF IInv, RowsOK, Numbered
    <2> DEFINE row == NewCustomer(session[u].name, "provisional", <<"telegram", session[u].email>>)
    <2> HIDE DEF row
    <2>2. customers' = Append(customers, row) \/ customers' = customers BY DEF ResolveRefused, row
    <2>3. customers' \in Seq(S \union {row}) BY <2>1, <2>2
    <2> QED BY <2>3 DEF Numbered
<1>7. RowsOK' BY <1>5, <1>6 DEF RowsOK, ResolveRefused, IInv, Numbered
<1>8. LinksOK' BY <1>5, LinksKept DEF IInv, ResolveRefused
<1>9. SessionsOK' /\ MailOK' BY <1>5, SessionsKept, MailKept DEF IInv, ResolveRefused
<1>10. BotOK' /\ OwnerOK' BY DEF ResolveRefused, BotOK, OwnerOK, IInv
<1> QED BY <1>7, <1>8, <1>9, <1>10 DEF IInv

LEMMA ResolveStep == ASSUME IInv, NEW u \in User, Resolve(u) PROVE IInv'
<1>1. session[u].status = "reconciling" /\ session' = session /\ bot.claims \in Claims
      /\ \A k \in Endpoints \X Name : bot.claims[k] # "none" => claim[k] # "none"
    BY DEF Resolve, IInv, BotOK, Idle
<1>2. session[u].name \in Name /\ session[u].email \in Email /\ session[u].phone \in Phone
    BY <1>1 DEF IInv, SessionsOK, SessionOK
<1>3. PICK t \in Nat \ {0} : t = Target BY TargetNumber DEF Resolve
<1> DEFINE k0 == <<u, session[u].name>>
           seen == IF bot.customer = 0
                   THEN NewCustomer(session[u].name, "provisional", <<"telegram", session[u].email>>)
                   ELSE bot.row
           status == OnboardingName(seen, session[u].name, bot.claims[k0]).status
           new == [bot.claims EXCEPT ![k0] = status]
<1>4. k0 \in Endpoints \X Name BY <1>2 DEF Endpoints
<1>5. status \in ClaimStatus \ {"none"} BY <1>1, <1>4 DEF OnboardingName, Decided, ClaimStatus, Claims
<1>6. /\ t \in Nat \ {0} /\ endpoint' = WithEndpoints(u, t)
      /\ \A i \in 1 .. 3 : ~Refused(endpoint[Bundle(u)[i]], t)
      /\ claim' = Written(claim, bot.claims, new)
      /\ links' = links \union {<<u, t>>}
      /\ bot' = [at |-> "resolved", user |-> u, customer |-> t]
    BY <1>3 DEF Resolve
<1> DEFINE now == IF bot.customer = 0
                  THEN NewCustomer(session[u].name, "provisional", <<"telegram", session[u].email>>)
                  ELSE customers[t]
           row == Written(now, seen, OnboardingName(seen, session[u].name, bot.claims[k0]).row)
<1>7. customers' = WithCustomer(t, row) BY <1>3 DEF Resolve
<1> HIDE DEF status, k0, row
<1>8. new \in Claims /\ (\A k \in Endpoints \X Name : new[k] = bot.claims[k] \/ new[k] # "none") /\ new[k0] # "none"
    BY <1>1, <1>4, <1>5 DEF Claims
<1> HIDE DEF new
<1>9. /\ claim' \in Claims
      /\ \A k \in Endpoints \X Name : claim[k] # "none" => claim'[k] # "none"
      /\ new[k0] # "none" /\ bot.claims[k0] = "none" => claim'[k0] # "none"
    <2>1. claim \in Claims BY DEF IInv, RowsOK
    <2> QED BY <2>1, <1>1, <1>4, <1>6, <1>8, WrittenClaims
<1>10. claim'[k0] # "none" BY <1>1, <1>4, <1>8, <1>9
<1>11. /\ endpoint' \in [Endpoints -> Endpoint]
       /\ \A e \in Endpoints : endpoint'[e].status # "none" => endpoint'[e].owner # 0
       /\ HeldAll(u, t)'
       /\ Keeps
    BY <1>1, <1>2, <1>6, <1>9, WithEndpointsKeeps DEF Keeps
<1>12. Numbered(customers')
    <2>1. Numbered(WithCustomer(t, row)) BY WithCustomerNumbered DEF IInv, RowsOK
    <2> QED BY <2>1, <1>7
<1>13. RowsOK' BY <1>9, <1>11, <1>12 DEF RowsOK, Numbered
<1>14. LinksOK'
    <2>1. Held(u, t)' /\ u \in Endpoints BY <1>11 DEF HeldAll, Endpoints
    <2>2. \A l \in links' : l \in links \/ (l \in Endpoints \X Nat /\ Held(l[1], l[2])')
        BY <1>6, <2>1 DEF Held
    <2> QED BY <1>11, <2>2, LinksKept DEF IInv
<1>15. SessionsOK' /\ MailOK' BY <1>1, <1>11, SessionsKept, MailKept DEF IInv, Resolve
<1>16. BotOK' BY <1>1, <1>6, <1>10, <1>11 DEF BotOK, k0, HeldAll, Held
<1>17. OwnerOK' BY DEF OwnerOK, IInv, Resolve
<1> QED BY <1>13, <1>14, <1>15, <1>16, <1>17 DEF IInv

-----------------------------------------------------------------------------
(* The email worker *)

LEMMA RouteReadsStep ==
    ASSUME IInv, NEW e \in Email, NEW name \in Name \union {None}, RouteReads(e, name)
    PROVE  IInv'
<1>1. Keeps BY NothingForgotten DEF RouteReads
<1>2. RowsOK' /\ LinksOK' BY RowsKept, SameLinks DEF IInv, RouteReads
<1>3. SessionsOK' BY <1>1, SessionsKept DEF IInv, RouteReads
<1>4. BotOK' BY <1>1, BotKept DEF IInv, RouteReads
<1>5. OwnerOK' BY DEF IInv, OwnerOK, RouteReads
<1>6. MailOK'
    <2>1. e \in Endpoints BY DEF Endpoints
    <2>2. endpoint[e] \in Endpoint /\ claim \in Claims BY <2>1 DEF IInv, RowsOK
    <2>3. CASE mail' = [at |-> "routing", email |-> e, name |-> name, customer |-> 0]
        BY <2>3 DEF MailOK
    <2>4. CASE /\ endpoint[e].status \in {"observed", "verified"}
               /\ mail' = [at |-> "routing", email |-> e, name |-> name, customer |-> endpoint[e].owner,
                           row |-> customers[endpoint[e].owner], claims |-> claim]
        <3>1. Held(e, endpoint[e].owner)' BY <2>4 DEF Held, RouteReads
        <3> QED BY <2>2, <2>4, <3>1 DEF MailOK, Endpoint, RouteReads, Held
    <2> QED BY <2>3, <2>4 DEF RouteReads
<1> QED BY <1>2, <1>3, <1>4, <1>5, <1>6 DEF IInv

LEMMA MailFailsStep == ASSUME IInv, MailFails PROVE IInv'
<1>1. Keeps BY NothingForgotten DEF MailFails
<1>2. RowsOK' /\ LinksOK' BY RowsKept, SameLinks DEF IInv, MailFails
<1>3. SessionsOK' BY <1>1, SessionsKept DEF IInv, MailFails
<1>4. BotOK' BY <1>1, BotKept DEF IInv, MailFails
<1>5. OwnerOK' /\ MailOK' BY DEF IInv, OwnerOK, MailOK, MailFails
<1> QED BY <1>2, <1>3, <1>4, <1>5 DEF IInv

\* The claims as the routing of a message leaves them.
LEMMA SenderClaimsKept ==
    ASSUME NEW c, NEW row, NEW seen \in Claims, NEW e \in Endpoints, NEW name \in Name \union {None}, NEW own
    PROVE  /\ SenderClaims(c, row, seen, e, name, own).claims \in Claims
           /\ \A k \in Endpoints \X Name :
                  LET new == SenderClaims(c, row, seen, e, name, own).claims
                  IN  new[k] = seen[k] \/ new[k] # "none"
<1>1. CASE name = None BY <1>1 DEF SenderClaims
<1>2. CASE name # None
    <2> DEFINE status == IF seen[<<e, name>>] \in Decided THEN seen[<<e, name>>]
                         ELSE IF name # [row EXCEPT !.primary = IF @ = None THEN name ELSE @].primary
                              THEN "conflicting" ELSE "observed"
               new == [seen EXCEPT ![<<e, name>>] = status]
    <2>1. SenderClaims(c, row, seen, e, name, own).claims = new BY <1>2 DEF SenderClaims
    <2>2. status \in ClaimStatus \ {"none"} BY DEF Decided, ClaimStatus
    <2> HIDE DEF status
    <2>3. new \in Claims /\ \A k \in Endpoints \X Name : new[k] = seen[k] \/ new[k] # "none"
        BY <2>2 DEF Claims
    <2> QED BY <2>1, <2>3
<1> QED BY <1>1, <1>2

\* A step of the email worker or the owner, which link at most what is held.
LEMMA OtherStep ==
    ASSUME IInv, Keeps, RowsOK', UNCHANGED <<session, bot>>, MailOK', OwnerOK',
           \A l \in links' : l \in links \/ (l \in Endpoints \X Nat /\ Held(l[1], l[2])')
    PROVE  IInv'
<1>1. LinksOK' BY LinksKept DEF IInv
<1>2. SessionsOK' BY SessionsKept DEF IInv
<1>3. BotOK' BY BotKept DEF IInv
<1> QED BY <1>1, <1>2, <1>3 DEF IInv

LEMMA RouteNewStep == ASSUME IInv, RouteNew PROVE IInv'
<1>0. PICK e \in Email : e = mail.email BY DEF RouteNew, IInv, MailOK, Idle
<1>1. /\ e \in Endpoints /\ mail.name \in Name \union {None}
      /\ Numbered(customers) /\ endpoint \in [Endpoints -> Endpoint] /\ claim \in Claims
      /\ \A t \in Endpoints : endpoint[t].status # "none" => endpoint[t].owner # 0
    BY DEF RouteNew, IInv, MailOK, RowsOK, Idle, Endpoints
<1>2. MailOK' /\ OwnerOK' BY DEF RouteNew, IInv, MailOK, OwnerOK
<1>3. CASE endpoint[e].status = "revoked"
    <2>1. UNCHANGED <<customers, endpoint, claim, links>> BY <1>0, <1>3 DEF RouteNew
    <2>2. Keeps /\ RowsOK' BY <2>1, NothingForgotten, RowsKept DEF IInv
    <2> QED BY <1>2, <2>1, <2>2, OtherStep DEF RouteNew
<1>4. CASE endpoint[e].status # "revoked"
    <2>1. PICK c \in Nat \ {0} : c = RouteTarget
        BY <1>0, <1>1, NextNumber DEF RouteTarget, Endpoint
    <2> DEFINE row == IF c \in DOMAIN customers THEN customers[c] ELSE NewCustomer(None, "provisional", <<"email", e>>)
               told == SenderClaims(c, row, claim, e, mail.name, Owned(c))
    <2>2. /\ customers' = WithCustomer(c, told.row)
          /\ endpoint' = [endpoint EXCEPT ![e] =
                  IF @.status = "none" THEN [owner |-> c, status |-> "observed", origin |-> "inbound_email"] ELSE @]
          /\ claim' = told.claims
          /\ links' = links \union {<<e, c>>}
        BY <1>0, <1>4, <2>1 DEF RouteNew
    <2> HIDE DEF row
    <2>3. told.claims \in Claims /\ \A k \in Endpoints \X Name : told.claims[k] = claim[k] \/ told.claims[k] # "none"
        <3>1. /\ told.claims \in Claims
              /\ \A k \in Endpoints \X Name :
                     LET new == told.claims IN new[k] = claim[k] \/ new[k] # "none"
            BY <1>1, SenderClaimsKept
        <3> QED BY <3>1
    <2> HIDE DEF told
    <2>4. Numbered(customers') BY <1>1, <2>2, WithCustomerNumbered
    <2>5. endpoint' \in [Endpoints -> Endpoint] BY <1>1, <2>1, <2>2 DEF Endpoint
    <2>6. endpoint[e].status # "none" => endpoint[e].owner = c BY <1>0, <2>1 DEF RouteTarget
    <2>7. Held(e, c)' BY <1>1, <2>2, <2>6 DEF Held
    <2>8. ASSUME NEW t \in Endpoints
          PROVE  /\ endpoint'[t].status # "none" => endpoint'[t].owner # 0
                 /\ endpoint[t].status # "none" => endpoint'[t].status # "none" /\ endpoint'[t].owner = endpoint[t].owner
        BY <1>1, <2>1, <2>2, <2>6
    <2>9. Keeps BY <2>2, <2>3, <2>8 DEF Keeps
    <2>10. RowsOK' BY <2>2, <2>3, <2>4, <2>5, <2>8 DEF RowsOK, Numbered
    <2>11. \A l \in links' : l \in links \/ (l \in Endpoints \X Nat /\ Held(l[1], l[2])')
        BY <1>1, <2>2, <2>7 DEF Held
    <2> QED BY <1>2, <2>9, <2>10, <2>11, OtherStep DEF RouteNew
<1> QED BY <1>3, <1>4

LEMMA RouteKnownStep == ASSUME IInv, RouteKnown PROVE IInv'
<1>1. PICK e \in Email, c \in Nat \ {0} : /\ e = mail.email /\ c = mail.customer /\ Held(e, c)
                                          /\ mail.claims \in Claims /\ mail.name \in Name \union {None}
    BY DEF RouteKnown, IInv, MailOK, Idle
<1> DEFINE told == SenderClaims(c, mail.row, mail.claims, e, mail.name, Owned(c))
           row == Written(customers[c], mail.row, told.row)
<1>2. /\ customers' = [customers EXCEPT ![c] = row]
      /\ claim' = Written(claim, mail.claims, told.claims)
      /\ links' = links \union {<<e, c>>}
    BY <1>1 DEF RouteKnown
<1>3. e \in Endpoints BY DEF Endpoints
<1>4. told.claims \in Claims /\ \A k \in Endpoints \X Name : told.claims[k] = mail.claims[k] \/ told.claims[k] # "none"
    BY <1>1, <1>3, SenderClaimsKept
<1> HIDE DEF told, row
<1>5. claim' \in Claims /\ \A k \in Endpoints \X Name : claim[k] # "none" => claim'[k] # "none"
    <2>1. claim \in Claims BY DEF IInv, RowsOK
    <2> DEFINE new == told.claims
    <2>2. new \in Claims /\ \A k \in Endpoints \X Name : new[k] = mail.claims[k] \/ new[k] # "none" BY <1>4
    <2>3. claim' = Written(claim, mail.claims, new) BY <1>2
    <2> HIDE DEF new
    <2> QED BY <1>1, <2>1, <2>2, <2>3, WrittenClaims
<1>6. Keeps BY <1>5 DEF Keeps, RouteKnown
<1>7. Numbered(customers') BY <1>2, ReplacedNumbered DEF IInv, RowsOK
<1>8. RowsOK' BY <1>5, <1>7 DEF IInv, RowsOK, RouteKnown, Numbered
<1>9. MailOK' /\ OwnerOK' BY DEF RouteKnown, IInv, MailOK, OwnerOK
<1>10. \A l \in links' : l \in links \/ (l \in Endpoints \X Nat /\ Held(l[1], l[2])')
    <2>1. Held(e, c)' BY <1>1, <1>3, <1>6, HeldKept
    <2> QED BY <1>2, <1>3, <2>1 DEF Held
<1> QED BY <1>6, <1>8, <1>9, <1>10, OtherStep DEF RouteKnown

-----------------------------------------------------------------------------
(* The owner and the managers *)

LEMMA DecideReadsStep ==
    ASSUME IInv, NEW k \in DOMAIN claim, NEW decision, DecideReads(k, decision)
    PROVE  IInv'
<1>1. Keeps BY NothingForgotten DEF DecideReads
<1>2. RowsOK' BY RowsKept DEF IInv, DecideReads
<1>3. MailOK' BY DEF IInv, MailOK, DecideReads, Held
<1>4. OwnerOK' BY DEF IInv, RowsOK, OwnerOK, DecideReads
<1>5. \A l \in links' : l \in links BY DEF DecideReads
<1> QED BY <1>1, <1>2, <1>3, <1>4, <1>5, OtherStep DEF DecideReads

LEMMA DecideStep == ASSUME IInv, Decide PROVE IInv'
<1> DEFINE c == owner.customer
           told == DecidedClaims(owner.claim, owner.decision, owner.claims, Owned(c))
           named == [owner.row EXCEPT !.primary = IF owner.decision = "accept_primary" THEN owner.claim[2] ELSE @]
           row == Written(customers[c], owner.row, Reconciled(named, told, Owned(c)))
<1>1. owner.claims \in Claims BY DEF Decide, IInv, OwnerOK, Idle
<1>2. customers' = [customers EXCEPT ![c] = row] /\ claim' = Written(claim, owner.claims, told) BY DEF Decide
<1>3. told \in Claims /\ \A k \in Endpoints \X Name : told[k] = owner.claims[k] \/ told[k] # "none"
    BY <1>1 DEF DecidedClaims, Claims, ClaimStatus
<1> HIDE DEF told, row, c
<1>4. claim \in Claims BY DEF IInv, RowsOK
<1>5. claim' \in Claims /\ \A k \in Endpoints \X Name : claim[k] # "none" => claim'[k] # "none"
    BY <1>1, <1>2, <1>3, <1>4, WrittenClaims
<1>6. Keeps BY <1>5 DEF Keeps, Decide
<1>7. Numbered(customers') BY <1>2, ReplacedNumbered DEF IInv, RowsOK
<1>8. RowsOK' BY <1>5, <1>7 DEF IInv, RowsOK, Decide, Numbered
<1>9. MailOK' /\ OwnerOK' BY <1>6, MailKept DEF Decide, IInv, OwnerOK
<1>10. \A l \in links' : l \in links BY DEF Decide
<1> QED BY <1>6, <1>8, <1>9, <1>10, OtherStep DEF Decide

\* One endpoint is written: an unknown one gets its first customer, a known one keeps its own.
LEMMA EndpointStep ==
    ASSUME IInv, NEW t \in Endpoints, NEW e \in Endpoint, endpoint' = [endpoint EXCEPT ![t] = e],
           e.owner # 0, e.status # "none", endpoint[t].status # "none" => e.owner = endpoint[t].owner,
           Numbered(customers'), UNCHANGED <<claim, links, session, bot, mail, owner>>
    PROVE  IInv'
<1>1. endpoint \in [Endpoints -> Endpoint] BY DEF IInv, RowsOK
<1>2. Keeps BY <1>1 DEF Keeps
<1>3. RowsOK' BY <1>1 DEF IInv, RowsOK, Numbered
<1>4. MailOK' /\ OwnerOK' BY <1>2, MailKept DEF IInv, OwnerOK
<1> QED BY <1>2, <1>3, <1>4, OtherStep

LEMMA RegisterStep ==
    ASSUME IInv, NEW c \in DOMAIN customers, NEW e \in Email, Register(c, e)
    PROVE  IInv'
<1>1. e \in Endpoints /\ endpoint[e] \in Endpoint /\ (endpoint[e].status # "none" => endpoint[e].owner # 0)
    BY DEF Endpoints, IInv, RowsOK
<1>2. c \in Nat \ {0}
    <2>1. PICK S : customers \in Seq(S) BY DEF IInv, RowsOK, Numbered
    <2>2. DOMAIN customers = 1 .. Len(customers) BY <2>1
    <2> QED BY <2>1, <2>2
<1>3. Numbered(customers') BY DEF Register, IInv, RowsOK, Numbered
<1>4. CASE /\ endpoint[e].status = "none"
           /\ endpoint' = [endpoint EXCEPT ![e] = [owner |-> c, status |-> "observed", origin |-> "manual"]]
    <2> DEFINE r == [owner |-> c, status |-> "observed", origin |-> "manual"]
    <2>1. r \in Endpoint /\ r.owner # 0 /\ r.status # "none" BY <1>2 DEF Endpoint
    <2> HIDE DEF r
    <2>2. endpoint' = [endpoint EXCEPT ![e] = r] BY <1>4 DEF r
    <2> QED BY <1>1, <1>3, <1>4, <2>1, <2>2, EndpointStep DEF Register
<1>5. CASE /\ endpoint[e].status = "revoked"
           /\ endpoint' = [endpoint EXCEPT ![e].status = "observed"]
    <2> DEFINE r == [endpoint[e] EXCEPT !.status = "observed"]
    <2>1. r \in Endpoint /\ r.owner = endpoint[e].owner /\ r.status # "none" BY <1>1 DEF Endpoint
    <2>2. endpoint' = [endpoint EXCEPT ![e] = r] BY <1>5
    <2> HIDE DEF r
    <2> QED BY <1>1, <1>3, <1>5, <2>1, <2>2, EndpointStep DEF Register
<1> QED BY <1>4, <1>5 DEF Register

LEMMA VerifyStep == ASSUME IInv, NEW t \in Endpoints, Verify(t) PROVE IInv'
<1> DEFINE r == [endpoint[t] EXCEPT !.status = "verified"]
           c == endpoint[t].owner
           row == [customers[c] EXCEPT !.profile = IF customers[c].review = "clear" THEN "confirmed" ELSE @]
<1>1. endpoint[t] \in Endpoint /\ endpoint[t].status # "none" /\ endpoint[t].owner # 0 BY DEF Verify, IInv, RowsOK
<1>2. r \in Endpoint /\ r.owner = endpoint[t].owner /\ r.status # "none" BY <1>1 DEF Endpoint
<1>3. endpoint' = [endpoint EXCEPT ![t] = r] BY DEF Verify
<1>4. customers' = [customers EXCEPT ![c] = row] BY DEF Verify
<1> HIDE DEF r, c, row
<1>5. Numbered(customers') BY <1>4, ReplacedNumbered DEF IInv, RowsOK
<1> QED BY <1>1, <1>2, <1>3, <1>5, EndpointStep DEF Verify

LEMMA RevokeStep == ASSUME IInv, NEW t \in Endpoints, Revoke(t) PROVE IInv'
<1> DEFINE r == [endpoint[t] EXCEPT !.status = "revoked"]
<1>1. endpoint[t] \in Endpoint /\ endpoint[t].status # "none" /\ endpoint[t].owner # 0 BY DEF Revoke, IInv, RowsOK
<1>2. r \in Endpoint /\ r.owner = endpoint[t].owner /\ r.status # "none" BY <1>1 DEF Endpoint
<1>3. endpoint' = [endpoint EXCEPT ![t] = r] BY DEF Revoke
<1> HIDE DEF r
<1>4. Numbered(customers') BY DEF Revoke, IInv, RowsOK, Numbered
<1> QED BY <1>1, <1>2, <1>3, <1>4, EndpointStep DEF Revoke

LEMMA ApproveStep == ASSUME IInv, NEW c \in DOMAIN customers, Approve(c) PROVE IInv'
<1> DEFINE row == Reconciled(customers[c], claim, Owned(c))
<1>1. customers' = [customers EXCEPT ![c] = row] BY DEF Approve
<1> HIDE DEF row
<1>2. Numbered(customers') BY <1>1, ReplacedNumbered DEF IInv, RowsOK
<1>3. Keeps BY NothingForgotten DEF Approve
<1>4. RowsOK' BY <1>2 DEF IInv, RowsOK, Approve, Numbered
<1>5. MailOK' /\ OwnerOK' BY <1>3, MailKept DEF IInv, OwnerOK, Approve
<1>6. \A l \in links' : l \in links BY DEF Approve
<1> QED BY <1>3, <1>4, <1>5, <1>6, OtherStep DEF Approve

-----------------------------------------------------------------------------

LEMMA StutterStep == ASSUME IInv, UNCHANGED vars PROVE IInv'
<1>1. Keeps /\ RowsOK' BY NothingForgotten, RowsKept DEF vars, IInv
<1>2. MailOK' /\ OwnerOK' BY <1>1, MailKept DEF IInv, OwnerOK, vars
<1> QED BY <1>1, <1>2, OtherStep DEF vars

LEMMA OnboardStep == ASSUME IInv, NEW u \in User, Onboard(u) PROVE IInv'
BY StartStep, CancelStep, SubmitNameStep, SubmitGmailStep, SubmitPhoneStep, ConflictStep, ResolveReadsStep,
   ResolveRefusedStep, ResolveStep, CompleteStep, IngestMessageStep, LinkMessageStep DEF Onboard

LEMMA ManageStep == ASSUME IInv, Manage PROVE IInv'
<1>1. CASE \E k \in DOMAIN claim, decision \in {"accept_primary", "accept_alias", "reject"} : DecideReads(k, decision)
    BY <1>1, DecideReadsStep
<1>2. CASE Decide BY <1>2, DecideStep
<1>3. CASE \E c \in DOMAIN customers, e \in Email : Register(c, e) BY <1>3, RegisterStep
<1>4. CASE \E t \in Endpoints : Verify(t) \/ Revoke(t) BY <1>4, VerifyStep, RevokeStep
<1> QED BY <1>1, <1>2, <1>3, <1>4 DEF Manage

LEMMA NextIInv == IInv /\ [Next]_vars => IInv'
<1> SUFFICES ASSUME IInv, [Next]_vars PROVE IInv' OBVIOUS
<1>1. CASE \E u \in User : Onboard(u) BY <1>1, OnboardStep
<1>2. CASE BotFails BY <1>2, BotFailsStep
<1>3. CASE \E e \in Email, name \in Name \union {None} : RouteReads(e, name) BY <1>3, RouteReadsStep
<1>4. CASE RouteNew BY <1>4, RouteNewStep
<1>5. CASE RouteKnown BY <1>5, RouteKnownStep
<1>6. CASE MailFails BY <1>6, MailFailsStep
<1>7. CASE Manage BY <1>7, ManageStep
<1>8. CASE \E c \in DOMAIN customers : Approve(c) BY <1>8, ApproveStep
<1>9. CASE UNCHANGED vars BY <1>9, StutterStep
<1> QED BY <1>1, <1>2, <1>3, <1>4, <1>5, <1>6, <1>7, <1>8, <1>9 DEF Next

LEMMA SpecIInv == Spec => []IInv
BY InitIInv, NextIInv, PTL DEF Spec

\* A record is linked to the customer who owns the endpoint it came from
\* (ingest_customer_message, resolve_customer_endpoint, route_email_sender).
THEOREM SpecLinksFollowEndpoints == Spec => []LinksFollowEndpoints
<1>1. IInv => LinksFollowEndpoints BY DEF IInv, LinksOK, Held, LinksFollowEndpoints
<1> QED BY <1>1, SpecIInv, PTL

\* A session that waits for messages has the whole profile behind it
\* (submit_phone, begin_onboarding).
THEOREM SpecProfileComplete == Spec => []ProfileComplete
<1>1. ASSUME IInv PROVE ProfileComplete
    <2> SUFFICES ASSUME NEW u \in User, session[u].status \in {"awaiting_message", "completed"}
                 PROVE  /\ session[u].customer # 0
                        /\ \A i \in 1 .. 3 : endpoint[Bundle(u)[i]].owner = session[u].customer
                        /\ claim[<<u, session[u].name>>] # "none"
        BY DEF ProfileComplete
    <2> DEFINE s == session[u]
    <2>1. /\ s.customer # 0 /\ Held(u, s.customer) /\ Held(s.email, s.customer) /\ Held(s.phone, s.customer)
          /\ claim[<<u, s.name>>] # "none"
        BY <1>1 DEF IInv, SessionsOK, SessionOK
    <2>2. Bundle(u)[1] = u /\ Bundle(u)[2] = s.email /\ Bundle(u)[3] = s.phone BY DEF Bundle
    <2>3. \A i \in 1 .. 3 : i = 1 \/ i = 2 \/ i = 3 OBVIOUS
    <2> QED BY <2>1, <2>2, <2>3 DEF Held
<1>2. IInv => ProfileComplete BY <1>1
<1> QED BY <1>2, SpecIInv, PTL

-----------------------------------------------------------------------------
(* What the owner decided *)

\* What the actors read of the claims is not behind what was there before
\* them: a claim that the bot or the email worker found missing is missing as
\* long as they work, for it is theirs alone to make, and one that the owner
\* found is still there.
BotReads ==
    bot.at = "resolving" =>
        \A n \in Name : bot.claims[<<bot.user, n>>] = "none" => claim[<<bot.user, n>>] = "none"

MailReads ==
    mail.at = "routing" /\ mail.customer # 0 =>
        \A n \in Name : mail.claims[<<mail.email, n>>] = "none" => claim[<<mail.email, n>>] = "none"

OwnerReads ==
    owner.at = "deciding" =>
        /\ owner.claims[owner.claim] # "none"
        /\ \A k \in Endpoints \X Name : owner.claims[k] # "none" => claim[k] # "none"

ReadsOK == BotReads /\ MailReads /\ OwnerReads

\* The claims that a step may write: those of S, none of which it takes away.
Writes(S) ==
    /\ claim' \in Claims
    /\ \A k \in Endpoints \X Name : claim'[k] = claim[k] \/ (k \in S /\ claim'[k] # "none")

LEMMA SameClaims ==
    ASSUME IInv, UNCHANGED claim
    PROVE  Writes({})
BY DEF IInv, RowsOK, Writes

\* What a transaction writes over one claim that it read.
LEMMA WrittenOne ==
    ASSUME NEW now \in Claims, NEW seen \in Claims, NEW k0 \in Endpoints \X Name, NEW s \in ClaimStatus \ {"none"},
           claim = now, claim' = Written(now, seen, [seen EXCEPT ![k0] = s])
    PROVE  /\ Writes({k0})
           /\ s = seen[k0] => claim' = claim
BY DEF Written, Writes, Claims

\* The bot writes the claim of the user, unless it found it decided.
LEMMA ResolveWrites ==
    ASSUME IInv, NEW u \in User, Resolve(u)
    PROVE  \E n \in Name : Writes({<<u, n>>}) /\ (bot.claims[<<u, n>>] \in Decided => claim' = claim)
<1> DEFINE n == session[u].name
           k0 == <<u, n>>
           seen == IF bot.customer = 0
                   THEN NewCustomer(n, "provisional", <<"telegram", session[u].email>>) ELSE bot.row
           s == OnboardingName(seen, n, bot.claims[k0]).status
<1>1. bot.at = "resolving" /\ bot.user = u BY DEF Resolve
<1>2. bot # Idle BY <1>1 DEF Idle
<1>3. bot.claims \in Claims /\ session[u].status = "reconciling" BY <1>1, <1>2 DEF IInv, BotOK
<1>4. n \in Name BY <1>3 DEF IInv, SessionsOK, SessionOK
<1>5. k0 \in Endpoints \X Name BY <1>4 DEF Endpoints
<1>6. claim' = Written(claim, bot.claims, [bot.claims EXCEPT ![k0] = s]) BY DEF Resolve
<1>7. s \in ClaimStatus \ {"none"} /\ (bot.claims[k0] \in Decided => s = bot.claims[k0])
    BY DEF OnboardingName, Decided, ClaimStatus
<1> HIDE DEF s, k0
<1>8. claim \in Claims BY DEF IInv, RowsOK
<1>9. Writes({k0}) /\ (s = bot.claims[k0] => claim' = claim) BY <1>3, <1>5, <1>6, <1>7, <1>8, WrittenOne
<1> QED BY <1>4, <1>7, <1>9 DEF k0

\* The claims as _record_claims leaves them: one is written, if any.
LEMMA SenderWrites ==
    ASSUME NEW c, NEW row, NEW seen \in Claims, NEW e \in Endpoints, NEW name \in Name \union {None}, NEW own,
           NEW new, new = SenderClaims(c, row, seen, e, name, own).claims
    PROVE  \/ new = seen
           \/ /\ name \in Name
              /\ \E s \in ClaimStatus \ {"none"} :
                     /\ new = [seen EXCEPT ![<<e, name>>] = s]
                     /\ seen[<<e, name>>] \in Decided => s = seen[<<e, name>>]
<1>1. CASE name = None BY <1>1 DEF SenderClaims
<1>2. CASE name # None
    <2> DEFINE s == IF seen[<<e, name>>] \in Decided THEN seen[<<e, name>>]
                    ELSE IF name # [row EXCEPT !.primary = IF @ = None THEN name ELSE @].primary
                         THEN "conflicting" ELSE "observed"
    <2>1. new = [seen EXCEPT ![<<e, name>>] = s] BY <1>2 DEF SenderClaims
    <2>2. s \in ClaimStatus \ {"none"} /\ (seen[<<e, name>>] \in Decided => s = seen[<<e, name>>])
        BY DEF Decided, ClaimStatus
    <2>3. name \in Name BY <1>2
    <2> HIDE DEF s
    <2> QED BY <2>1, <2>2, <2>3
<1> QED BY <1>1, <1>2

\* A message of an unknown sender is routed on the claims as they are.
LEMMA RouteNewWrites ==
    ASSUME IInv, RouteNew
    PROVE  \/ Writes({})
           \/ \E n \in Name : Writes({<<mail.email, n>>}) /\ (claim[<<mail.email, n>>] \in Decided => claim' = claim)
<1> DEFINE e == mail.email
           c == RouteTarget
           row == IF c \in DOMAIN customers THEN customers[c] ELSE NewCustomer(None, "provisional", <<"email", e>>)
           own == Owned(c)
           new == SenderClaims(c, row, claim, e, mail.name, own).claims
<1>1. mail # Idle BY DEF RouteNew, Idle
<1>2. e \in Endpoints /\ mail.name \in Name \union {None} BY <1>1 DEF IInv, MailOK, Endpoints
<1>3. claim \in Claims BY DEF IInv, RowsOK
<1>4. claim' = claim \/ claim' = new BY DEF RouteNew
<1> HIDE DEF new, c, row, own
<1>5. \/ new = claim
      \/ /\ mail.name \in Name
         /\ \E s \in ClaimStatus \ {"none"} :
                /\ new = [claim EXCEPT ![<<e, mail.name>>] = s]
                /\ claim[<<e, mail.name>>] \in Decided => s = claim[<<e, mail.name>>]
    BY <1>2, <1>3, SenderWrites DEF new
<1>6. CASE claim' = claim BY <1>6, SameClaims
<1>7. CASE claim' = new /\ new # claim
    <2>1. PICK s \in ClaimStatus \ {"none"} :
              /\ mail.name \in Name
              /\ new = [claim EXCEPT ![<<e, mail.name>>] = s]
              /\ claim[<<e, mail.name>>] \in Decided => s = claim[<<e, mail.name>>]
        BY <1>5, <1>7
    <2>2. claim' = [claim EXCEPT ![<<e, mail.name>>] = s] BY <1>7, <2>1
    <2>3. <<e, mail.name>> \in Endpoints \X Name BY <1>2, <2>1
    <2> DEFINE k0 == <<e, mail.name>>
    <2> HIDE DEF k0
    <2>4. k0 \in Endpoints \X Name /\ claim' = [claim EXCEPT ![k0] = s] /\ (claim[k0] \in Decided => s = claim[k0])
        BY <2>1, <2>2, <2>3 DEF k0
    <2>5. Writes({k0}) /\ (claim[k0] \in Decided => claim' = claim) BY <1>3, <2>4 DEF Writes, Claims
    <2> QED BY <2>1, <2>5 DEF k0
<1> QED BY <1>4, <1>6, <1>7

\* A message of a known one on the claims as they were read.
LEMMA RouteKnownWrites ==
    ASSUME IInv, RouteKnown
    PROVE  \/ Writes({})
           \/ \E n \in Name : Writes({<<mail.email, n>>}) /\ (mail.claims[<<mail.email, n>>] \in Decided => claim' = claim)
<1> DEFINE e == mail.email
           c == mail.customer
           seen == mail.claims
           own == Owned(c)
           new == SenderClaims(c, mail.row, seen, e, mail.name, own).claims
<1>1. mail # Idle BY DEF RouteKnown, Idle
<1>2. e \in Endpoints /\ mail.name \in Name \union {None} /\ seen \in Claims
    BY <1>1 DEF IInv, MailOK, Endpoints, RouteKnown
<1>3. claim \in Claims BY DEF IInv, RowsOK
<1>4. claim' = Written(claim, seen, new) BY DEF RouteKnown
<1> HIDE DEF new, seen, own
<1>5. \/ new = seen
      \/ /\ mail.name \in Name
         /\ \E s \in ClaimStatus \ {"none"} :
                /\ new = [seen EXCEPT ![<<e, mail.name>>] = s]
                /\ seen[<<e, mail.name>>] \in Decided => s = seen[<<e, mail.name>>]
    BY <1>2, SenderWrites DEF new
<1>6. CASE new = seen
    <2>1. claim' = claim BY <1>3, <1>4, <1>6 DEF Written, Claims
    <2> QED BY <2>1, SameClaims
<1>7. CASE new # seen
    <2>1. PICK s \in ClaimStatus \ {"none"} :
              /\ mail.name \in Name
              /\ new = [seen EXCEPT ![<<e, mail.name>>] = s]
              /\ seen[<<e, mail.name>>] \in Decided => s = seen[<<e, mail.name>>]
        BY <1>5, <1>7
    <2>2. <<e, mail.name>> \in Endpoints \X Name BY <1>2, <2>1
    <2>3. claim' = Written(claim, seen, [seen EXCEPT ![<<e, mail.name>>] = s]) BY <1>4, <2>1
    <2>4. Writes({<<e, mail.name>>}) /\ (s = seen[<<e, mail.name>>] => claim' = claim)
        BY <1>2, <1>3, <2>2, <2>3, WrittenOne
    <2> QED BY <2>1, <2>4 DEF seen
<1> QED BY <1>6, <1>7

\* The owner writes the claim he decides, and others that he read open.
LEMMA DecideWrites ==
    ASSUME IInv, ReadsOK, Decide
    PROVE  Writes({k \in Endpoints \X Name : owner.claims[k] # "none" /\ (k = owner.claim \/ owner.claims[k] \in Open)})
<1> DEFINE seen == owner.claims
           told == DecidedClaims(owner.claim, owner.decision, seen, Owned(owner.customer))
<1>1. owner # Idle BY DEF Decide, Idle
<1>2. seen \in Claims BY <1>1 DEF IInv, OwnerOK
<1>3. claim \in Claims BY DEF IInv, RowsOK
<1>4. claim' = Written(claim, seen, told) BY DEF Decide
<1>5. seen[owner.claim] # "none" BY DEF ReadsOK, OwnerReads, Decide
<1>6. \A k \in Endpoints \X Name :
          told[k] = seen[k] \/ (told[k] # "none" /\ (k = owner.claim \/ seen[k] \in Open))
    BY <1>2 DEF DecidedClaims, Claims
<1>7. told \in Claims BY <1>2 DEF DecidedClaims, Claims, ClaimStatus
<1>8. "none" \notin Open BY DEF Open
<1> HIDE DEF told, seen
<1>9. claim' \in Claims BY <1>2, <1>3, <1>4, <1>7 DEF Written, Claims
<1>10. ASSUME NEW k \in Endpoints \X Name, claim'[k] # claim[k]
       PROVE  claim'[k] # "none" /\ seen[k] # "none" /\ (k = owner.claim \/ seen[k] \in Open)
    <2>1. told[k] # seen[k] /\ claim'[k] = told[k] BY <1>3, <1>4, <1>10 DEF Written, Claims
    <2> QED BY <1>5, <1>6, <1>8, <2>1
<1> QED BY <1>9, <1>10 DEF Writes, seen

-----------------------------------------------------------------------------

\* Who writes claims, and what the actors keep of what they read.
LEMMA BotActs ==
    ASSUME NEW u \in User, Onboard(u)
    PROVE  /\ UNCHANGED <<mail, owner>>
           /\ UNCHANGED claim \/ Resolve(u)
           /\ UNCHANGED bot \/ bot'.at # "resolving" \/ (bot'.claims = claim /\ UNCHANGED claim)
<1>1. CASE Start(u) BY <1>1 DEF Start
<1>2. CASE CancelOnboarding(u) BY <1>2 DEF CancelOnboarding
<1>3. CASE \E name \in Name : SubmitName(u, name) BY <1>3 DEF SubmitName
<1>4. CASE \E email \in Email : SubmitGmail(u, email) BY <1>4 DEF SubmitGmail
<1>5. CASE \E phone \in Phone : SubmitPhone(u, phone) BY <1>5 DEF SubmitPhone
<1>6. CASE Conflict(u) BY <1>6 DEF Conflict, Idle
<1>7. CASE ResolveReads(u) BY <1>7 DEF ResolveReads
<1>8. CASE ResolveRefused(u) BY <1>8 DEF ResolveRefused, Idle
<1>9. CASE Resolve(u)
    <2>1. bot'.at = "resolved" /\ UNCHANGED <<mail, owner>> BY <1>9 DEF Resolve
    <2> QED BY <1>9, <2>1
<1>10. CASE Complete(u) BY <1>10 DEF Complete, Idle
<1>11. CASE IngestMessage(u) BY <1>11 DEF IngestMessage
<1>12. CASE LinkMessage(u) BY <1>12 DEF LinkMessage, Idle
<1> QED BY <1>1, <1>2, <1>3, <1>4, <1>5, <1>6, <1>7, <1>8, <1>9, <1>10, <1>11, <1>12 DEF Onboard

LEMMA WhoWrites ==
    ASSUME [Next]_vars
    PROVE  UNCHANGED claim \/ (\E u \in User : Resolve(u)) \/ RouteNew \/ RouteKnown \/ Decide
<1>1. ASSUME NEW u \in User, Onboard(u) PROVE UNCHANGED claim \/ Resolve(u)
    BY <1>1, BotActs
<1>2. ASSUME Manage PROVE UNCHANGED claim \/ Decide
    BY <1>2 DEF Manage, DecideReads, Register, Verify, Revoke
<1>3. (\E e \in Email, name \in Name \union {None} : RouteReads(e, name)) => UNCHANGED claim BY DEF RouteReads
<1>4. BotFails \/ MailFails \/ (\E c \in DOMAIN customers : Approve(c)) \/ UNCHANGED vars => UNCHANGED claim
    BY DEF BotFails, MailFails, Approve, vars
<1> QED BY <1>1, <1>2, <1>3, <1>4 DEF Next

LEMMA BotMoves ==
    ASSUME [Next]_vars
    PROVE  UNCHANGED bot \/ bot'.at # "resolving" \/ (bot'.claims = claim /\ UNCHANGED claim)
<1>1. ASSUME NEW u \in User, Onboard(u)
      PROVE  UNCHANGED bot \/ bot'.at # "resolving" \/ (bot'.claims = claim /\ UNCHANGED claim)
    BY <1>1, BotActs
<1>2. ASSUME Manage PROVE UNCHANGED bot
    BY <1>2 DEF Manage, DecideReads, Decide, Register, Verify, Revoke
<1>3. (\E e \in Email, name \in Name \union {None} : RouteReads(e, name)) => UNCHANGED bot BY DEF RouteReads
<1>4. BotFails => bot'.at # "resolving" BY DEF BotFails, Idle
<1>5. RouteNew \/ RouteKnown \/ MailFails \/ (\E c \in DOMAIN customers : Approve(c)) \/ UNCHANGED vars => UNCHANGED bot
    BY DEF RouteNew, RouteKnown, MailFails, Approve, vars
<1> QED BY <1>1, <1>2, <1>3, <1>4, <1>5 DEF Next

LEMMA MailMoves ==
    ASSUME [Next]_vars
    PROVE  UNCHANGED mail \/ mail'.at # "routing" \/ mail'.customer = 0 \/ (mail'.claims = claim /\ UNCHANGED claim)
<1>1. ASSUME NEW u \in User, Onboard(u) PROVE UNCHANGED mail
    BY <1>1, BotActs
<1>2. ASSUME Manage PROVE UNCHANGED mail
    BY <1>2 DEF Manage, DecideReads, Decide, Register, Verify, Revoke
<1>3. ASSUME NEW e \in Email, NEW name \in Name \union {None}, RouteReads(e, name)
      PROVE  mail'.customer = 0 \/ (mail'.claims = claim /\ UNCHANGED claim)
    BY <1>3 DEF RouteReads
<1>4. RouteNew \/ RouteKnown \/ MailFails => mail'.at # "routing" BY DEF RouteNew, RouteKnown, MailFails, Idle
<1>5. BotFails \/ (\E c \in DOMAIN customers : Approve(c)) \/ UNCHANGED vars => UNCHANGED mail
    BY DEF BotFails, Approve, vars
<1> QED BY <1>1, <1>2, <1>3, <1>4, <1>5 DEF Next

LEMMA OwnerMoves ==
    ASSUME [Next]_vars
    PROVE  \/ UNCHANGED owner \/ owner'.at # "deciding"
           \/ owner'.claims = claim /\ UNCHANGED claim /\ claim[owner'.claim] # "none"
<1>1. ASSUME NEW u \in User, Onboard(u) PROVE UNCHANGED owner
    BY <1>1, BotActs
<1>2. ASSUME NEW k \in DOMAIN claim, NEW decision, DecideReads(k, decision)
      PROVE  owner'.claims = claim /\ UNCHANGED claim /\ claim[owner'.claim] # "none"
    BY <1>2 DEF DecideReads
<1>3. Decide => owner'.at # "deciding" BY DEF Decide, Idle
<1>4. (\E c \in DOMAIN customers, e \in Email : Register(c, e)) \/ (\E t \in Endpoints : Verify(t) \/ Revoke(t))
          => UNCHANGED owner
    BY DEF Register, Verify, Revoke
<1>5. (\E e \in Email, name \in Name \union {None} : RouteReads(e, name)) => UNCHANGED owner BY DEF RouteReads
<1>6. BotFails \/ RouteNew \/ RouteKnown \/ MailFails \/ (\E c \in DOMAIN customers : Approve(c)) \/ UNCHANGED vars
          => UNCHANGED owner
    BY DEF BotFails, RouteNew, RouteKnown, MailFails, Approve, vars
<1> QED BY <1>1, <1>2, <1>3, <1>4, <1>5, <1>6 DEF Next, Manage

-----------------------------------------------------------------------------

\* A missing claim is made by the bot, if it is a user's, and by the email
\* worker, if it is an address's, and no claim is taken away.
LEMMA WhoMakes ==
    ASSUME IInv, ReadsOK, [Next]_vars
    PROVE  /\ \A k \in Endpoints \X Name : claim[k] # "none" => claim'[k] # "none"
           /\ \A u \in User, n \in Name :
                  claim[<<u, n>>] = "none" => claim'[<<u, n>>] = "none" \/ (bot.user = u /\ bot'.at = "resolved")
           /\ \A e \in Email, n \in Name :
                  claim[<<e, n>>] = "none" => claim'[<<e, n>>] = "none" \/ mail'.at = "idle"
<1>1. \A e \in Email : e \notin User BY CustomersAssumption
<1>2. \A t \in User \union Email, n \in Name : <<t, n>> \in Endpoints \X Name BY DEF Endpoints
<1>3. CASE UNCHANGED claim BY <1>3
<1>4. ASSUME NEW u \in User, Resolve(u) PROVE (\E n \in Name : Writes({<<u, n>>})) /\ bot.user = u /\ bot'.at = "resolved"
    BY <1>4, ResolveWrites DEF Resolve
<1>5. CASE \E u \in User : Resolve(u)
    <2>1. PICK u \in User, n \in Name : Writes({<<u, n>>}) /\ bot.user = u /\ bot'.at = "resolved" BY <1>4, <1>5
    <2> QED BY <1>1, <1>2, <2>1 DEF Writes
<1>6. ASSUME RouteNew \/ RouteKnown
      PROVE  /\ Writes({}) \/ \E n \in Name : Writes({<<mail.email, n>>})
             /\ mail.email \in Email /\ mail'.at = "idle"
    <2>1. mail # Idle BY <1>6 DEF RouteNew, RouteKnown, Idle
    <2>2. mail.email \in Email /\ mail'.at = "idle" BY <1>6, <2>1 DEF IInv, MailOK, RouteNew, RouteKnown, Idle
    <2> QED BY <1>6, <2>2, RouteNewWrites, RouteKnownWrites
<1>7. CASE RouteNew \/ RouteKnown
    <2>1. CASE Writes({}) BY <1>2, <2>1 DEF Writes
    <2>2. CASE \E n \in Name : Writes({<<mail.email, n>>})
        <3>1. PICK n \in Name : Writes({<<mail.email, n>>}) BY <2>2
        <3> QED BY <1>1, <1>2, <1>6, <1>7, <3>1 DEF Writes
    <2> QED BY <1>6, <1>7, <2>1, <2>2
<1>8. CASE Decide
    <2> DEFINE S == {k \in Endpoints \X Name : owner.claims[k] # "none" /\ (k = owner.claim \/ owner.claims[k] \in Open)}
    <2>1. Writes(S) BY <1>8, DecideWrites
    <2>2. \A k \in S : claim[k] # "none" BY <1>8 DEF ReadsOK, OwnerReads, Decide
    <2> HIDE DEF S
    <2> QED BY <1>2, <2>1, <2>2 DEF Writes
<1> QED BY <1>3, <1>5, <1>7, <1>8, WhoWrites

LEMMA InitReads == Init => ReadsOK
BY DEF Init, ReadsOK, BotReads, MailReads, OwnerReads, Idle

LEMMA NextReads ==
    ASSUME IInv, ReadsOK, [Next]_vars
    PROVE  ReadsOK'
<1>1. BotReads'
    <2>1. CASE UNCHANGED bot /\ bot.at = "resolving"
        <3>1. bot # Idle BY <2>1 DEF Idle
        <3>2. bot.user \in User BY <2>1, <3>1 DEF IInv, BotOK
        <3> QED BY <2>1, <3>2, WhoMakes DEF ReadsOK, BotReads
    <2>2. CASE bot'.at # "resolving" BY <2>2 DEF BotReads
    <2>3. CASE bot'.claims = claim /\ UNCHANGED claim BY <2>3 DEF BotReads
    <2> QED BY <2>1, <2>2, <2>3, BotMoves
<1>2. MailReads'
    <2>1. CASE UNCHANGED mail /\ mail.at = "routing" /\ mail.customer # 0
        <3>1. mail # Idle BY <2>1 DEF Idle
        <3>2. mail.email \in Email BY <2>1, <3>1 DEF IInv, MailOK
        <3> QED BY <2>1, <3>2, WhoMakes DEF ReadsOK, MailReads
    <2>2. CASE mail'.at # "routing" \/ mail'.customer = 0 BY <2>2 DEF MailReads
    <2>3. CASE mail'.claims = claim /\ UNCHANGED claim BY <2>3 DEF MailReads
    <2> QED BY <2>1, <2>2, <2>3, MailMoves
<1>3. OwnerReads'
    <2>1. CASE UNCHANGED owner /\ owner.at = "deciding" BY <2>1, WhoMakes DEF ReadsOK, OwnerReads
    <2>2. CASE owner'.at # "deciding" BY <2>2 DEF OwnerReads
    <2>3. CASE owner'.claims = claim /\ UNCHANGED claim /\ claim[owner'.claim] # "none" BY <2>3 DEF OwnerReads
    <2> QED BY <2>1, <2>2, <2>3, OwnerMoves
<1> QED BY <1>1, <1>2, <1>3 DEF ReadsOK

LEMMA SpecReads == Spec => [](IInv /\ ReadsOK)
<1>1. IInv /\ ReadsOK /\ [Next]_vars => (IInv /\ ReadsOK)' BY NextIInv, NextReads
<1> QED BY <1>1, InitIInv, InitReads, PTL DEF Spec

\* What the owner decided of a claim stands against every message and every
\* onboarding that comes later (resolve_identity_claim, _record_claims,
\* _record_onboarding_name).
THEOREM DecisionsKept == Spec => DecisionsStand
<1> DEFINE Stands(k) ==
        \/ claim[k] \in Decided => claim'[k] = claim[k]
        \/ owner.at = "deciding" /\ owner' # owner /\ owner.claim = k
        \/ Overtaken(k)
<1>1. ASSUME IInv, ReadsOK, [Next]_vars, NEW k \in DOMAIN claim PROVE Stands(k)
    <2>1. k \in Endpoints \X Name BY <1>1 DEF IInv, RowsOK, Claims
    <2>2. "none" \notin Decided /\ Open = ClaimStatus \ (Decided \union {"none"}) BY DEF Decided, Open, ClaimStatus
    <2> SUFFICES ASSUME claim[k] \in Decided, claim'[k] # claim[k]
                 PROVE  (owner.at = "deciding" /\ owner' # owner /\ owner.claim = k) \/ Overtaken(k)
        OBVIOUS
    <2>3. ASSUME NEW u \in User, Resolve(u) PROVE Overtaken(k)
        <3>1. PICK n \in Name : Writes({<<u, n>>}) /\ (bot.claims[<<u, n>>] \in Decided => claim' = claim)
            BY <1>1, <2>3, ResolveWrites
        <3>2. k = <<u, n>> /\ bot.claims[k] \notin Decided BY <2>1, <3>1 DEF Writes
        <3>3. bot.at = "resolving" /\ bot.user = u /\ bot'.at = "resolved" BY <2>3 DEF Resolve
        <3>4. bot.claims \in Claims BY <1>1, <3>3 DEF IInv, BotOK, Idle
        <3>5. bot.claims[k] # "none" BY <1>1, <2>2, <3>2, <3>3 DEF ReadsOK, BotReads
        <3>6. bot.claims[k] \in Open BY <2>1, <2>2, <3>2, <3>4, <3>5 DEF Claims
        <3> QED BY <3>3, <3>6 DEF Overtaken
    <2>4. CASE RouteNew
        <3>1. CASE Writes({}) BY <2>1, <3>1 DEF Writes
        <3>2. CASE \E n \in Name : Writes({<<mail.email, n>>}) /\ (claim[<<mail.email, n>>] \in Decided => claim' = claim)
            <4>1. PICK n \in Name : Writes({<<mail.email, n>>}) /\ (claim[<<mail.email, n>>] \in Decided => claim' = claim)
                BY <3>2
            <4>2. k = <<mail.email, n>> BY <2>1, <4>1 DEF Writes
            <4> QED BY <4>1, <4>2
        <3> QED BY <1>1, <2>4, <3>1, <3>2, RouteNewWrites
    <2>5. CASE RouteKnown
        <3>1. CASE Writes({}) BY <2>1, <3>1 DEF Writes
        <3>2. CASE \E n \in Name : Writes({<<mail.email, n>>}) /\ (mail.claims[<<mail.email, n>>] \in Decided => claim' = claim)
            <4>1. PICK n \in Name : /\ Writes({<<mail.email, n>>})
                                    /\ mail.claims[<<mail.email, n>>] \in Decided => claim' = claim
                BY <3>2
            <4>2. k = <<mail.email, n>> /\ mail.claims[k] \notin Decided BY <2>1, <4>1 DEF Writes
            <4>3. mail.at = "routing" /\ mail.customer # 0 /\ mail'.at = "idle" BY <2>5 DEF RouteKnown, Idle
            <4>4. mail.claims \in Claims BY <1>1, <4>3 DEF IInv, MailOK, Idle
            <4>5. mail.claims[k] # "none" BY <1>1, <2>2, <4>2, <4>3 DEF ReadsOK, MailReads
            <4>6. mail.claims[k] \in Open BY <2>1, <2>2, <4>2, <4>4, <4>5 DEF Claims
            <4> QED BY <4>3, <4>6 DEF Overtaken
        <3> QED BY <1>1, <2>5, <3>1, <3>2, RouteKnownWrites
    <2>6. CASE Decide
        <3>1. k = owner.claim \/ owner.claims[k] \in Open BY <1>1, <2>1, <2>6, DecideWrites DEF Writes
        <3>2. owner.at = "deciding" /\ owner'.at = "idle" BY <2>6 DEF Decide, Idle
        <3> QED BY <3>1, <3>2 DEF Overtaken
    <2> QED BY <1>1, <2>3, <2>4, <2>5, <2>6, WhoWrites
<1>2. IInv /\ ReadsOK /\ [Next]_vars => [\A k \in DOMAIN claim : Stands(k)]_vars BY <1>1
<1> QED BY <1>2, SpecReads, PTL DEF Spec, DecisionsStand

=============================================================================
