------------------------- MODULE PortalServersProof -------------------------
(***************************************************************************)
(* What the portal keeps of what its servers know: the users and the       *)
(* logins of the web server, for any connections, names, emails and number *)
(* of events, crashes among them, and the alarms a page polls, for any     *)
(* alarms, log, polls and faults.                                          *)
(*                                                                         *)
(* The invariants ServerGood and AlarmGood are stated of a record, as each *)
(* function of the code computes a record from a record and has a lemma    *)
(* that says what it keeps.  PortalProof has the theorem about the alarms. *)
(***************************************************************************)
EXTENDS PortalAlarms, WebServer, FiniteSetTheorems, TLAPS

-----------------------------------------------------------------------------
(* The users and the logins of the web server.                             *)

User == [id : Nat, name : Names, email : Emails]

Token == [here : BOOLEAN, user : Nat, challenge : Nat, text : {""}]

Process ==
    [users : SUBSET User, open : SUBSET Connections, tokens : [Connections -> Token],
     known : [Connections -> SUBSET Nat], own : SUBSET Connections]

Web ==
    [up : {"no", "yes", "saving"},
     file : [kind : {"none", "half", "whole"}, users : SUBSET User],
     mem : Process, serial : Nat, promised : SUBSET [name : Names, email : Emails],
     left : SUBSET Nat, acts : Nat]

(* The ids of a set of users are 1, 2, ... *)
Numbered(users) ==
    IsFiniteSet(users) /\ {u.id : u \in users} = 1..Cardinality(users)

(* The promised registrations are those of the process, or of the file when *)
(* there is no process.                                                     *)
Kept(w) ==
    /\ Numbered(w.mem.users) /\ Numbered(w.file.users)
    /\ w.promised = IF w.up = "no" THEN Pairs(w.file.users) ELSE Pairs(w.mem.users)

(* A token that is logged in is there and was logged in by its client. *)
Own(w) ==
    \A c \in Connections :
        w.mem.tokens[c].user # Nobody => w.mem.tokens[c].here /\ c \in w.mem.own

(* Challenges are fresh: each has one token, and none was left by a logout. *)
Fresh(w) ==
    /\ \A n \in w.left : n < w.serial
    /\ \A c \in Connections : w.mem.tokens[c].here =>
          w.mem.tokens[c].challenge < w.serial /\ w.mem.tokens[c].challenge \notin w.left
    /\ \A c, d \in Connections :
          (w.mem.tokens[c].here /\ w.mem.tokens[d].here
             /\ w.mem.tokens[c].challenge = w.mem.tokens[d].challenge) => c = d

ServerGood(w) == w \in Web /\ Kept(w) /\ Own(w) /\ Fresh(w)

(* An event is counted: nothing else changes. *)
LEMMA ActedIsGood ==
    ASSUME NEW w, ServerGood(w)
    PROVE  ServerGood([w EXCEPT !.acts = @ + 1])
<1> DEFINE v == [w EXCEPT !.acts = @ + 1]
<1>1. v \in Web
  BY SMT DEF ServerGood, Web
<1>2. /\ v.up = w.up /\ v.file = w.file /\ v.mem = w.mem /\ v.serial = w.serial
      /\ v.promised = w.promised /\ v.left = w.left
  BY SMT DEF ServerGood, Web
<1> HIDE DEF v
<1>3. Kept(v) /\ Own(v) /\ Fresh(v)
  BY <1>2, SMT DEF ServerGood, Kept, Own, Fresh
<1> QED
  BY <1>1, <1>3 DEF ServerGood, v

(* A new process has no tokens: only its users matter. *)
LEMMA NewProcessIsGood ==
    ASSUME NEW users \in SUBSET User
    PROVE  /\ NewProcess(users) \in Process
           /\ NewProcess(users).users = users
           /\ \A c \in Connections : NewProcess(users).tokens[c] = NoToken
<1>1. NoToken \in Token
  BY SMT DEF NoToken, Token, Nobody
<1>2. [c \in Connections |-> NoToken] \in [Connections -> Token]
  BY <1>1
<1>3. [c \in Connections |-> {}] \in [Connections -> SUBSET Nat]
  BY SMT
<1>4. NewProcess(users) \in Process
  BY <1>2, <1>3 DEF NewProcess, Process
<1>5. NewProcess(users).users = users
  BY DEF NewProcess
<1>6. NewProcess(users).tokens = [c \in Connections |-> NoToken]
  BY DEF NewProcess
<1> QED
  BY <1>4, <1>5, <1>6

(* The fields of a token. *)
LEMMA TokenFields ==
    ASSUME NEW t \in Token
    PROVE  t.challenge \in Nat /\ t.here \in BOOLEAN
  BY Zenon DEF Token

(* What the handlers of one connection c may do to the tokens: those of the  *)
(* other connections stay; the token of c keeps its challenge, or has the    *)
(* next one, and is logged in only as one of its own; a challenge that is    *)
(* left was that of c.                                                       *)
TokenStep(w, v, c) ==
    /\ v.serial \in {w.serial, w.serial + 1}
    /\ \A d \in Connections : d # c =>
          /\ v.mem.tokens[d] = w.mem.tokens[d]
          /\ d \in w.mem.own => d \in v.mem.own
    /\ v.mem.tokens[c].user # Nobody => v.mem.tokens[c].here /\ c \in v.mem.own
    /\ v.mem.tokens[c].here =>
          /\ v.mem.tokens[c].challenge \notin v.left
          /\ \/ v.serial = w.serial + 1 /\ v.mem.tokens[c].challenge = w.serial
             \/ w.mem.tokens[c].here
                  /\ v.mem.tokens[c].challenge = w.mem.tokens[c].challenge
    /\ \A n \in v.left : \/ n \in w.left
                         \/ w.mem.tokens[c].here /\ n = w.mem.tokens[c].challenge

(* Such a step keeps a token its connection's own, and challenges fresh.     *)
LEMMA TokenStepIsGood ==
    ASSUME NEW w \in Web, ServerGood(w), NEW v \in Web, NEW c \in Connections, TokenStep(w, v, c)
    PROVE  Own(v) /\ Fresh(v)
<1>1. /\ w.serial \in Nat /\ v.serial \in Nat /\ w.left \in SUBSET Nat /\ v.left \in SUBSET Nat
      /\ w.mem \in Process /\ v.mem \in Process
  BY SMT DEF Web
<1>2. \A d \in Connections : w.mem.tokens[d] \in Token /\ v.mem.tokens[d] \in Token
  BY <1>1, SMT DEF Process
<1>3. \A d \in Connections :
          w.mem.tokens[d].challenge \in Nat /\ v.mem.tokens[d].challenge \in Nat
  BY <1>2, TokenFields
<1>4. Own(w) /\ Fresh(w)
  BY DEF ServerGood
<1>5. Own(v)
  BY <1>4, SMT DEF Own, TokenStep
<1>6. \A n \in v.left : n < v.serial
  BY <1>1, <1>3, <1>4, SMT DEF Fresh, TokenStep
<1>7. \A d \in Connections : v.mem.tokens[d].here =>
          v.mem.tokens[d].challenge < v.serial /\ v.mem.tokens[d].challenge \notin v.left
  <2> SUFFICES ASSUME NEW d \in Connections, v.mem.tokens[d].here
               PROVE  v.mem.tokens[d].challenge < v.serial
                      /\ v.mem.tokens[d].challenge \notin v.left
    OBVIOUS
  <2>1. CASE d = c
    BY <1>1, <1>3, <1>4, <2>1, SMT DEF Fresh, TokenStep
  <2>2. CASE d # c
    BY <1>1, <1>3, <1>4, <2>2, SMT DEF Fresh, TokenStep
  <2> QED
    BY <2>1, <2>2
<1>8. \A d, e \in Connections :
          (v.mem.tokens[d].here /\ v.mem.tokens[e].here
             /\ v.mem.tokens[d].challenge = v.mem.tokens[e].challenge) => d = e
  <2> SUFFICES ASSUME NEW d \in Connections, NEW e \in Connections, d # e,
                      v.mem.tokens[d].here, v.mem.tokens[e].here,
                      v.mem.tokens[d].challenge = v.mem.tokens[e].challenge
               PROVE  FALSE
    OBVIOUS
  <2>1. CASE d = c
    BY <1>1, <1>3, <1>4, <2>1, SMT DEF Fresh, TokenStep
  <2>2. CASE e = c
    BY <1>1, <1>3, <1>4, <2>2, SMT DEF Fresh, TokenStep
  <2>3. CASE d # c /\ e # c
    BY <1>4, <2>3, SMT DEF Fresh, TokenStep
  <2> QED
    BY <2>1, <2>2, <2>3
<1> QED
  BY <1>5, <1>6, <1>7, <1>8 DEF Fresh

(* A step that leaves the users, the file and the promises alone is good when *)
(* its tokens are.                                                           *)
LEMMA SameUsersAreGood ==
    ASSUME NEW w \in Web, ServerGood(w), NEW v \in Web, Own(v), Fresh(v),
           v.up = w.up, v.file = w.file, v.promised = w.promised,
           v.mem.users = w.mem.users
    PROVE  ServerGood(v)
  BY SMT DEF ServerGood, Kept

(* on_open(): the token it adds has the next challenge and no user. *)
LEMMA OpenIsGood ==
    ASSUME NEW w \in Web, ServerGood(w), NEW c \in Connections,
           NEW t, t = TokenInsert(w.mem, c, w.serial)
    PROVE  ServerGood([w EXCEPT !.mem = [t EXCEPT !.open = @ \cup {c}, !.known[c] = {}],
                          !.serial = @ + 1])
<1> DEFINE token == [here |-> TRUE, user |-> Nobody, challenge |-> w.serial, text |-> ""]
           m == [t EXCEPT !.open = @ \cup {c}, !.known[c] = {}]
           v == [w EXCEPT !.mem = m, !.serial = @ + 1]
<1>0. w.mem \in Process /\ w.serial \in Nat /\ w.left \in SUBSET Nat
  BY SMT DEF Web
<1>1. token \in Token /\ token.user = Nobody /\ token.challenge = w.serial /\ token.here
  BY <1>0, SMT DEF Token, Nobody
<1>2. t = w.mem \/ t = [w.mem EXCEPT !.tokens[c] = token]
  BY Zenon DEF TokenInsert
<1> HIDE DEF token
<1>3. /\ t \in Process /\ t.users = w.mem.users /\ t.own = w.mem.own
      /\ t.tokens = w.mem.tokens \/ t.tokens = [w.mem.tokens EXCEPT ![c] = token]
  BY <1>0, <1>1, <1>2, SMT DEF Process
<1>4. m \in Process
  BY <1>3, Zenon DEF Process
<1>5. m.users = w.mem.users /\ m.own = w.mem.own /\ m.tokens = t.tokens
  BY <1>3, Zenon DEF Process
<1> HIDE DEF m
<1>6. w.serial + 1 \in Nat
  BY <1>0, SMT
<1>7. v \in Web
  BY <1>4, <1>6, Zenon DEF Web
<1>8. /\ v.mem = m /\ v.serial = w.serial + 1 /\ v.left = w.left /\ v.up = w.up
      /\ v.file = w.file /\ v.promised = w.promised
  BY Zenon DEF Web
<1> HIDE DEF v
<1>9. w.mem.tokens \in [Connections -> Token]
  BY <1>0, SMT DEF Process
<1>10. w.serial \notin w.left
  BY <1>0, SMT DEF ServerGood, Fresh
<1>11. \A d \in Connections : d # c =>
           v.mem.tokens[d] = w.mem.tokens[d] /\ (d \in w.mem.own => d \in v.mem.own)
  BY <1>3, <1>5, <1>8, <1>9, SMT
<1>12. v.mem.tokens[c] = token \/ v.mem.tokens[c] = w.mem.tokens[c]
  BY <1>3, <1>5, <1>8, <1>9, SMT
<1>13. v.mem.tokens[c].user # Nobody => v.mem.tokens[c].here /\ c \in v.mem.own
  BY <1>1, <1>3, <1>5, <1>8, <1>12 DEF ServerGood, Own
<1>14. v.mem.tokens[c].here =>
           /\ v.mem.tokens[c].challenge \notin v.left
           /\ \/ v.serial = w.serial + 1 /\ v.mem.tokens[c].challenge = w.serial
              \/ w.mem.tokens[c].here
                   /\ v.mem.tokens[c].challenge = w.mem.tokens[c].challenge
  BY <1>1, <1>8, <1>10, <1>12 DEF ServerGood, Fresh
<1>15. Own(v) /\ Fresh(v)
  <2>1. TokenStep(w, v, c)
    BY <1>8, <1>11, <1>13, <1>14 DEF TokenStep
  <2> QED BY <1>7, <2>1, TokenStepIsGood
<1>16. ServerGood(v)
  BY <1>5, <1>7, <1>8, <1>15, SameUsersAreGood, Zenon
<1>17. v = [w EXCEPT !.mem = [t EXCEPT !.open = @ \cup {c},
                     !.known[c] = {}],
                     !.serial = @ + 1]
  BY Zenon DEF v, m
<1> QED
  BY <1>16, <1>17, Zenon

(* on_close(): the connection has no token. *)
LEMMA CloseIsGood ==
    ASSUME NEW w \in Web, ServerGood(w), NEW c \in Connections,
           NEW t, t = TokenErase(w.mem, c)
    PROVE  ServerGood([w EXCEPT !.mem = [t EXCEPT !.open = @ \ {c}, !.own = @ \ {c}]])
<1> DEFINE m == [t EXCEPT !.open = @ \ {c}, !.own = @ \ {c}]
           v == [w EXCEPT !.mem = m]
<1>0. w.mem \in Process /\ w.serial \in Nat /\ w.left \in SUBSET Nat
  BY SMT DEF Web
<1>1. NoToken \in Token /\ NoToken.user = Nobody /\ ~ NoToken.here
  BY SMT DEF NoToken, Token, Nobody
<1>2. t = [w.mem EXCEPT !.tokens[c] = NoToken]
  BY DEF TokenErase
<1>3. /\ t \in Process /\ t.users = w.mem.users /\ t.own = w.mem.own
      /\ t.tokens = [w.mem.tokens EXCEPT ![c] = NoToken]
  BY <1>0, <1>1, <1>2, SMT DEF Process
<1>4. m \in Process
  BY <1>3, Zenon DEF Process
<1>5. m.users = w.mem.users /\ m.own = w.mem.own \ {c} /\ m.tokens = t.tokens
  BY <1>3, Zenon DEF Process
<1> HIDE DEF m
<1>6. v \in Web
  BY <1>4, Zenon DEF Web
<1>7. /\ v.mem = m /\ v.serial = w.serial /\ v.left = w.left /\ v.up = w.up
      /\ v.file = w.file /\ v.promised = w.promised
  BY Zenon DEF Web
<1> HIDE DEF v
<1>8. w.mem.tokens \in [Connections -> Token]
  BY <1>0, SMT DEF Process
<1>9. \A d \in Connections : d # c =>
          v.mem.tokens[d] = w.mem.tokens[d] /\ (d \in w.mem.own => d \in v.mem.own)
  BY <1>3, <1>5, <1>7, <1>8, SMT
<1>10. v.mem.tokens[c] = NoToken
  BY <1>3, <1>5, <1>7, <1>8, SMT
<1>11. Own(v) /\ Fresh(v)
  <2>1. TokenStep(w, v, c)
    BY <1>1, <1>7, <1>9, <1>10 DEF TokenStep
  <2> QED BY <1>6, <2>1, TokenStepIsGood
<1>12. ServerGood(v)
  BY <1>5, <1>6, <1>7, <1>11, SameUsersAreGood, Zenon
<1>13. v = [w EXCEPT !.mem = [t EXCEPT !.open = @ \ {c},
                     !.own = @ \ {c}]]
  BY Zenon DEF v, m
<1> QED
  BY <1>12, <1>13, Zenon

(* "loginType1": the client knows the challenge of its token. *)
LEMMA LoginType1IsGood ==
    ASSUME NEW w \in Web, ServerGood(w), NEW c \in Connections
    PROVE  ServerGood([w EXCEPT !.mem.known[c] = @ \cup {w.mem.tokens[c].challenge}])
<1> DEFINE known == [w.mem.known EXCEPT ![c] = @ \cup {w.mem.tokens[c].challenge}]
           m == [w.mem EXCEPT !.known = known]
           v == [w EXCEPT !.mem = m]
<1>0. w.mem \in Process
  BY SMT DEF Web
<1>1. w.mem.tokens[c] \in Token /\ w.mem.known \in [Connections -> SUBSET Nat]
  BY <1>0, SMT DEF Process
<1>2. known \in [Connections -> SUBSET Nat]
  BY <1>1, TokenFields, SMT
<1> HIDE DEF known
<1>3. m \in Process /\ m.users = w.mem.users /\ m.own = w.mem.own /\ m.tokens = w.mem.tokens
  BY <1>0, <1>2, Zenon DEF Process
<1> HIDE DEF m
<1>4. v \in Web
  BY <1>3, Zenon DEF Web
<1>5. /\ v.mem = m /\ v.serial = w.serial /\ v.left = w.left /\ v.up = w.up
      /\ v.file = w.file /\ v.promised = w.promised
  BY Zenon DEF Web
<1>6. [w EXCEPT !.mem.known[c] = @ \cup {w.mem.tokens[c].challenge}] = v
  BY Zenon DEF v, m, known, Web, Process
<1> HIDE DEF v
<1>7. Own(v) /\ Fresh(v)
  BY <1>3, <1>5 DEF ServerGood, Own, Fresh
<1> QED
  BY <1>3, <1>4, <1>5, <1>6, <1>7, SameUsersAreGood, Zenon

(* "loginType2" that is accepted: the token of the connection has a user. *)
LEMMA LoginType2IsGood ==
    ASSUME NEW w \in Web, ServerGood(w), NEW c \in Connections, NEW id \in Nat,
           w.mem.tokens[c].here
    PROVE  ServerGood([w EXCEPT !.mem.tokens[c].user = id, !.mem.own = @ \cup {c}])
<1> DEFINE token == [w.mem.tokens[c] EXCEPT !.user = id]
           tokens == [w.mem.tokens EXCEPT ![c] = token]
           m == [w.mem EXCEPT !.tokens = tokens, !.own = @ \cup {c}]
           v == [w EXCEPT !.mem = m]
<1>0. w.mem \in Process /\ w.serial \in Nat /\ w.left \in SUBSET Nat
  BY SMT DEF Web
<1>1. w.mem.tokens \in [Connections -> Token] /\ w.mem.tokens[c] \in Token
  BY <1>0, SMT DEF Process
<1>2. token \in Token
  BY <1>1, Zenon DEF Token
<1>3. token.here = w.mem.tokens[c].here /\ token.challenge = w.mem.tokens[c].challenge
  BY <1>1, Zenon DEF Token
<1> HIDE DEF token
<1>4. tokens \in [Connections -> Token]
  BY <1>1, <1>2
<1> HIDE DEF tokens
<1>5. m \in Process
  BY <1>0, <1>4, Zenon DEF Process
<1>6. m.users = w.mem.users /\ m.own = w.mem.own \cup {c} /\ m.tokens = tokens
  BY <1>0, Zenon DEF Process
<1> HIDE DEF m
<1>7. v \in Web
  BY <1>5, Zenon DEF Web
<1>8. /\ v.mem = m /\ v.serial = w.serial /\ v.left = w.left /\ v.up = w.up
      /\ v.file = w.file /\ v.promised = w.promised
  BY Zenon DEF Web
<1>9. [w EXCEPT !.mem.tokens[c].user = id, !.mem.own = @ \cup {c}] = v
  BY <1>0, Zenon DEF v, m, tokens, token, Web, Process
<1> HIDE DEF v
<1>10. \A d \in Connections : d # c =>
           v.mem.tokens[d] = w.mem.tokens[d] /\ (d \in w.mem.own => d \in v.mem.own)
  BY <1>1, <1>6, <1>8, SMT DEF tokens
<1>11. v.mem.tokens[c] = token /\ c \in v.mem.own
  BY <1>1, <1>6, <1>8, SMT DEF tokens
<1>12. Own(v) /\ Fresh(v)
  <2>1. TokenStep(w, v, c)
    BY <1>3, <1>8, <1>10, <1>11, Zenon DEF ServerGood, Fresh, TokenStep
  <2> QED BY <1>7, <2>1, TokenStepIsGood
<1> QED
  BY <1>6, <1>7, <1>8, <1>9, <1>12, SameUsersAreGood, Zenon

(* "logout": the token has the next challenge, and the old one is left. *)
LEMMA LogoutIsGood ==
    ASSUME NEW w \in Web, ServerGood(w), NEW c \in Connections,
           NEW t, t = TokenReset(w.mem, c, w.serial)
    PROVE  ServerGood([w EXCEPT !.mem = [t EXCEPT !.own = @ \ {c}],
                          !.left = IF Has(w.mem, c)
                                   THEN @ \cup {w.mem.tokens[c].challenge} ELSE @,
                          !.serial = @ + 1])
<1> DEFINE left == IF Has(w.mem, c) THEN w.left \cup {w.mem.tokens[c].challenge} ELSE w.left
           token == [w.mem.tokens[c] EXCEPT !.user = Nobody, !.challenge = w.serial]
           m == [t EXCEPT !.own = @ \ {c}]
           v == [w EXCEPT !.mem = m, !.left = left, !.serial = @ + 1]
<1>0. w.mem \in Process /\ w.serial \in Nat /\ w.left \in SUBSET Nat
  BY SMT DEF Web
<1>1. w.mem.tokens \in [Connections -> Token] /\ w.mem.tokens[c] \in Token
  BY <1>0, SMT DEF Process
<1>2. w.mem.tokens[c].challenge \in Nat /\ w.mem.tokens[c].here \in BOOLEAN
  BY <1>1, TokenFields
<1>3. left \in SUBSET Nat /\ \A n \in left : \/ n \in w.left
                                             \/ w.mem.tokens[c].here /\ n = w.mem.tokens[c].challenge
  BY <1>0, <1>2 DEF Has
<1>4. /\ token \in Token /\ token.user = Nobody /\ token.challenge = w.serial
      /\ token.here = w.mem.tokens[c].here
  <2>1. Nobody \in Nat
    BY SMT DEF Nobody
  <2> QED
    BY <1>0, <1>1, <2>1, Zenon DEF Token
<1>5. Has(w.mem, c) => t = [w.mem EXCEPT !.tokens[c] = token]
  <2> SUFFICES ASSUME Has(w.mem, c) PROVE t = [w.mem EXCEPT !.tokens[c] = token]
    OBVIOUS
  <2>1. t = [w.mem EXCEPT !.tokens[c].user = Nobody, !.tokens[c].challenge = w.serial]
    BY Zenon DEF TokenReset
  <2> QED
    BY <1>0, <1>1, <2>1, Zenon DEF Process
<1>6. ~ Has(w.mem, c) => t = w.mem
  BY DEF TokenReset
<1> HIDE DEF token
<1>7. /\ t \in Process /\ t.users = w.mem.users /\ t.own = w.mem.own
      /\ IF Has(w.mem, c) THEN t.tokens = [w.mem.tokens EXCEPT ![c] = token]
                          ELSE t.tokens = w.mem.tokens
  BY <1>0, <1>4, <1>5, <1>6, SMT DEF Process
<1>8. m \in Process /\ m.users = w.mem.users /\ m.own = w.mem.own \ {c} /\ m.tokens = t.tokens
  BY <1>7, Zenon DEF Process
<1> HIDE DEF m, left
<1>9. w.serial + 1 \in Nat
  BY <1>0, SMT
<1>10. v \in Web
  BY <1>3, <1>8, <1>9, Zenon DEF Web
<1>11. /\ v.mem = m /\ v.serial = w.serial + 1 /\ v.left = left /\ v.up = w.up
       /\ v.file = w.file /\ v.promised = w.promised
  BY Zenon DEF Web
<1> HIDE DEF v
<1>12. \A d \in Connections : d # c =>
           v.mem.tokens[d] = w.mem.tokens[d] /\ (d \in w.mem.own => d \in v.mem.own)
  BY <1>1, <1>7, <1>8, <1>11, SMT
<1>13. IF Has(w.mem, c) THEN v.mem.tokens[c] = token ELSE v.mem.tokens[c] = w.mem.tokens[c]
  BY <1>1, <1>7, <1>8, <1>11, SMT
<1>14. w.serial \notin left
  BY <1>0, <1>2, <1>3, SMT DEF ServerGood, Fresh
<1>15. v.mem.tokens[c].user # Nobody => v.mem.tokens[c].here /\ c \in v.mem.own
  BY <1>4, <1>13 DEF ServerGood, Own, Has
<1>16. v.mem.tokens[c].here =>
           /\ v.mem.tokens[c].challenge \notin v.left
           /\ v.serial = w.serial + 1 /\ v.mem.tokens[c].challenge = w.serial
  BY <1>4, <1>11, <1>13, <1>14 DEF Has
<1>17. Own(v) /\ Fresh(v)
  <2>1. TokenStep(w, v, c)
    BY <1>3, <1>11, <1>12, <1>15, <1>16, Zenon DEF TokenStep
  <2> QED BY <1>10, <2>1, TokenStepIsGood, Zenon
<1>18. ServerGood(v)
  BY <1>8, <1>10, <1>11, <1>17, SameUsersAreGood, Zenon
<1>19. v = [w EXCEPT !.mem = [t EXCEPT !.own = @ \ {c}],
                     !.left = IF Has(w.mem, c) THEN @ \cup {w.mem.tokens[c].challenge} ELSE @,
                     !.serial = @ + 1]
  BY Zenon DEF v, m, left
<1> QED
  BY <1>18, <1>19, Zenon

(* What follows counts the members of sets.                                *)

(* More users than before by one, with the next id. *)
NextUser(users, name, email) == [id |-> Cardinality(users) + 1, name |-> name, email |-> email]

Enrolled(users, more, name, email) ==
    /\ more \in SUBSET User
    /\ Numbered(more)
    /\ Pairs(more) = Pairs(users) \cup {[name |-> name, email |-> email]}

(* A user with the next id keeps the numbering. *)
LEMMA AddedIsNumbered ==
    ASSUME NEW users, users \in SUBSET User, Numbered(users),
           NEW name, name \in Names, NEW email, email \in Emails
    PROVE  Enrolled(users, users \cup {NextUser(users, name, email)}, name, email)
<1> DEFINE u == NextUser(users, name, email)
<1>1. Cardinality(users) \in Nat
  BY FS_CardinalityType DEF Numbered
<1>2. u \in User /\ u.id = Cardinality(users) + 1 /\ u.name = name /\ u.email = email
  BY <1>1 DEF User, NextUser
<1> HIDE DEF u
<1>3. u.id \notin {x.id : x \in users}
  <2>1. {x.id : x \in users} = 1..Cardinality(users)
    BY DEF Numbered
  <2>2. Cardinality(users) + 1 \notin 1..Cardinality(users)
    BY <1>1, SMT
  <2> QED
    BY <1>2, <2>1, <2>2, Zenon
<1>4. u \notin users
  BY <1>3
<1>5. IsFiniteSet(users \cup {u}) /\ Cardinality(users \cup {u}) = Cardinality(users) + 1
  BY <1>4, FS_AddElement DEF Numbered
<1>6. {x.id : x \in users \cup {u}} = {x.id : x \in users} \cup {u.id}
  OBVIOUS
<1>7. 1..(Cardinality(users) + 1) = (1..Cardinality(users)) \cup {Cardinality(users) + 1}
  BY <1>1
<1>8. Numbered(users \cup {u})
  BY <1>2, <1>5, <1>6, <1>7, Zenon DEF Numbered
<1>9. Pairs(users \cup {u}) = Pairs(users) \cup {[name |-> u.name, email |-> u.email]}
  BY DEF Pairs
<1>10. users \cup {u} \in SUBSET User
  BY <1>2
<1>11. Enrolled(users, users \cup {u}, name, email)
  BY <1>2, <1>8, <1>9, <1>10, Zenon DEF Enrolled
<1> QED
  BY <1>11 DEF u

(* "register" that is answered OK: the user is there, and promised. *)
LEMMA RegisterIsGood ==
    ASSUME NEW w \in Web, ServerGood(w), w.up = "yes",
           NEW name \in Names, NEW email \in Emails,
           NEW added, added = UserAddNew(w.mem.users, name, email), added.ok
    PROVE  ServerGood([w EXCEPT !.mem.users = added.users,
                          !.promised = @ \cup {[name |-> name, email |-> email]}])
<1> DEFINE pair == [name |-> name, email |-> email]
           u == NextUser(w.mem.users, name, email)
           m == [w.mem EXCEPT !.users = added.users]
           v == [w EXCEPT !.mem = m, !.promised = @ \cup {pair}]
<1>0. /\ w.mem \in Process /\ w.serial \in Nat /\ w.left \in SUBSET Nat
      /\ w.promised \in SUBSET [name : Names, email : Emails]
  BY SMT DEF Web
<1>1. w.mem.users \in SUBSET User
  BY <1>0, SMT DEF Process
<1>2. added.users = w.mem.users \cup {u}
  BY SMT DEF UserAddNew, NextUser
<1>3. /\ added.users \in SUBSET User /\ Numbered(added.users)
      /\ Pairs(added.users) = Pairs(w.mem.users) \cup {pair}
  <2>1. Numbered(w.mem.users) /\ w.mem.users \in SUBSET User
    BY <1>1 DEF ServerGood, Kept
  <2>2. Enrolled(w.mem.users, w.mem.users \cup {u}, name, email)
    BY <2>1, AddedIsNumbered, Zenon
  <2> QED
    BY <1>2, <2>2, Zenon DEF Enrolled
<1>4. pair \in [name : Names, email : Emails]
  OBVIOUS
<1> HIDE DEF u, pair
<1>5. m \in Process /\ m.users = added.users /\ m.own = w.mem.own /\ m.tokens = w.mem.tokens
  BY <1>0, <1>3, Zenon DEF Process
<1>6. w.promised \cup {pair} \in SUBSET [name : Names, email : Emails]
  BY <1>0, <1>4
<1>7. [w EXCEPT !.mem.users = added.users, !.promised = @ \cup {pair}] = v
  BY <1>0, Zenon DEF Web, Process
<1> HIDE DEF m
<1>8. v \in Web
  BY <1>5, <1>6, Zenon DEF Web
<1>9. /\ v.mem = m /\ v.serial = w.serial /\ v.left = w.left /\ v.up = w.up
      /\ v.file = w.file /\ v.promised = w.promised \cup {pair}
  BY Zenon DEF Web
<1> HIDE DEF v
<1>10. Own(v) /\ Fresh(v)
  BY <1>5, <1>9, SMT DEF ServerGood, Own, Fresh
<1>11. Kept(v)
  BY <1>3, <1>5, <1>9, SMT DEF ServerGood, Kept
<1> QED
  BY <1>7, <1>8, <1>10, <1>11 DEF ServerGood, pair

(* A process that begins or ends: the tokens go, the challenges stay used. *)
LEMMA NewProcessStepIsGood ==
    ASSUME NEW w \in Web, ServerGood(w), NEW v \in Web,
           NEW users \in SUBSET User, Numbered(users), v.mem = NewProcess(users),
           v.serial = w.serial, v.left = w.left, Numbered(v.file.users),
           v.promised = IF v.up = "no" THEN Pairs(v.file.users) ELSE Pairs(users)
    PROVE  ServerGood(v)
<1>1. v.mem.users = users /\ \A c \in Connections : v.mem.tokens[c] = NoToken
  BY NewProcessIsGood
<1>2. ~ NoToken.here /\ NoToken.user = Nobody
  BY DEF NoToken
<1>3. Own(v) /\ Fresh(v)
  BY <1>1, <1>2, SMT DEF ServerGood, Own, Fresh
<1>4. Kept(v)
  BY <1>1 DEF Kept
<1> QED
  BY <1>3, <1>4 DEF ServerGood

(* No users are numbered. *)
LEMMA EmptyIsNumbered == Numbered({}) /\ {} \in SUBSET User
<1>1. {u.id : u \in {}} = {}
  OBVIOUS
<1>2. 1..0 = {}
  BY SMT
<1> QED
  BY <1>1, <1>2, FS_EmptySet DEF Numbered

(* The users of the file. *)
LEMMA FileFields ==
    ASSUME NEW w \in Web
    PROVE  /\ w.file.users \in SUBSET User
           /\ Pairs(w.file.users) \in SUBSET [name : Names, email : Emails]
           /\ w.file \in [kind : {"none", "half", "whole"}, users : SUBSET User]
<1>1. w.file \in [kind : {"none", "half", "whole"}, users : SUBSET User]
  BY SMT DEF Web
<1>2. w.file.users \in SUBSET User
  BY <1>1
<1>3. ASSUME NEW u \in User
      PROVE  [name |-> u.name, email |-> u.email] \in [name : Names, email : Emails]
  BY SMT DEF User
<1> QED
  BY <1>1, <1>2, <1>3 DEF Pairs

(* A crash: what was promised since the file was written is lost. *)
LEMMA CrashIsGood ==
    ASSUME NEW w \in Web, ServerGood(w)
    PROVE  ServerGood(Crashed(w))
<1> DEFINE m == NewProcess({})
           pairs == Pairs(w.file.users)
           v == [w EXCEPT !.up = "no", !.mem = m, !.promised = pairs]
<1>1. m \in Process /\ pairs \in SUBSET [name : Names, email : Emails]
  BY NewProcessIsGood, EmptyIsNumbered, FileFields
<1> HIDE DEF m, pairs
<1>2. v \in Web
  BY <1>1, Zenon DEF Web
<1>3. /\ v.up = "no" /\ v.mem = m /\ v.promised = pairs /\ v.file = w.file
      /\ v.serial = w.serial /\ v.left = w.left
  BY Zenon DEF Web
<1>4. Crashed(w) = v
  BY Zenon DEF Crashed, m, pairs
<1> HIDE DEF v
<1>5. Numbered(v.file.users) /\ v.mem = NewProcess({}) /\ v.promised = Pairs(v.file.users)
  BY <1>3 DEF ServerGood, Kept, m, pairs
<1> QED
  BY <1>2, <1>3, <1>4, <1>5, EmptyIsNumbered, NewProcessStepIsGood

(* A start: the users are those of the file. *)
LEMMA StartIsGood ==
    ASSUME NEW w \in Web, ServerGood(w), w.up = "no"
    PROVE  ServerGood([w EXCEPT !.up = "yes", !.mem = NewProcess(w.file.users)])
<1> DEFINE m == NewProcess(w.file.users)
           v == [w EXCEPT !.up = "yes", !.mem = m]
<1>1. m \in Process
  BY NewProcessIsGood, FileFields
<1> HIDE DEF m
<1>2. v \in Web
  BY <1>1, Zenon DEF Web
<1>3. /\ v.up = "yes" /\ v.mem = m /\ v.promised = w.promised /\ v.file = w.file
      /\ v.serial = w.serial /\ v.left = w.left
  BY Zenon DEF Web
<1> HIDE DEF v
<1>4. /\ Numbered(w.file.users) /\ Numbered(v.file.users) /\ v.mem = NewProcess(w.file.users)
      /\ v.promised = Pairs(w.file.users)
  BY <1>3 DEF ServerGood, Kept, m
<1>5. ServerGood(v)
  BY <1>2, <1>3, <1>4, FileFields, NewProcessStepIsGood
<1> QED
  BY <1>5 DEF v, m

(* handle_quit(): the file is empty until the users are in it. *)
LEMMA QuitIsGood ==
    ASSUME NEW w \in Web, ServerGood(w), w.up = "yes"
    PROVE  ServerGood([w EXCEPT !.up = "saving", !.file = HalfFile])
<1> DEFINE v == [w EXCEPT !.up = "saving", !.file = HalfFile]
<1>1. /\ HalfFile \in [kind : {"none", "half", "whole"}, users : SUBSET User]
      /\ HalfFile.users = {}
  BY SMT DEF HalfFile
<1>2. v \in Web
  BY <1>1, Zenon DEF Web
<1>3. /\ v.up = "saving" /\ v.file = HalfFile /\ v.mem = w.mem /\ v.promised = w.promised
      /\ v.serial = w.serial /\ v.left = w.left
  BY Zenon DEF Web
<1> HIDE DEF v
<1>4. Own(v) /\ Fresh(v)
  BY <1>3 DEF ServerGood, Own, Fresh
<1>5. Kept(v)
  BY <1>1, <1>3, EmptyIsNumbered DEF ServerGood, Kept
<1> QED
  BY <1>2, <1>4, <1>5 DEF ServerGood, v

(* user_save_set() is done: the file has the users of the process. *)
LEMMA SaveIsGood ==
    ASSUME NEW w \in Web, ServerGood(w), w.up = "saving"
    PROVE  ServerGood([w EXCEPT !.up = "no", !.mem = NewProcess({}),
                          !.file = FileOf(w.mem.users)])
<1> DEFINE m == NewProcess({})
           file == FileOf(w.mem.users)
           v == [w EXCEPT !.up = "no", !.mem = m, !.file = file]
<1>0. w.mem \in Process
  BY SMT DEF Web
<1>1. m \in Process /\ w.mem.users \in SUBSET User
  BY <1>0, NewProcessIsGood, EmptyIsNumbered DEF Process
<1>2. /\ file \in [kind : {"none", "half", "whole"}, users : SUBSET User]
      /\ file.users = w.mem.users
  BY <1>1, SMT DEF FileOf
<1> HIDE DEF m, file
<1>3. v \in Web
  BY <1>1, <1>2, Zenon DEF Web
<1>4. /\ v.up = "no" /\ v.file = file /\ v.mem = m /\ v.promised = w.promised
      /\ v.serial = w.serial /\ v.left = w.left
  BY Zenon DEF Web
<1> HIDE DEF v
<1>5. /\ Numbered(v.file.users) /\ v.mem = NewProcess({})
      /\ v.promised = Pairs(v.file.users)
  BY <1>2, <1>4 DEF ServerGood, Kept, m
<1>6. ServerGood(v)
  BY <1>3, <1>4, <1>5, EmptyIsNumbered, NewProcessStepIsGood
<1> QED
  BY <1>6 DEF v, m, file

(* The server that was never started. *)
LEMMA WebStart == WebInit => ServerGood(web)
<1> SUFFICES ASSUME WebInit PROVE ServerGood(web)
  OBVIOUS
<1> DEFINE m == NewProcess({})
<1>1. m \in Process /\ m.users = {} /\ \A c \in Connections : m.tokens[c] = NoToken
  BY NewProcessIsGood, EmptyIsNumbered
<1>2. web = [up |-> "no", file |-> NoFile, mem |-> m, serial |-> 1,
             promised |-> {}, left |-> {}, acts |-> 0]
  BY DEF WebInit
<1> HIDE DEF m
<1>3. /\ NoFile \in [kind : {"none", "half", "whole"}, users : SUBSET User]
      /\ NoFile.users = {}
  BY SMT DEF NoFile
<1>4. web \in Web
  BY <1>1, <1>2, <1>3, SMT DEF Web
<1>5. /\ web.up = "no" /\ web.file = NoFile /\ web.mem = m /\ web.serial = 1
      /\ web.promised = {} /\ web.left = {}
  BY <1>2
<1>6. ~ NoToken.here /\ NoToken.user = Nobody
  BY DEF NoToken
<1>7. Own(web) /\ Fresh(web)
  BY <1>1, <1>5, <1>6, SMT DEF Own, Fresh
<1>8. Pairs({}) = {}
  BY DEF Pairs
<1>9. Kept(web)
  BY <1>1, <1>3, <1>5, <1>8, EmptyIsNumbered DEF Kept
<1> QED
  BY <1>4, <1>7, <1>9 DEF ServerGood

(* on_message(): what it does with a good record, counted, or a crash. *)
LEMMA MessageIsGood ==
    ASSUME web \in Web, ServerGood(web), NEW c \in Connections, NEW w, ServerGood(w), OnMessage(c, w)
    PROVE  ServerGood(web')
<1>1. CASE WebActed(w)
  BY <1>1, ActedIsGood DEF WebActed
<1>2. CASE WebActed(Crashed(web))
  BY <1>2, CrashIsGood, ActedIsGood DEF WebActed
<1> QED
  BY <1>1, <1>2 DEF OnMessage

(* Every event of the server keeps the invariant. *)
LEMMA WebStep == ServerGood(web) /\ [WebNext]_web => ServerGood(web')
<1> SUFFICES ASSUME ServerGood(web), [WebNext]_web PROVE ServerGood(web')
  OBVIOUS
<1>0. web \in Web
  BY DEF ServerGood
<1>1. CASE UNCHANGED web
  BY <1>1 DEF ServerGood, Kept, Own, Fresh
<1>2. ASSUME NEW c \in Connections, OnOpen(c) PROVE ServerGood(web')
  BY <1>0, <1>2, OpenIsGood, ActedIsGood, Zenon DEF OnOpen, WebActed
<1>3. ASSUME NEW c \in Connections, OnClose(c) PROVE ServerGood(web')
  BY <1>0, <1>3, CloseIsGood, ActedIsGood, Zenon DEF OnClose, WebActed
<1>4. ASSUME NEW c \in Connections, LoginType1(c) PROVE ServerGood(web')
  <2>1. CASE ~ Has(web.mem, c)
    BY <1>0, <1>4, <2>1, MessageIsGood DEF LoginType1
  <2>2. CASE Has(web.mem, c)
    BY <1>0, <1>4, <2>2, LoginType1IsGood, MessageIsGood DEF LoginType1
  <2> QED
    BY <2>1, <2>2
<1>5. ASSUME NEW c \in Connections, Logout(c) PROVE ServerGood(web')
  <2> DEFINE m == TokenReset(web.mem, c, web.serial)
             v == [web EXCEPT !.mem = [m EXCEPT !.own = @ \ {c}],
                              !.left = IF Has(web.mem, c)
                                       THEN @ \cup {web.mem.tokens[c].challenge} ELSE @,
                              !.serial = @ + 1]
  <2>1. ServerGood(v)
    BY <1>0, LogoutIsGood, Zenon
  <2>2. OnMessage(c, v)
    BY <1>5, Zenon DEF Logout
  <2> HIDE DEF v
  <2> QED BY <1>0, <2>1, <2>2, MessageIsGood, Zenon
<1>6. ASSUME NEW c \in Connections, NEW name \in Names, NEW right \in BOOLEAN,
             LoginType2(c, name, right)
      PROVE  ServerGood(web')
  <2> DEFINE found == {u \in web.mem.users : u.name = name}
             id == (CHOOSE u \in found : TRUE).id
             logged == [web EXCEPT !.mem.tokens[c].user = id, !.mem.own = @ \cup {c}]
  <2>1. PICK challenge \in web.mem.known[c] :
            OnMessage(c, IF ~ (/\ Has(web.mem, c)
                               /\ challenge = web.mem.tokens[c].challenge
                               /\ found # {} /\ right)
                         THEN web ELSE logged)
    BY <1>6, Zenon DEF LoginType2
  <2>2. ASSUME found # {} PROVE id \in Nat
    <3>1. web.mem.users \in SUBSET User
      <4>1. web.mem \in Process
        BY <1>0, SMT DEF Web
      <4> QED
        BY <4>1, SMT DEF Process
    <3>2. (CHOOSE u \in found : TRUE) \in User
      BY <2>2, <3>1
    <3> QED
      BY <3>2, Zenon DEF User
  <2> HIDE DEF found, id
  <2>3. Has(web.mem, c) /\ found # {} => ServerGood(logged)
    BY <1>0, <2>2, LoginType2IsGood, Zenon DEF Has
  <2> HIDE DEF logged
  <2> QED
    BY <1>0, <2>1, <2>3, MessageIsGood
<1>7. ASSUME NEW c \in Connections, NEW name \in Names, NEW email \in Emails,
             Register(c, name, email)
      PROVE  ServerGood(web')
  <2> DEFINE added == UserAddNew(web.mem.users, name, email)
             kept == [web EXCEPT !.mem.users = added.users,
                                 !.promised = @ \cup {[name |-> name, email |-> email]}]
  <2>1. OnMessage(c, IF ~ added.ok THEN web ELSE kept)
    BY <1>7 DEF Register
  <2>2. web.up = "yes"
    BY <2>1 DEF OnMessage
  <2>3. added.ok => ServerGood(kept)
    BY <1>0, <2>2, RegisterIsGood, Zenon
  <2> HIDE DEF added, kept
  <2> QED
    BY <1>0, <2>1, <2>3, MessageIsGood
<1>8. CASE Start
  BY <1>0, <1>8, StartIsGood, ActedIsGood, Zenon DEF Start, WebActed
<1>9. CASE HandleQuit
  BY <1>0, <1>9, QuitIsGood, ActedIsGood, Zenon DEF HandleQuit, WebActed
<1>10. CASE UserSaveSet
  BY <1>0, <1>10, SaveIsGood, Zenon DEF UserSaveSet
<1>11. CASE CrashOfServer
  BY <1>0, <1>11, CrashIsGood, ActedIsGood DEF CrashOfServer, WebActed
<1> QED
  BY <1>1, <1>2, <1>3, <1>4, <1>5, <1>6, <1>7, <1>8, <1>9, <1>10, <1>11 DEF WebNext

WebInv == ServerGood(web)

(* ServerGood is an invariant of the server. *)
LEMMA WebAlways == WebSpec => []WebInv
<1>1. WebInit => WebInv
  BY WebStart DEF WebInv
<1>2. WebInv /\ [WebNext]_web => WebInv'
  BY WebStep DEF WebInv
<1> QED
  BY <1>1, <1>2, PTL DEF WebSpec

(* A registration that was answered OK is in the set of users over stops and *)
(* starts, unless the process crashed before user_save_set() wrote it, and   *)
(* the ids that user_add_new() gives are 1, 2, ...                           *)
THEOREM RegistrationsAreKept == WebSpec => []RegisteredIsKept
<1>1. WebInv => RegisteredIsKept
  BY DEF WebInv, ServerGood, Kept, Numbered, RegisteredIsKept
<1> QED
  BY <1>1, WebAlways, PTL

(* A connection that is logged in was logged in by its own client: a token   *)
(* never passes to the connection that gets the same address later           *)
(* (on_close() erases it, on_open() inserts one with no user).  And a        *)
(* challenge that was given out before a logout logs nobody in after it:     *)
(* token_reset() makes one that no token had before.                         *)
THEOREM LoginsAreSound == WebSpec => []LoginIsSound
<1>1. WebInv => LoginIsOwn
  BY DEF WebInv, ServerGood, Own, LoginIsOwn
<1>2. WebInv => ChallengeEndsWithLogout
  BY DEF WebInv, ServerGood, Own, Fresh, ChallengeEndsWithLogout
<1>3. WebInv => LoginIsSound
  BY <1>1, <1>2 DEF LoginIsSound
<1> QED
  BY <1>3, WebAlways, PTL

-----------------------------------------------------------------------------
(* The alarms.                                                             *)


LogEntry == [alarm : AlarmIds, status : AlarmStatuses]

LogRequest == [after : Nat, from : Nat]

AskedType == Nat \cup {NotAsked}

AlarmPageState ==
    [last : Nat, first : Nat, granted : BOOLEAN, asked : AskedType, poll : Int,
     logs : Seq(LogRequest), timers : SUBSET [id : Int, due : Int], stopped : BOOLEAN]

AlarmState ==
    [page : AlarmPageState, log : Seq(LogEntry), saved : Nat, raised : [1..LogLength -> Nat],
     shown : SUBSET Int, lost : SUBSET Int, overlap : BOOLEAN, reloads : Int, faults : Int]

Wanted(log, i) == log[i].status = "CRITICAL" /\ ~ Superseded(log, i)

(* Whatever calls for a notification up to an entry had one.               *)
RaisedUpTo(log, raised, n) == \A i \in 1..n : Wanted(log, i) => raised[i] > 0

AskedOnce(p, raised) ==
    /\ \A k \in 1..Len(p.logs) : k = 1 /\ p.logs[k].after = p.last
    /\ \A i \in 1..LogLength : raised[i] <= 1 /\ (i > p.last => raised[i] = 0)

AlarmGood(a) ==
    /\ a \in AlarmState
    /\ a.saved = a.page.last /\ a.page.last <= Len(a.log) /\ Len(a.log) <= LogLength
    /\ \A k \in 1..Len(a.page.logs) : a.page.logs[k].after <= Len(a.log)
    /\ a.page.granted =>
          /\ RaisedUpTo(a.log, a.raised, a.page.last)
          /\ \A k \in 1..Len(a.page.logs) :
                RaisedUpTo(a.log, a.raised, a.page.logs[k].after)
    /\ a.overlap \/ AskedOnce(a.page, a.raised)

(* One sequence after another.                                             *)
LEMMA ConcatIs ==
    ASSUME NEW S, NEW a \in Seq(S), NEW b \in Seq(S)
    PROVE  /\ a \o b \in Seq(S) /\ Len(a \o b) = Len(a) + Len(b)
           /\ \A j \in 1..(Len(a) + Len(b)) :
                 (a \o b)[j] = IF j <= Len(a) THEN a[j] ELSE b[j - Len(a)]
OBVIOUS

(* A sequence without one of its elements.                                 *)
LEMMA WithoutFacts ==
    ASSUME NEW S, NEW s \in Seq(S), NEW k \in 1..Len(s)
    PROVE  /\ Without(s, k) \in Seq(S) /\ Len(Without(s, k)) = Len(s) - 1
           /\ \A j \in 1..Len(Without(s, k)) :
                 \E i \in 1..Len(s) : Without(s, k)[j] = s[i]
<1> DEFINE a == SubSeq(s, 1, k - 1)
           b == SubSeq(s, k + 1, Len(s))
<1>1. a \in Seq(S) /\ Len(a) = k - 1 /\ \A j \in 1..(k - 1) : a[j] = s[j]
  OBVIOUS
<1>2. b \in Seq(S) /\ Len(b) = Len(s) - k /\ \A j \in 1..(Len(s) - k) : b[j] = s[j + k]
  OBVIOUS
<1>3. Without(s, k) = a \o b
  BY DEF Without
<1> HIDE DEF a, b
<1>4. a \o b \in Seq(S) /\ Len(a \o b) = Len(s) - 1
  <2>1. a \o b \in Seq(S)
    BY <1>1, <1>2
  <2>2. Len(a \o b) = Len(a) + Len(b)
    BY <1>1, <1>2, ConcatIs, Zenon
  <2>3. Len(s) \in Nat
    OBVIOUS
  <2> QED BY <1>1, <1>2, <2>1, <2>2, <2>3
<1>5. ASSUME NEW j \in 1..Len(a \o b) PROVE \E i \in 1..Len(s) : (a \o b)[j] = s[i]
  <2>0. (a \o b)[j] = IF j <= Len(a) THEN a[j] ELSE b[j - Len(a)]
    BY <1>1, <1>2, <1>4, ConcatIs
  <2>1. j \in 1..(Len(s) - 1) /\ Len(s) \in Nat /\ k \in 1..Len(s)
    BY <1>4
  <2>2. CASE j <= k - 1
    <3>1. j \in 1..(k - 1) /\ j \in 1..Len(s)
      BY <2>1, <2>2
    <3> QED BY <1>1, <2>0, <2>2, <3>1
  <2>3. CASE ~ (j <= k - 1)
    <3>1. (a \o b)[j] = b[j - (k - 1)]
      BY <1>1, <2>0, <2>3
    <3>2. j - (k - 1) \in 1..(Len(s) - k) /\ j + 1 \in 1..Len(s) /\ j - (k - 1) + k = j + 1
      BY <2>1, <2>3
    <3>3. b[j - (k - 1)] = s[j + 1]
      BY <1>2, <3>2
    <3> QED BY <3>1, <3>2, <3>3
  <2> QED BY <2>2, <2>3
<1> QED BY <1>3, <1>4, <1>5, Zenon

(* The page begins with what it kept from an earlier visit.                *)
LEMMA AlarmInitGood ==
    ASSUME AlarmInit PROVE AlarmGood(al)
<1>1. PICK grant \in BOOLEAN :
         al = [page |-> AlarmPage(0, grant, 0), log |-> <<>>, saved |-> 0,
               raised |-> [i \in 1..LogLength |-> 0], shown |-> {},
               lost |-> {}, overlap |-> FALSE, reloads |-> AlarmReloads, faults |-> AlarmFaults]
  BY Zenon DEF AlarmInit
<1> DEFINE p == AlarmPage(0, grant, 0)
<1>2. p \in AlarmPageState /\ p.last = 0 /\ p.logs = <<>> /\ p.asked = 0
  BY DEF AlarmPage, AlarmPageState, NoPoll, AskedType
<1> HIDE DEF p
<1>3. al.page = p /\ al.log = <<>> /\ al.saved = 0 /\ al.raised = [i \in 1..LogLength |-> 0]
  BY <1>1 DEF p
<1>4. al \in AlarmState
  BY <1>1, <1>2, AlarmAssumption DEF AlarmState, p
<1> QED BY <1>2, <1>3, <1>4, AlarmAssumption DEF AlarmGood, RaisedUpTo, AskedOnce

(* The parts of a state have their types.                                  *)
LEMMA AlarmTypes ==
    ASSUME NEW a \in AlarmState
    PROVE  /\ a.page \in AlarmPageState /\ a.page.last \in Nat
           /\ a.page.logs \in Seq(LogRequest) /\ Len(a.page.logs) \in Nat
           /\ \A k \in 1..Len(a.page.logs) : /\ a.page.logs[k].after \in Nat
                                             /\ a.page.logs[k].from \in Nat
           /\ a.log \in Seq(LogEntry) /\ Len(a.log) \in Nat
<1>1. a.page \in AlarmPageState /\ a.log \in Seq(LogEntry)
  BY DEF AlarmState
<1> DEFINE p == a.page
<1> HIDE DEF p
<1>2. p \in AlarmPageState
  BY <1>1 DEF p
<1>3. p.last \in Nat /\ p.logs \in Seq(LogRequest)
  BY <1>2 DEF AlarmPageState
<1>4. \A k \in 1..Len(p.logs) : p.logs[k] \in LogRequest
  BY <1>3
<1>5. \A k \in 1..Len(p.logs) : p.logs[k].after \in Nat /\ p.logs[k].from \in Nat
  BY <1>4 DEF LogRequest
<1>6. Len(p.logs) \in Nat /\ Len(a.log) \in Nat
  BY <1>1, <1>3
<1> QED BY <1>1, <1>3, <1>5, <1>6 DEF p

(* Requests end, and nothing is notified.                                  *)
LEMMA AlarmSame ==
    ASSUME NEW a, NEW b, AlarmGood(a), b \in AlarmState, b.log = a.log, b.raised = a.raised,
           b.saved = a.saved, b.page.last = a.page.last, b.page.granted = a.page.granted,
           b.overlap = a.overlap,
           Len(b.page.logs) <= Len(a.page.logs),
           \A j \in 1..Len(b.page.logs) :
               \E i \in 1..Len(a.page.logs) : b.page.logs[j] = a.page.logs[i]
    PROVE  AlarmGood(b)
<1>0. Len(a.page.logs) \in Nat /\ Len(b.page.logs) \in Nat
  BY DEF AlarmGood, AlarmState, AlarmPageState
<1>1. \A k \in 1..Len(b.page.logs) : b.page.logs[k].after <= Len(b.log)
  BY Zenon DEF AlarmGood
<1>2. b.page.granted =>
          /\ RaisedUpTo(b.log, b.raised, b.page.last)
          /\ \A k \in 1..Len(b.page.logs) :
                RaisedUpTo(b.log, b.raised, b.page.logs[k].after)
  BY Zenon DEF AlarmGood
<1>3. b.overlap \/ AskedOnce(b.page, b.raised)
  <2> SUFFICES ASSUME ~ b.overlap PROVE AskedOnce(b.page, b.raised)
    OBVIOUS
  <2>1. AskedOnce(a.page, a.raised)
    BY DEF AlarmGood
  <2>2. Len(a.page.logs) <= 1
    <3> SUFFICES ASSUME Len(a.page.logs) >= 2 PROVE FALSE
      BY <1>0
    <3>1. 2 \in 1..Len(a.page.logs)
      BY <1>0
    <3> QED BY <2>1, <3>1 DEF AskedOnce
  <2>3. \A k \in 1..Len(b.page.logs) : k = 1
    BY <1>0, <2>2
  <2>4. \A k \in 1..Len(b.page.logs) : b.page.logs[k].after = b.page.last
    BY <2>1 DEF AskedOnce
  <2> QED BY <2>1, <2>3, <2>4 DEF AskedOnce
<1> QED BY <1>1, <1>2, <1>3 DEF AlarmGood

(* The server appends an entry to its log.                                 *)
LEMMA ServerLogsGood ==
    ASSUME AlarmGood(al), ServerLogs PROVE AlarmGood(al')
<1>1. PICK e \in LogEntry : Len(al.log) < LogLength /\ al' = [al EXCEPT !.log = Append(al.log, e)]
  BY Zenon DEF ServerLogs, LogEntry
<1> DEFINE lg == Append(al.log, e)
<1>2. al \in AlarmState /\ al.log \in Seq(LogEntry)
  BY DEF AlarmGood, AlarmState
<1>3. /\ lg \in Seq(LogEntry) /\ Len(lg) = Len(al.log) + 1
      /\ \A i \in 1..Len(al.log) : lg[i] = al.log[i]
  BY <1>2
<1> HIDE DEF lg
<1>4. /\ al' \in AlarmState /\ al'.log = lg /\ al'.page = al.page /\ al'.saved = al.saved
      /\ al'.raised = al.raised /\ al'.overlap = al.overlap
  BY <1>1, <1>2, <1>3, Zenon DEF AlarmState, lg
<1>5. Len(al.log) \in Nat
  BY <1>2
<1>6. \A i \in 1..Len(al.log) : Wanted(lg, i) => Wanted(al.log, i)
  <2> SUFFICES ASSUME NEW i \in 1..Len(al.log), Superseded(al.log, i)
               PROVE  Superseded(lg, i)
    BY <1>3 DEF Wanted
  <2>1. PICK j \in (i + 1)..Len(al.log) : al.log[j].alarm = al.log[i].alarm
    BY DEF Superseded
  <2>2. j \in (i + 1)..Len(lg) /\ lg[j] = al.log[j] /\ lg[i] = al.log[i]
    BY <1>3, <1>5
  <2> QED BY <2>1, <2>2 DEF Superseded
<1>7. \A n \in Nat : n <= Len(al.log) /\ RaisedUpTo(al.log, al.raised, n)
                        => RaisedUpTo(lg, al.raised, n)
  BY <1>5, <1>6 DEF RaisedUpTo
<1>8. al.page.last \in Nat /\ \A k \in 1..Len(al.page.logs) : al.page.logs[k].after \in Nat
  BY <1>2, AlarmTypes
<1>9. Len(lg) <= LogLength /\ al.page.last <= Len(lg)
      /\ \A k \in 1..Len(al.page.logs) : al.page.logs[k].after <= Len(lg)
  <2>1. al.page.last <= Len(al.log)
        /\ \A k \in 1..Len(al.page.logs) : al.page.logs[k].after <= Len(al.log)
    BY DEF AlarmGood
  <2>2. \A n \in Nat : n <= Len(al.log) => n <= Len(lg)
    BY <1>3, <1>5
  <2>3. Len(lg) <= LogLength
    BY <1>1, <1>3, <1>5, AlarmAssumption
  <2> QED BY <1>8, <2>1, <2>2, <2>3
<1> QED BY <1>4, <1>7, <1>8, <1>9 DEF AlarmGood

(* The list of the active alarms arrives: the log is asked for where it    *)
(* changed.                                                                *)
LEMMA ActiveAnswerGood ==
    ASSUME AlarmGood(al), ActiveAnswer PROVE AlarmGood(al')
<1> DEFINE p == al.page
<1>0. /\ al \in AlarmState /\ p \in AlarmPageState /\ al.log \in Seq(LogEntry) /\ Len(al.log) \in Nat
      /\ p.logs \in Seq(LogRequest) /\ p.last \in Nat
  BY DEF AlarmGood, AlarmState, AlarmPageState
<1>1. PICK health \in BOOLEAN, latest \in p.asked..Len(al.log) :
          LET ask == CheckNotifications(p, latest)
          IN  al' = [al EXCEPT
                    !.page = [p EXCEPT
                        !.asked = NotAsked,
                        !.first = IF p.first = 0 THEN latest ELSE p.first,
                        !.logs = IF ask
                                 THEN Append(p.logs, [after |-> p.last, from |-> Len(al.log)])
                                 ELSE p.logs,
                        !.stopped = ~ health,
                        !.poll = IF health THEN PollEvery ELSE NoPoll],
                    !.overlap = al.overlap \/ (ask /\ p.logs # <<>>)]
  BY Zenon DEF ActiveAnswer
<1>2. p.asked \in Nat
  BY <1>0 DEF ActiveAnswer, AlarmPageState, AskedType
<1> DEFINE ask == CheckNotifications(p, latest)
           req == [after |-> p.last, from |-> Len(al.log)]
           fi == IF p.first = 0 THEN latest ELSE p.first
           lo == IF ask THEN Append(p.logs, req) ELSE p.logs
           ov == al.overlap \/ (ask /\ p.logs # <<>>)
           po == IF health THEN PollEvery ELSE NoPoll
           st == ~ health
           q == [p EXCEPT !.asked = NotAsked, !.first = fi, !.logs = lo, !.stopped = st, !.poll = po]
           r == [al EXCEPT !.page = q, !.overlap = ov]
<1>3. req \in LogRequest /\ req.after = p.last
  BY <1>0 DEF LogRequest
<1>4. fi \in Nat /\ po \in Int /\ st \in BOOLEAN
  BY <1>0, <1>2, AlarmAssumption DEF AlarmPageState, NoPoll
<1>5. lo \in Seq(LogRequest) /\ ov \in BOOLEAN
  <2>1. lo \in Seq(LogRequest)
    BY <1>0, <1>3
  <2>2. al.overlap \in BOOLEAN
    BY <1>0 DEF AlarmState
  <2> QED BY <2>1, <2>2
<1>6. al' = r
  BY <1>1, Zenon
<1>7. /\ \A k \in 1..Len(lo) : lo[k].after = p.last \/ \E j \in 1..Len(p.logs) : lo[k] = p.logs[j]
      /\ ~ ask => lo = p.logs
      /\ p.logs = <<>> => Len(lo) <= 1
  BY <1>0, <1>3
<1> HIDE DEF ask, fi, lo, po, st, req
<1>8. /\ q \in AlarmPageState /\ q.last = p.last /\ q.logs = lo /\ q.granted = p.granted
      /\ q.asked = NotAsked
  BY <1>0, <1>4, <1>5, Zenon DEF AlarmPageState, AskedType
<1>9. ov \in BOOLEAN
  BY <1>5
<1> HIDE DEF q, ov, p
<1>10. /\ r \in AlarmState /\ r.page = q /\ r.overlap = ov /\ r.log = al.log /\ r.saved = al.saved
       /\ r.raised = al.raised
  BY <1>0, <1>8, <1>9, Zenon DEF AlarmState
<1> HIDE DEF r
<1>11. lo \in Seq(LogRequest) /\ Len(lo) \in Nat
  BY <1>5
<1>12. \A k \in 1..Len(lo) : lo[k].after <= Len(al.log)
  BY <1>7 DEF AlarmGood, p
<1>13. p.granted => /\ RaisedUpTo(al.log, al.raised, p.last)
                    /\ \A k \in 1..Len(lo) : RaisedUpTo(al.log, al.raised, lo[k].after)
  BY <1>7 DEF AlarmGood, p
<1>14. ASSUME ~ ov PROVE AskedOnce(q, al.raised)
  <2>1. AskedOnce(p, al.raised) /\ (ask => p.logs = <<>>)
    BY <1>14 DEF AlarmGood, p, ov
  <2>2. \A k \in 1..Len(lo) : k = 1 /\ lo[k].after = p.last
    <3>1. CASE ask
      <4>1. p.logs = <<>> /\ Len(lo) <= 1
        BY <1>7, <2>1, <3>1
      <4>2. Len(p.logs) = 0
        BY <4>1
      <4> QED BY <1>7, <1>11, <4>1, <4>2
    <3>2. CASE ~ ask
      BY <1>7, <2>1, <3>2 DEF AskedOnce
    <3> QED BY <3>1, <3>2
  <2> QED BY <1>8, <2>1, <2>2 DEF AskedOnce
<1>15. al.saved = p.last /\ p.last <= Len(al.log) /\ Len(al.log) <= LogLength
  BY DEF AlarmGood, p
<1> QED BY <1>6, <1>8, <1>10, <1>12, <1>13, <1>14, <1>15 DEF AlarmGood

(* A request for the log fails.                                            *)
LEMMA LogFailsGood ==
    ASSUME AlarmGood(al), LogFails PROVE AlarmGood(al')
<1> DEFINE p == al.page
<1>1. al \in AlarmState /\ p \in AlarmPageState /\ p.logs \in Seq(LogRequest)
  BY AlarmTypes DEF AlarmGood
<1>2. PICK k \in 1..Len(p.logs) :
          al' = [al EXCEPT !.page = [p EXCEPT !.logs = Without(p.logs, k)], !.faults = @ - 1]
  BY Zenon DEF LogFails
<1> DEFINE lo == Without(p.logs, k)
           q == [p EXCEPT !.logs = lo]
<1>3. /\ lo \in Seq(LogRequest) /\ Len(lo) = Len(p.logs) - 1
      /\ \A j \in 1..Len(lo) : \E i \in 1..Len(p.logs) : lo[j] = p.logs[i]
  BY <1>1, WithoutFacts, Zenon
<1> HIDE DEF lo
<1>4. q \in AlarmPageState /\ q.last = p.last /\ q.logs = lo /\ q.granted = p.granted
  BY <1>1, <1>3, Zenon DEF AlarmPageState
<1>5. al.faults - 1 \in Int
  BY <1>1 DEF AlarmState
<1>6. Len(lo) <= Len(p.logs)
  BY <1>1, <1>3
<1>7. al' = [al EXCEPT !.page = q, !.faults = al.faults - 1]
  BY <1>2 DEF lo
<1> HIDE DEF q
<1>8. /\ al' \in AlarmState /\ al'.page = q /\ al'.overlap = al.overlap /\ al'.log = al.log
      /\ al'.saved = al.saved /\ al'.raised = al.raised
  BY <1>1, <1>4, <1>5, <1>7, Zenon DEF AlarmState
<1>9. /\ al'.page.last = al.page.last /\ al'.page.granted = al.page.granted
      /\ Len(al'.page.logs) <= Len(al.page.logs)
      /\ \A j \in 1..Len(al'.page.logs) :
            \E i \in 1..Len(al.page.logs) : al'.page.logs[j] = al.page.logs[i]
  BY <1>3, <1>4, <1>6, <1>8, Zenon
<1> QED BY <1>8, <1>9, AlarmSame, Zenon

(* Only timers, polls and what is shown change.                            *)
LEMMA AlarmPageChange ==
    ASSUME NEW a, NEW q, AlarmGood(a), q \in AlarmPageState, q.last = a.page.last,
           q.logs = a.page.logs, q.granted = a.page.granted,
           NEW b \in AlarmState, b.page = q, b.log = a.log, b.raised = a.raised,
           b.saved = a.saved, b.overlap = a.overlap
    PROVE  AlarmGood(b)
<1>1. a \in AlarmState
  BY DEF AlarmGood
<1>2. Len(a.page.logs) \in Nat
  BY <1>1, AlarmTypes
<1>3. Len(b.page.logs) <= Len(a.page.logs)
  BY <1>2
<1>4. \A j \in 1..Len(b.page.logs) :
          \E i \in 1..Len(a.page.logs) : b.page.logs[j] = a.page.logs[i]
  OBVIOUS
<1> QED BY <1>3, <1>4, AlarmSame, Zenon

(* The timers of the page raise nothing.                                   *)
LEMMA AlarmTimersGood ==
    ASSUME AlarmGood(al), ActiveFails \/ Shows \/ PollDue \/ HalfSecond
    PROVE  AlarmGood(al')
<1> DEFINE p == al.page
<1>1. al \in AlarmState /\ p \in AlarmPageState /\ Len(al.log) \in Nat
  BY AlarmTypes DEF AlarmGood
<1>2. CASE ActiveFails
  <2> DEFINE q == [p EXCEPT !.asked = NotAsked, !.poll = PollEvery]
  <2>1. q \in AlarmPageState /\ q.last = p.last /\ q.logs = p.logs /\ q.granted = p.granted
    <3>1. NotAsked \in AskedType /\ PollEvery \in Int
      BY AlarmAssumption DEF AskedType
    <3> QED BY <1>1, <3>1, Zenon DEF AlarmPageState
  <2>2. al' = [al EXCEPT !.page = q, !.faults = al.faults - 1] /\ al.faults - 1 \in Int
    BY <1>1, <1>2 DEF ActiveFails, AlarmState
  <2> HIDE DEF q
  <2>3. /\ al' \in AlarmState /\ al'.page = q /\ al'.overlap = al.overlap /\ al'.log = al.log
        /\ al'.saved = al.saved /\ al'.raised = al.raised
    BY <1>1, <2>1, <2>2, Zenon DEF AlarmState
  <2> QED BY <2>1, <2>3, AlarmPageChange
<1>3. CASE Shows
  <2>1. PICK t \in p.timers :
           al' = [al EXCEPT !.page = [p EXCEPT !.timers = p.timers \ {t}],
                            !.shown = @ \cup {t.id}]
    BY <1>3, Zenon DEF Shows
  <2> DEFINE q == [p EXCEPT !.timers = p.timers \ {t}]
             sh == al.shown \cup {t.id}
  <2>2. p.timers \in SUBSET [id : Int, due : Int]
    BY <1>1 DEF AlarmPageState
  <2>3. q \in AlarmPageState /\ q.last = p.last /\ q.logs = p.logs /\ q.granted = p.granted
    BY <1>1, <2>2, Zenon DEF AlarmPageState
  <2>4. sh \in SUBSET Int
    BY <1>1, <2>2 DEF AlarmState
  <2>5. al' = [al EXCEPT !.page = q, !.shown = sh]
    BY <2>1
  <2> HIDE DEF q, sh
  <2>6. /\ al' \in AlarmState /\ al'.page = q /\ al'.overlap = al.overlap /\ al'.log = al.log
        /\ al'.saved = al.saved /\ al'.raised = al.raised
    BY <1>1, <2>3, <2>4, <2>5, Zenon DEF AlarmState
  <2> QED BY <2>3, <2>6, AlarmPageChange
<1>4. CASE PollDue
  <2> DEFINE q == [p EXCEPT !.poll = NoPoll, !.asked = Len(al.log)]
  <2>1. q \in AlarmPageState /\ q.last = p.last /\ q.logs = p.logs /\ q.granted = p.granted
    <3>1. Len(al.log) \in AskedType /\ NoPoll \in Int
      BY <1>1 DEF AskedType, NoPoll
    <3> QED BY <1>1, <3>1, Zenon DEF AlarmPageState
  <2>2. al' = [al EXCEPT !.page = q]
    BY <1>4 DEF PollDue
  <2> HIDE DEF q
  <2>3. /\ al' \in AlarmState /\ al'.page = q /\ al'.overlap = al.overlap /\ al'.log = al.log
        /\ al'.saved = al.saved /\ al'.raised = al.raised
    BY <1>1, <2>1, <2>2, Zenon DEF AlarmState
  <2> QED BY <2>1, <2>3, AlarmPageChange
<1>5. CASE HalfSecond
  <2> DEFINE po == IF p.poll = NoPoll THEN NoPoll ELSE p.poll - 1
             ti == {[t EXCEPT !.due = t.due - 1] : t \in p.timers}
             q == [p EXCEPT !.poll = po, !.timers = ti]
  <2>1. p.timers \in SUBSET [id : Int, due : Int] /\ p.poll \in Int
    BY <1>1 DEF AlarmPageState
  <2>2. po \in Int /\ ti \in SUBSET [id : Int, due : Int]
    BY <2>1 DEF NoPoll
  <2>3. al' = [al EXCEPT !.page = q]
    BY <1>5 DEF HalfSecond
  <2> HIDE DEF po, ti
  <2>4. q \in AlarmPageState /\ q.last = p.last /\ q.logs = p.logs /\ q.granted = p.granted
    BY <1>1, <2>2, Zenon DEF AlarmPageState
  <2> HIDE DEF q
  <2>5. /\ al' \in AlarmState /\ al'.page = q /\ al'.overlap = al.overlap /\ al'.log = al.log
        /\ al'.saved = al.saved /\ al'.raised = al.raised
    BY <1>1, <2>4, <2>3, Zenon DEF AlarmState
  <2> QED BY <2>4, <2>5, AlarmPageChange
<1> QED BY <1>2, <1>3, <1>4, <1>5

(* The page is reloaded: it goes on from the entry it saved.               *)
LEMMA ReloadPageGood ==
    ASSUME AlarmGood(al), ReloadPage PROVE AlarmGood(al')
<1> DEFINE p == al.page
           q == AlarmPage(al.saved, p.granted, Len(al.log))
           lost == al.lost \cup {t.id : t \in p.timers}
<1>1. al \in AlarmState /\ p \in AlarmPageState /\ Len(al.log) \in Nat /\ al.saved \in Nat
  BY AlarmTypes DEF AlarmGood, AlarmState
<1>2. al' = [al EXCEPT !.page = q, !.lost = lost, !.reloads = al.reloads - 1]
  BY DEF ReloadPage
<1>3. p.timers \in SUBSET [id : Int, due : Int] /\ p.granted \in BOOLEAN
  BY <1>1 DEF AlarmPageState
<1>4. lost \in SUBSET Int /\ al.reloads - 1 \in Int
  BY <1>1, <1>3 DEF AlarmState
<1>5. q \in AlarmPageState /\ q.last = al.saved /\ q.logs = <<>> /\ q.granted = p.granted
  BY <1>1, <1>3 DEF AlarmPageState, AlarmPage, AskedType, NoPoll
<1> HIDE DEF q, lost
<1>6. /\ al' \in AlarmState /\ al'.page = q /\ al'.overlap = al.overlap /\ al'.log = al.log
      /\ al'.saved = al.saved /\ al'.raised = al.raised
  BY <1>1, <1>2, <1>4, <1>5, Zenon DEF AlarmState
<1>7. al'.page.logs = <<>> /\ Len(al'.page.logs) = 0
  BY <1>5, <1>6
<1>8. Len(al'.page.logs) <= Len(al.page.logs)
  BY <1>1, <1>7, AlarmTypes
<1>9. al.saved = p.last
  BY DEF AlarmGood
<1>10. \A j \in 1..Len(al'.page.logs) :
           \E i \in 1..Len(al.page.logs) : al'.page.logs[j] = al.page.logs[i]
  BY <1>7
<1>11. al'.page.last = al.page.last /\ al'.page.granted = al.page.granted
  BY <1>5, <1>6, <1>9
<1> QED BY <1>6, <1>8, <1>10, <1>11, AlarmSame, Zenon

(* What follows counts the members of sets.                                *)

(* The log arrives: each entry that calls for it is notified of, and the   *)
(* last one is saved.                                                      *)
LEMMA LogAnswerGood ==
    ASSUME AlarmGood(al), LogAnswer PROVE AlarmGood(al')
<1> DEFINE p == al.page
<1>1. /\ al \in AlarmState /\ p \in AlarmPageState /\ p.logs \in Seq(LogRequest)
      /\ Len(p.logs) \in Nat /\ Len(al.log) \in Nat /\ p.last \in Nat /\ al.log \in Seq(LogEntry)
  BY AlarmTypes DEF AlarmGood
<1> DEFINE Sent(top) == SubSeq(al.log, 1, top)
           New(k, top) == {i \in NewEntries(p.logs[k].after, p.last, top) :
                              Notifies(Sent(top), i, p.first)}
           Before(k, top, i) == Cardinality({j \in New(k, top) : j < i})
           Timers(k, top) == p.timers \cup {[id |-> i, due |-> Before(k, top, i)] : i \in New(k, top)}
           Raised(k, top) == [i \in 1..LogLength |->
                                 al.raised[i] + (IF i \in New(k, top) THEN 1 ELSE 0)]
           Answered(k, top) ==
              IF top <= p.logs[k].after
              THEN al' = [al EXCEPT !.page = [p EXCEPT !.logs = Without(p.logs, k)]]
              ELSE al' = [al EXCEPT !.page = [p EXCEPT !.logs = Without(p.logs, k),
                                                       !.timers = Timers(k, top), !.last = top],
                                    !.raised = Raised(k, top), !.saved = top]
<1>a. \E k \in 1..Len(p.logs) : \E top \in p.logs[k].from..Len(al.log) : Answered(k, top)
  BY Zenon DEF LogAnswer
<1>b. PICK k \in 1..Len(p.logs) : \E top \in p.logs[k].from..Len(al.log) : Answered(k, top)
  BY <1>a, Zenon
<1>2. PICK top \in p.logs[k].from..Len(al.log) : Answered(k, top)
  BY <1>b, Zenon
<1> DEFINE after == p.logs[k].after
           sent == Sent(top)
           new == New(k, top)
           before(i) == Before(k, top, i)
           lo == Without(p.logs, k)
           ti == Timers(k, top)
           ra == Raised(k, top)
<1>3. after \in Nat /\ p.logs[k].from \in Nat
  BY <1>1, AlarmTypes
<1>4. top \in Nat /\ top <= Len(al.log)
  BY <1>1, <1>3
<1>5. /\ lo \in Seq(LogRequest) /\ Len(lo) = Len(p.logs) - 1
      /\ \A j \in 1..Len(lo) : \E i \in 1..Len(p.logs) : lo[j] = p.logs[i]
  BY <1>1, WithoutFacts, Zenon
<1>6. CASE top <= after
  <2> DEFINE q == [p EXCEPT !.logs = lo]
  <2>1. al' = [al EXCEPT !.page = q]
    BY <1>2, <1>6
  <2> HIDE DEF lo
  <2>2. q \in AlarmPageState /\ q.last = p.last /\ q.logs = lo /\ q.granted = p.granted
    BY <1>1, <1>5, Zenon DEF AlarmPageState
  <2>3. Len(lo) <= Len(p.logs)
    BY <1>1, <1>5
  <2> HIDE DEF q
  <2>4. /\ al' \in AlarmState /\ al'.page = q /\ al'.overlap = al.overlap /\ al'.log = al.log
        /\ al'.saved = al.saved /\ al'.raised = al.raised
    BY <1>1, <2>1, <2>2, Zenon DEF AlarmState
  <2>5. /\ al'.page.last = al.page.last /\ al'.page.granted = al.page.granted
        /\ Len(al'.page.logs) <= Len(al.page.logs)
        /\ \A j \in 1..Len(al'.page.logs) :
              \E i \in 1..Len(al.page.logs) : al'.page.logs[j] = al.page.logs[i]
    BY <1>5, <2>2, <2>3, <2>4, Zenon
  <2> QED BY <2>4, <2>5, AlarmSame, Zenon
<1>7. CASE ~ (top <= after)
  <2> DEFINE q == [p EXCEPT !.logs = lo, !.timers = ti, !.last = top]
  <2>1. al' = [al EXCEPT !.page = q, !.raised = ra, !.saved = top]
    BY <1>2, <1>7, Zenon
  <2>2. new \subseteq 1..top
    BY <1>1, <1>3, <1>4 DEF NewEntries
  <2>3. ti \in SUBSET [id : Int, due : Int]
    <3>1. \A i \in new : before(i) \in Int
      <4> SUFFICES ASSUME NEW i \in new PROVE before(i) \in Int
        OBVIOUS
      <4>1. IsFiniteSet(1..top)
        BY <1>4, FS_Interval
      <4>2. IsFiniteSet({j \in new : j < i})
        BY <2>2, <4>1, FS_Subset
      <4> QED BY <4>2, FS_CardinalityType
    <3>2. p.timers \in SUBSET [id : Int, due : Int]
      BY <1>1 DEF AlarmPageState
    <3> HIDE DEF Before, New
    <3>3. \A i \in new : [id |-> i, due |-> before(i)] \in [id : Int, due : Int]
      BY <1>4, <2>2, <3>1
    <3> QED BY <3>2, <3>3
  <2>4. al.raised \in [1..LogLength -> Nat]
    BY <1>1 DEF AlarmState
  <2>5. \A i \in 1..top : /\ Wanted(al.log, i) /\ i > after /\ i > p.last => i \in new
                          /\ i \in new => i > after /\ i > p.last
    <3> SUFFICES ASSUME NEW i \in 1..top
                 PROVE  /\ Wanted(al.log, i) /\ i > after /\ i > p.last => i \in new
                        /\ i \in new => i > after /\ i > p.last
      OBVIOUS
    <3>1. i \in new => i > after /\ i > p.last
      BY <1>3, <1>4 DEF NewEntries
    <3>2. ASSUME Wanted(al.log, i), i > after, i > p.last PROVE i \in new
      <4>1. Len(sent) = top /\ \A j \in 1..top : sent[j] = al.log[j]
        BY <1>1, <1>4
      <4> HIDE DEF sent
      <4>2. ~ Superseded(sent, i)
        <5> SUFFICES ASSUME NEW j \in (i + 1)..Len(sent), sent[j].alarm = sent[i].alarm
                     PROVE  FALSE
          BY DEF Superseded
        <5>1. j \in 1..top /\ j \in (i + 1)..Len(al.log)
          BY <1>1, <1>4, <4>1
        <5>2. al.log[j].alarm = al.log[i].alarm
          BY <4>1, <5>1
        <5> QED BY <3>2, <5>1, <5>2 DEF Wanted, Superseded
      <4>3. sent[i].status = "CRITICAL"
        BY <3>2, <4>1 DEF Wanted
      <4>4. Notifies(sent, i, p.first)
        BY <4>2, <4>3 DEF Notifies
      <4>5. i \in NewEntries(after, p.last, top)
        BY <1>3, <1>4, <3>2 DEF NewEntries
      <4> QED BY <4>4, <4>5 DEF sent
    <3> QED BY <3>1, <3>2
  <2> HIDE DEF New, Sent, Before
  <2>6. /\ ra \in [1..LogLength -> Nat]
        /\ \A i \in 1..LogLength : /\ i \in new => ra[i] = al.raised[i] + 1
                                   /\ i \notin new => ra[i] = al.raised[i]
                                   /\ al.raised[i] \in Nat
    <3> DEFINE x == al.raised
               N == New(k, top)
    <3> HIDE DEF x, N
    <3>1. x \in [1..LogLength -> Nat]
      BY <2>4 DEF x
    <3>2. ra = [i \in 1..LogLength |-> x[i] + (IF i \in N THEN 1 ELSE 0)]
      BY DEF x, N
    <3>3. /\ ra \in [1..LogLength -> Nat]
          /\ \A i \in 1..LogLength : /\ i \in N => ra[i] = x[i] + 1
                                     /\ i \notin N => ra[i] = x[i]
                                     /\ x[i] \in Nat
      BY <3>1, <3>2
    <3> QED BY <3>3 DEF x, N
  <2> HIDE DEF ra, new, lo, ti, after
  <2>7. q \in AlarmPageState /\ q.last = top /\ q.logs = lo /\ q.granted = p.granted
    BY <1>1, <1>4, <1>5, <2>3, Zenon DEF AlarmPageState
  <2> HIDE DEF q
  <2>8. /\ al' \in AlarmState /\ al'.page = q /\ al'.overlap = al.overlap /\ al'.log = al.log
        /\ al'.saved = top /\ al'.raised = ra
    BY <1>1, <1>4, <2>1, <2>6, <2>7, Zenon DEF AlarmState
  <2>9. Len(al.log) <= LogLength /\ LogLength \in Nat
    BY AlarmAssumption DEF AlarmGood
  <2>10. \A n \in Nat : n <= Len(al.log) /\ RaisedUpTo(al.log, al.raised, n)
                            => RaisedUpTo(al.log, ra, n)
    <3> SUFFICES ASSUME NEW n \in Nat, n <= Len(al.log), RaisedUpTo(al.log, al.raised, n),
                        NEW i \in 1..n, Wanted(al.log, i)
                 PROVE  ra[i] > 0
      BY DEF RaisedUpTo
    <3>1. i \in 1..LogLength /\ al.raised[i] > 0
      BY <1>1, <2>9 DEF RaisedUpTo
    <3> QED BY <2>4, <2>6, <3>1
  <2>11. p.last <= Len(al.log) /\ \A j \in 1..Len(p.logs) : p.logs[j].after <= Len(al.log)
    BY DEF AlarmGood
  <2>12. \A j \in 1..Len(p.logs) : p.logs[j].after \in Nat
    BY <1>1, AlarmTypes
  <2>13. ASSUME p.granted PROVE RaisedUpTo(al.log, ra, top)
    <3> SUFFICES ASSUME NEW i \in 1..top, Wanted(al.log, i) PROVE ra[i] > 0
      BY DEF RaisedUpTo
    <3>0. i \in 1..LogLength
      BY <1>1, <1>4, <2>9
    <3>1. CASE i <= after
      <4>1. RaisedUpTo(al.log, al.raised, after)
        BY <2>13 DEF AlarmGood, after
      <4>2. al.raised[i] > 0
        BY <1>3, <3>1, <4>1 DEF RaisedUpTo
      <4> QED BY <2>4, <2>6, <3>0, <4>2
    <3>2. CASE i <= p.last
      <4>1. RaisedUpTo(al.log, al.raised, p.last)
        BY <2>13 DEF AlarmGood
      <4>2. al.raised[i] > 0
        BY <1>1, <3>2, <4>1 DEF RaisedUpTo
      <4> QED BY <2>4, <2>6, <3>0, <4>2
    <3>3. CASE i > after /\ i > p.last
      BY <2>4, <2>5, <2>6, <3>0, <3>3
    <3> QED BY <1>1, <1>3, <3>1, <3>2, <3>3
  <2>14. ASSUME p.granted PROVE \A j \in 1..Len(lo) : RaisedUpTo(al.log, ra, lo[j].after)
    <3> SUFFICES ASSUME NEW j \in 1..Len(lo) PROVE RaisedUpTo(al.log, ra, lo[j].after)
      OBVIOUS
    <3>1. PICK m \in 1..Len(p.logs) : lo[j] = p.logs[m]
      BY <1>5, Zenon
    <3>2. RaisedUpTo(al.log, al.raised, p.logs[m].after)
      BY <2>14 DEF AlarmGood
    <3> QED BY <2>10, <2>11, <2>12, <3>1, <3>2, Zenon
  <2>15. ASSUME ~ al.overlap PROVE AskedOnce(q, ra)
    <3>1. AskedOnce(p, al.raised)
      BY <2>15 DEF AlarmGood
    <3>2. after = p.last /\ k = 1
      BY <3>1 DEF AskedOnce, after
    <3>3. Len(p.logs) <= 1
      <4> SUFFICES ASSUME Len(p.logs) >= 2 PROVE FALSE
        BY <1>1
      <4>1. 2 \in 1..Len(p.logs)
        BY <1>1
      <4> QED BY <3>1, <4>1 DEF AskedOnce
    <3>4. Len(lo) = 0
      <4> DEFINE n == Len(p.logs)
      <4>1. k \in 1..n /\ n \in Nat /\ n <= 1
        BY <1>1, <3>3
      <4> HIDE DEF n
      <4>2. n = 1
        BY <4>1
      <4> QED BY <1>5, <4>2 DEF n
    <3>5. ASSUME NEW i \in 1..LogLength PROVE ra[i] <= 1 /\ (i > top => ra[i] = 0)
      <4>1. al.raised[i] <= 1 /\ (i > p.last => al.raised[i] = 0) /\ al.raised[i] \in Nat
        BY <2>4, <3>1, Zenon DEF AskedOnce
      <4>2. p.last < top
        BY <1>1, <1>3, <1>4, <1>7, <3>2
      <4>3. i \in new => i > p.last /\ i <= top
        BY <1>4, <2>2, <2>5
      <4> QED BY <1>1, <1>4, <2>6, <4>1, <4>2, <4>3
    <3> QED BY <2>7, <3>4, <3>5 DEF AskedOnce
  <2>16. \A j \in 1..Len(lo) : lo[j].after <= Len(al.log)
    BY <1>5, <2>11, Zenon
  <2> QED BY <1>4, <2>7, <2>8, <2>9, <2>13, <2>14, <2>15, <2>16 DEF AlarmGood
<1> QED BY <1>6, <1>7

(* Every step of the alarms keeps the invariant.                           *)
LEMMA AlarmStepGood ==
    ASSUME AlarmGood(al), AlarmNext PROVE AlarmGood(al')
BY ServerLogsGood, ActiveAnswerGood, LogAnswerGood, LogFailsGood, AlarmTimersGood,
   ReloadPageGood DEF AlarmNext

(* The invariant gives the properties of the notifications.                *)
LEMMA AlarmGoodNotifies ==
    ASSUME AlarmGood(al) PROVE NoneIsSkipped /\ NeverTwice
BY DEF AlarmGood, NoneIsSkipped, NeverTwice, RaisedUpTo, AskedOnce, Wanted, Calls

=============================================================================
