------------------------------ MODULE CliSession ------------------------------
(* Invocations of the CLI that run at the same time against one credentials   *)
(* file: a login, which waits on a loopback port for the browser and trades   *)
(* the code it brings for tokens, and a command, whose requests refresh the   *)
(* tokens once when the backend refuses them.                                 *)
(*                                                                            *)
(* The backends and the browser are external.  A grant is one pair of access  *)
(* and refresh token; a refresh token is good for one use.                    *)
EXTENDS Naturals, Sequences

CONSTANTS
    Invocations,
    Backends,       \* what ENCLAVIA_BACKEND_URL may be set to
    MaxGrants,      \* bound: grants the backends mint
    MaxRuns         \* bound: invocations started

VARIABLES
    creds,      \* credentials.json
    grants,     \* the grants minted: by which backend, and what is still good
    codes,      \* codes the backends have issued: for which login, where
    inv,        \* Invocations -> the process
    runs,       \* invocations started, which number them
    disturbed   \* two saves have overlapped, or one was cut off

cliVars == <<creds, grants, codes, inv, runs, disturbed>>

NoCreds == [kind |-> "none", grant |-> 0, backend |-> "none", writer |-> 0]
Credentials(grant, backend) == [kind |-> "creds", grant |-> grant, backend |-> backend, writer |-> 0]

NoInv == [at |-> "exited", run |-> 0, kind |-> "none", backend |-> "none",
          base |-> "none", creds |-> NoCreds, next |-> NoCreds, code |-> 0, resent |-> FALSE]

InvAt(i, at) == inv[i].at = at
InvGoto(i, at) == inv' = [inv EXCEPT ![i].at = at]
InvExits(i) == inv' = [inv EXCEPT ![i] = NoInv]

\* A request that fails ends a login and most commands; a deploy that watches goes on to
\* its next poll, with the pair it had.
RequestFails(i) ==
    \/ InvExits(i)
    \/ inv[i].kind = "command"
         /\ inv' = [inv EXCEPT ![i].at = "request", ![i].next = NoCreds, ![i].resent = FALSE]

-----------------------------------------------------------------------------
(* The credentials file                                                       *)

\* load_credentials: what does not parse is no credentials
LoadCredentials == IF creds.kind = "creds" THEN [creds EXCEPT !.writer = 0] ELSE NoCreds

Saving(i) == InvAt(i, "write")

\* save_credentials_at opens with truncation ...
TruncateCreds(i) ==
    /\ InvAt(i, "save")
    /\ creds' = [NoCreds EXCEPT !.kind = "torn", !.writer = inv[i].run]
    /\ disturbed' = (disturbed \/ \E j \in Invocations : Saving(j))
    /\ InvGoto(i, "write")
    /\ UNCHANGED <<grants, codes, runs>>

\* ... and writes from the start of the file.  Over what another process has put
\* there since, the tail of a longer text may stay, which does not parse.  The
\* client takes the new pair over once it is on disk.
WriteCreds(i) ==
    /\ InvAt(i, "write")
    /\ \/ creds' = [inv[i].next EXCEPT !.writer = inv[i].run]
       \/ creds.writer # inv[i].run /\ creds' = [creds EXCEPT !.kind = "torn"]
    /\ IF inv[i].kind = "login" THEN InvExits(i)
       ELSE inv' = [inv EXCEPT ![i].at = "request", ![i].creds = inv[i].next]
    /\ UNCHANGED <<grants, codes, runs, disturbed>>

\* The directory, the open or the write fails, or the process is interrupted: the
\* client does not take the new pair over.
SaveFails(i) ==
    /\ inv[i].at \in {"save", "write"}
    /\ disturbed' = (disturbed \/ Saving(i))
    /\ RequestFails(i)
    /\ UNCHANGED <<creds, grants, codes, runs>>

-----------------------------------------------------------------------------
(* auth login                                                                 *)

\* start_login: a port, a state and a verifier of its own, towards backend_url()
StartLogin(i, b) ==
    /\ InvAt(i, "exited") /\ runs < MaxRuns
    /\ runs' = runs + 1
    /\ inv' = [inv EXCEPT ![i] = [NoInv EXCEPT !.at = "waiting", !.run = runs + 1,
                                               !.kind = "login", !.backend = b]]
    /\ UNCHANGED <<creds, grants, codes, disturbed>>

\* The user approves the login of a page still open.
Approve(i) ==
    /\ inv[i].kind = "login" /\ \A c \in DOMAIN codes : codes[c].login # inv[i].run
    /\ codes' = Append(codes, [login |-> inv[i].run, backend |-> inv[i].backend, used |-> FALSE])
    /\ UNCHANGED <<creds, grants, inv, runs, disturbed>>

\* handle_callback hands over the first query that arrives: a code of this login or
\* of another one whose page lands on the same port, an error, or no code at all;
\* wait_for_token refuses all but the first.
Callback(i, c) ==
    /\ InvAt(i, "waiting")
    /\ IF c \in DOMAIN codes /\ codes[c].login = inv[i].run
       THEN inv' = [inv EXCEPT ![i].at = "exchange", ![i].code = c]
       ELSE InvExits(i)
    /\ UNCHANGED <<creds, grants, codes, runs, disturbed>>

\* LOGIN_TIMEOUT, or an interrupt
LoginTimesOut(i) ==
    /\ InvAt(i, "waiting")
    /\ InvExits(i)
    /\ UNCHANGED <<creds, grants, codes, runs, disturbed>>

Grant(b) == [backend |-> b, live |-> TRUE, fresh |-> TRUE]

\* exchange_code, with this login's verifier, at the backend the login went to
ExchangeCode(i) ==
    LET code == codes[inv[i].code]
    IN  /\ InvAt(i, "exchange")
        /\ \/ /\ Len(grants) < MaxGrants
              /\ ~code.used /\ code.backend = inv[i].backend
              /\ codes' = [codes EXCEPT ![inv[i].code].used = TRUE]
              /\ grants' = Append(grants, Grant(inv[i].backend))
              /\ inv' = [inv EXCEPT ![i].at = "save", ![i].next = Credentials(Len(grants) + 1, inv[i].backend)]
           \/ InvExits(i) /\ UNCHANGED <<codes, grants>>
        /\ UNCHANGED <<creds, runs, disturbed>>

-----------------------------------------------------------------------------
(* A command and its requests                                                 *)

\* ApiClient::new.  The environment's backend plays no part once there are credentials.
StartCommand(i, b) ==
    /\ InvAt(i, "exited") /\ runs < MaxRuns
    /\ LoadCredentials # NoCreds
    /\ runs' = runs + 1
    /\ inv' = [inv EXCEPT ![i] = [NoInv EXCEPT !.at = "request", !.run = runs + 1, !.kind = "command",
                                               !.backend = b, !.base = LoadCredentials.backend,
                                               !.creds = LoadCredentials]]
    /\ UNCHANGED <<creds, grants, codes, disturbed>>

\* build: the token of the credentials the client holds, to the base URL it was made with
Build(i) == [inv[i].creds EXCEPT !.backend = inv[i].base]

\* A 200, another status, a broken connection or an interrupt: the command is done, or
\* goes on to its next request.
RequestEnds(i) ==
    /\ InvAt(i, "request")
    /\ InvExits(i) \/ (inv[i].resent /\ inv' = [inv EXCEPT ![i].resent = FALSE])
    /\ UNCHANGED <<creds, grants, codes, runs, disturbed>>

\* A 401: request, request_with_body and request_no_response refresh on the first.
Unauthorized(i) ==
    /\ InvAt(i, "request")
    /\ ~grants[inv[i].creds.grant].live
    /\ IF inv[i].resent THEN RequestFails(i) ELSE InvGoto(i, "refresh")
    /\ UNCHANGED <<creds, grants, codes, runs, disturbed>>

\* Mutant: the refreshed pair is stored with the backend of the environment.
RefreshCredentials_Env(i) ==
    LET c == inv[i].creds
    IN  /\ InvAt(i, "refresh")
        /\ \/ /\ grants[c.grant].fresh /\ Len(grants) < MaxGrants
              /\ grants' = Append([grants EXCEPT ![c.grant].fresh = FALSE], Grant(c.backend))
              /\ \/ inv' = [inv EXCEPT ![i].at = "save", ![i].resent = TRUE,
                                       ![i].next = Credentials(Len(grants) + 1, inv[i].backend)]
                 \/ RequestFails(i)
           \/ RequestFails(i) /\ UNCHANGED grants
        /\ UNCHANGED <<creds, codes, runs, disturbed>>

\* refresh_if_possible and refresh_credentials: the refresh token is spent at the
\* backend that minted it, and the new pair is saved; or the backend refuses, cannot be
\* reached, or rotates and its answer is lost
RefreshCredentials(i) ==
    LET c == inv[i].creds
    IN  /\ InvAt(i, "refresh")
        /\ \/ /\ grants[c.grant].fresh /\ Len(grants) < MaxGrants
              /\ grants' = Append([grants EXCEPT ![c.grant].fresh = FALSE], Grant(c.backend))
              /\ \/ inv' = [inv EXCEPT ![i].at = "save", ![i].resent = TRUE,
                                       ![i].next = Credentials(Len(grants) + 1, c.backend)]
                 \/ RequestFails(i)
           \/ RequestFails(i) /\ UNCHANGED grants
        /\ UNCHANGED <<creds, codes, runs, disturbed>>

-----------------------------------------------------------------------------
(* Around the CLI                                                             *)

\* An access token expires, or a session is revoked.
TokenExpires(g) ==
    /\ grants[g].live
    /\ \E fresh \in {grants[g].fresh, FALSE} :
          grants' = [grants EXCEPT ![g].live = FALSE, ![g].fresh = fresh]
    /\ UNCHANGED <<creds, codes, inv, runs, disturbed>>

CliInit ==
    /\ grants = <<Grant("home")>>
    /\ creds = Credentials(1, "home")
    /\ codes = <<>>
    /\ inv = [i \in Invocations |-> NoInv]
    /\ runs = 0
    /\ disturbed = FALSE

CliNext ==
    \/ \E i \in Invocations :
          \/ TruncateCreds(i) \/ WriteCreds(i) \/ SaveFails(i)
          \/ Approve(i) \/ LoginTimesOut(i) \/ ExchangeCode(i)
          \/ \E c \in 0 .. Len(codes) : Callback(i, c)
          \/ \E b \in Backends : StartLogin(i, b) \/ StartCommand(i, b)
          \/ RequestEnds(i) \/ Unauthorized(i) \/ RefreshCredentials(i)
    \/ \E g \in DOMAIN grants : TokenExpires(g)

-----------------------------------------------------------------------------
(* Properties                                                                 *)

\* Whatever invocations log in, refresh, fail and overwrite the file at once, and
\* whatever ENCLAVIA_BACKEND_URL is by then, a token is only ever stored with, and sent
\* in a request to, the backend that minted it (Credentials.backend_url); and between
\* saves the file parses unless two of them overlapped or one was cut off
\* (save_credentials_at).
TokensStayHome ==
    /\ \A c \in {creds} \cup {Build(i) : i \in Invocations} :
          c.kind = "creds" => c.backend = grants[c.grant].backend
    /\ creds.kind = "torn" /\ ~disturbed => \E i \in Invocations : Saving(i)
=============================================================================
