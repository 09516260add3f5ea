------------------------------- MODULE AuthStore -------------------------------
(****************************************************************************)
(* The SQLite store of package internal/auth: authtokens, reserved          *)
(* subdomains and reserved TCP ports.  Every method of the store is one SQL *)
(* statement on a pool of one connection, so each is one atomic step.  The  *)
(* same database file is also written by the admin API of the server and    *)
(* by the `eosrift-server token|reserve|tcp-reserve` commands, which run in *)
(* processes of their own; they are the callers of the actions below.       *)
(****************************************************************************)
EXTENDS Naturals, FiniteSets

CONSTANTS
    Secrets,    \* the authtoken strings (only their hashes are stored)
    Names,      \* normalised subdomains
    Ports       \* TCP ports

ASSUME StoreAssumption ==
    /\ IsFiniteSet(Secrets)
    /\ Ports \subseteq Nat \ {0}

VARIABLES
    tokenRow,   \* secret -> id of its row in authtokens, NoToken if none
    revoked,    \* ids of the rows whose revoked_at is set
    nextID,     \* next AUTOINCREMENT id of authtokens
    subOwner,   \* subdomain -> token_id in reserved_subdomains, or NoToken
    portOwner   \* port -> token_id in reserved_tcp_ports, or NoToken

storeVars == <<tokenRow, revoked, nextID, subOwner, portOwner>>

(* Row ids start at 1, so the zero value of int64 stands for "no token".    *)
NoToken == 0

StoreTypeOK ==
    /\ tokenRow \in [Secrets -> Nat]
    /\ revoked \in SUBSET (Nat \ {0})
    /\ nextID \in Nat \ {0}
    /\ subOwner \in [Names -> Nat]
    /\ portOwner \in [Ports -> Nat]

(* ensureSchema: every table starts empty.                                  *)
StoreInit ==
    /\ tokenRow = [k \in Secrets |-> NoToken]
    /\ revoked = {}
    /\ nextID = 1
    /\ subOwner = [n \in Names |-> NoToken]
    /\ portOwner = [p \in Ports |-> NoToken]

----------------------------------------------------------------------------
(* Queries.                                                                 *)

RowExists(t) == t # NoToken /\ \E k \in Secrets : tokenRow[k] = t

ValidateToken(k) == tokenRow[k] # NoToken /\ tokenRow[k] \notin revoked

(* TokenID repeats the query of ValidateToken and returns (0, false) when   *)
(* the row is missing or revoked by then.                                   *)
TokenID(k) == IF ValidateToken(k) THEN tokenRow[k] ELSE NoToken

(* (id, reserved) of the Go methods, NoToken standing for reserved = false. *)
ReservedSubdomainTokenID(n) == subOwner[n]
ReservedTCPPortTokenID(p) == portOwner[p]

----------------------------------------------------------------------------
(* Statements.  One whose constraint fails is an error that changes nothing.*)

(* Mutant: an id of the table is handed out again (no AUTOINCREMENT).       *)
insertTokenReusingIds(k) ==
    /\ tokenRow[k] = NoToken
    /\ tokenRow' = [tokenRow EXCEPT ![k] = nextID]
    /\ UNCHANGED <<revoked, nextID, subOwner, portOwner>>

(* INSERT INTO authtokens: token_hash is UNIQUE.                            *)
insertToken(k) ==
    /\ tokenRow[k] = NoToken
    /\ tokenRow' = [tokenRow EXCEPT ![k] = nextID]
    /\ nextID' = nextID + 1
    /\ UNCHANGED <<revoked, subOwner, portOwner>>

(* The secret is 32 random bytes: one that has no row yet.                  *)
CreateToken == \E k \in Secrets : insertToken(k)

(* Mutant: an upsert, which clears revoked_at of the row it finds.          *)
EnsureTokenUpsert(k) ==
    \/ insertToken(k)
    \/ /\ tokenRow[k] # NoToken
       /\ revoked' = revoked \ {tokenRow[k]}
       /\ UNCHANGED <<tokenRow, nextID, subOwner, portOwner>>

(* The UNIQUE violation of a secret that has a row counts as success, and   *)
(* leaves the row as it is, revoked or not.                                 *)
EnsureToken(k) ==
    \/ insertToken(k)
    \/ tokenRow[k] # NoToken /\ UNCHANGED storeVars

(* UPDATE ... WHERE id = ? AND revoked_at IS NULL.  Reservations stay.      *)
RevokeToken(t) ==
    /\ RowExists(t) /\ t \notin revoked
    /\ revoked' = revoked \cup {t}
    /\ UNCHANGED <<tokenRow, nextID, subOwner, portOwner>>

(* Mutant: INSERT OR REPLACE.                                               *)
CanReserveSubdomainReplacing(t, n) == RowExists(t)

(* subdomain is the PRIMARY KEY and token_id a FOREIGN KEY (enforced).      *)
CanReserveSubdomain(t, n) == RowExists(t) /\ subOwner[n] = NoToken
ReserveSubdomain(t, n) ==
    /\ CanReserveSubdomain(t, n)
    /\ subOwner' = [subOwner EXCEPT ![n] = t]
    /\ UNCHANGED <<tokenRow, revoked, nextID, portOwner>>

UnreserveSubdomain(n) ==
    /\ subOwner' = [subOwner EXCEPT ![n] = NoToken]
    /\ UNCHANGED <<tokenRow, revoked, nextID, portOwner>>

CanReserveTCPPort(t, p) == RowExists(t) /\ portOwner[p] = NoToken
ReserveTCPPort(t, p) ==
    /\ CanReserveTCPPort(t, p)
    /\ portOwner' = [portOwner EXCEPT ![p] = t]
    /\ UNCHANGED <<tokenRow, revoked, nextID, subOwner>>

UnreserveTCPPort(p) ==
    /\ portOwner' = [portOwner EXCEPT ![p] = NoToken]
    /\ UNCHANGED <<tokenRow, revoked, nextID, subOwner>>

(* The commands `token`, `reserve` and `tcp-reserve` of cmd/server: any id   *)
(* may be named, one that does not exist or is revoked too.                 *)
TokenCommands == CreateToken \/ \E t \in 0..nextID : RevokeToken(t)
ReserveCommands ==
    \E n \in Names : UnreserveSubdomain(n) \/ \E t \in 0..nextID : ReserveSubdomain(t, n)
TCPReserveCommands ==
    \E p \in Ports : UnreserveTCPPort(p) \/ \E t \in 0..nextID : ReserveTCPPort(t, p)

(* The store's life: an operator may give a command at any time, through    *)
(* cmd/server or the admin API, and every server start ensures its token.   *)
StoreNext ==
    \/ TokenCommands \/ ReserveCommands \/ TCPReserveCommands
    \/ \E k \in Secrets : EnsureToken(k)

StoreSpec == StoreInit /\ [][StoreNext]_storeVars

----------------------------------------------------------------------------
(* An id names one secret, for ever: AUTOINCREMENT never hands out an id    *)
(* again and the UNIQUE hash never gives a secret a second row (store.go    *)
(* insertToken, EnsureToken at every server start).                         *)
IdsNameOneSecret ==
    /\ \A j, k \in Secrets :
         tokenRow[j] = tokenRow[k] /\ tokenRow[j] # NoToken => j = k
    /\ \A k \in Secrets : tokenRow[k] < nextID

(* Every reservation belongs to a row of authtokens: the foreign keys, and  *)
(* the absence of any statement that deletes a token.                       *)
ReservationsHaveOwner ==
    /\ \A n \in Names : subOwner[n] # NoToken => RowExists(subOwner[n])
    /\ \A p \in Ports : portOwner[p] # NoToken => RowExists(portOwner[p])

(* A revoked secret is never accepted again, whatever is called afterwards: *)
(* in particular EnsureToken(bootstrap token) at a restart does not revive  *)
(* it.                                                                      *)
RevocationIsPermanent ==
    [][\A k \in Secrets :
         tokenRow[k] \in revoked => ~ValidateToken(k)']_storeVars

(* A reservation never passes from one token to another in one step: an     *)
(* explicit Unreserve comes between.                                        *)
ReservationsAreNotStolen ==
    [][/\ \A n \in Names : subOwner[n] # NoToken
                             => subOwner'[n] \in {subOwner[n], NoToken}
       /\ \A p \in Ports : portOwner[p] # NoToken
                             => portOwner'[p] \in {portOwner[p], NoToken}]_storeVars
================================================================================
