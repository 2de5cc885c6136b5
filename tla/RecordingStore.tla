--------------------------- MODULE RecordingStore ---------------------------
(***************************************************************************)
(* What `cmakedb record` promises of the databases it writes.  A database  *)
(* holds nothing or a recording of one configure; it appears as a whole,   *)
(* by the job that ran that configure.  Events and build graph are those   *)
(* of the sources the configure read, and the syntax trees those of some   *)
(* text the sources had between the start of the job and its end.          *)
(***************************************************************************)
EXTENDS Naturals

CONSTANTS
    Jobs,   \* calls of record()
    DbOf,   \* the database each writes
    None

VARIABLES
    now,    \* the version of the sources
    begun,  \* the version a running job started from, None for the others
    store   \* the recording in each database

svars == <<now, begun, store>>

Dbs == {DbOf[j] : j \in Jobs}

SInit ==
    /\ now = 0
    /\ begun = [j \in Jobs |-> None]
    /\ store = [d \in Dbs |-> None]

Edit ==
    /\ now' = now + 1
    /\ UNCHANGED <<begun, store>>

Begin(j) ==
    /\ begun[j] = None
    /\ \A k \in Jobs : DbOf[k] = DbOf[j] => begun[k] = None
    /\ begun' = [begun EXCEPT ![j] = now]
    /\ UNCHANGED <<now, store>>

Publish(j) ==
    /\ begun[j] # None
    /\ \E text \in begun[j]..now :
          store' = [store EXCEPT ![DbOf[j]] =
                      [job |-> j, ran |-> begun[j], graph |-> begun[j], text |-> text]]
    /\ UNCHANGED <<now, begun>>

\* The old recording may be gone before the new one is there, and for good
\* when the job fails or dies.
Withdraw(j) ==
    /\ begun[j] # None
    /\ store' = [store EXCEPT ![DbOf[j]] = None]
    /\ begun' \in {begun, [begun EXCEPT ![j] = None]}
    /\ UNCHANGED now

Stop(j) ==
    /\ begun[j] # None
    /\ begun' = [begun EXCEPT ![j] = None]
    /\ UNCHANGED <<now, store>>

SNext == Edit \/ \E j \in Jobs : Begin(j) \/ Publish(j) \/ Withdraw(j) \/ Stop(j)

SSpec == SInit /\ [][SNext]_svars

=============================================================================
