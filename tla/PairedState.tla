---------------------------- MODULE PairedState ----------------------------
(***************************************************************************)
(* moonshine-core's PersistentState: the certificates and client ids that  *)
(* are paired, in memory behind an RwLock, and the state.toml they are     *)
(* saved to.                                                               *)
(*                                                                         *)
(* An operation changes the memory under the write lock, lets go of it,    *)
(* and saves under the read lock.  Savers share that lock, so while one is *)
(* at work the memory does not change; what each writes is what is there.  *)
(* The file is written in place: between its truncation and the end of the *)
(* write it is torn.                                                       *)
(***************************************************************************)
EXTENDS FiniteSets

CONSTANTS
    Machine,    \* client machines, each known by its certificate
    Id,         \* the unique ids that clients send
    Saver       \* the operations that may be saving, one thread each

VARIABLES
    certs,      \* data.paired_certs
    clients,    \* data.clients
    disk,       \* what state.toml holds
    writing     \* the savers that have truncated the file and not finished

stateVars == <<certs, clients, disk, writing>>

Torn == [certs |-> {}, clients |-> {}, torn |-> TRUE]
Data == [certs |-> certs, clients |-> clients, torn |-> FALSE]

StateTypeOK ==
    /\ certs \subseteq Machine
    /\ clients \subseteq Id
    /\ disk \in [certs : SUBSET Machine, clients : SUBSET Id, torn : BOOLEAN]
    /\ writing \subseteq Saver

StateInit ==
    /\ certs = {} /\ clients = {}
    /\ disk = Data
    /\ writing = {}

\* The write lock is free of readers that save.
Unlocked == writing = {}

AddPairedCert(m) ==
    /\ Unlocked
    /\ certs' = certs \cup {m}
    /\ UNCHANGED <<clients, disk, writing>>

AddClient(i) ==
    /\ Unlocked
    /\ clients' = clients \cup {i}
    /\ UNCHANGED <<certs, disk, writing>>

\* remove_paired_cert: with the last certificate every client id goes too.
RemovePairedCert(m) ==
    /\ Unlocked
    /\ certs' = certs \ {m}
    /\ clients' = IF certs \subseteq {m} THEN {} ELSE clients
    /\ UNCHANGED <<disk, writing>>

Truncate(s) ==
    /\ s \notin writing
    /\ writing' = writing \cup {s}
    /\ disk' = Torn
    /\ UNCHANGED <<certs, clients>>

\* The file is whole again when the last of those who write it is done.
Written(s) ==
    /\ s \in writing
    /\ writing' = writing \ {s}
    /\ disk' = IF writing = {s} THEN Data ELSE disk
    /\ UNCHANGED <<certs, clients>>

\* The daemon starts on what the file holds.
Load ==
    /\ ~disk.torn
    /\ certs' = disk.certs /\ clients' = disk.clients
    /\ UNCHANGED <<disk, writing>>

=============================================================================
