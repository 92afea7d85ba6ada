----------------------------- MODULE MCWorkspace ----------------------------
(* Small instances of Workspace for TLC.                                    *)
EXTENDS Workspace, TLC

CONSTANTS c1, c2, a1, i1, i2, d1, d2, s1

(* The second client has a definition, and maybe an import source.          *)
TwoClients ==
  [r \in Accounts \cup ImportSources \cup Definitions |-> IF r \in {i2, d2} THEN c2 ELSE c1]

OneSourceEach == [c \in Clients |-> {s1}]

(* Two directories, and an SFTP host that a directory is no connection for. *)
SomeUsable == {<<"LOCAL_DIRECTORY", "x">>, <<"LOCAL_DIRECTORY", "y">>, <<"SFTP_CONNECTION", "z">>}

ADirectory == {[kind |-> "LOCAL_DIRECTORY", connection |-> "x", enabled |-> TRUE]}

AnotherPlace == {[connection |-> "y"], [kind |-> "SFTP_CONNECTION"]}

AnotherPlaceOrOff == AnotherPlace \cup {[enabled |-> FALSE]}

AnotherPlaceOrNothing == AnotherPlace \cup {[f \in {} |-> None]}

Bank(e) == [type |-> "BANK_GL", account |-> a1, source |-> i1, wanted |-> {s1}, enabled |-> e]

AcrossAccounts(i) ==
  [type |-> "TAX_PAYMENT", account |-> None, source |-> i, wanted |-> {s1}, enabled |-> TRUE]

(* A bank reconciliation that names its account, switched on or off, and    *)
(* one across accounts that reads from some import source or from none.     *)
SomeForms ==
  {Bank(TRUE), Bank(FALSE)} \cup {AcrossAccounts(i) : i \in ImportSources \cup {None}}

FewForms == {Bank(TRUE), Bank(FALSE), AcrossAccounts(i1)}

(* Nothing is there yet.                                                    *)
NoImportSource == [i \in ImportSources |-> None]
NoDefinition == [d \in Definitions |-> None]

(* One client is set up.                                                    *)
Unpolled == [i \in ImportSources |-> [ kind |-> "LOCAL_DIRECTORY", connection |-> "x",
                                       enabled |-> TRUE, status |-> None, message |-> None ]]
BankOnly == [d \in Definitions |-> IF d = d1 THEN Bank(TRUE) ELSE None]

Symmetry == Permutations(Operators)
=============================================================================
