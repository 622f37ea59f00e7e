---------------------------- MODULE Registration ----------------------------
(***************************************************************************)
(* DllRegisterServer and DllUnregisterServer (dllmain.cpp), as regsvr32    *)
(* calls them for the installer.  Every call to the registry may fail, and *)
(* no failure is looked at; the process may be ended between two calls.    *)
(***************************************************************************)
EXTENDS Naturals, Sequences

CONSTANT MaxFailures \* how many calls of one function fail

VARIABLES
  registry, \* the keys of the extension, and the values in them
  regsvr32  \* the function it has called last, the calls that are done, and their failures

registryVars == <<registry, regsvr32>>

Entry(key, value) == [key |-> key, value |-> value]
Key(key) == Entry(key, "key")

\* The calls of setRegValue in DllRegisterServer, in their order.
Written ==
  <<Entry("CLSID", "default"), Entry("CLSID", "AppID"),
    Entry("InProcServer32", "default"), Entry("InProcServer32", "ThreadingModel"),
    Entry("AppID", "DllSurrogate"), Entry("Files", "default"),
    Entry("Directories", "default"), Entry("Approved", "default")>>

\* Mutant: the class is deleted before the key below it.
Deleted_ClassFirst == <<"Files", "Directories", "CLSID", "InProcServer32", "AppID", "Approved">>

\* The calls of RegDeleteKey in DllUnregisterServer, and that of RegDeleteValue.
Deleted == <<"Files", "Directories", "InProcServer32", "CLSID", "AppID", "Approved">>

\* RegCreateKeyEx makes the keys above as well; "Approved" is a key of Windows.
KeysOf(key) ==
  CASE key = "InProcServer32" -> {Key("CLSID"), Key("InProcServer32")}
    [] key = "Approved" -> {}
    [] OTHER -> {Key(key)}

Complete == UNION {KeysOf(Written[i].key) \union {Written[i]} : i \in DOMAIN Written}

Calls == [none |-> 0, register |-> Len(Written), unregister |-> Len(Deleted)]
Returned == regsvr32.done = Calls[regsvr32.function]

-----------------------------------------------------------------------------
Init ==
  /\ registry = {}
  /\ regsvr32 = [function |-> "none", done |-> 0, failures |-> 0]

\* Also while the last function has not returned: its process was ended.
Run(function) ==
  /\ regsvr32' = [function |-> function, done |-> 0, failures |-> 0]
  /\ UNCHANGED registry

CallSucceeds(entries) ==
  /\ registry' = entries
  /\ regsvr32' = [regsvr32 EXCEPT !.done = @ + 1]

CallFails(entries) ==
  /\ regsvr32.failures < MaxFailures
  /\ registry' = entries
  /\ regsvr32' = [regsvr32 EXCEPT !.done = @ + 1, !.failures = @ + 1]

\* The key is not made, or its value is not set.
DllRegisterServer ==
  /\ regsvr32.function = "register" /\ ~Returned
  /\ LET entry == Written[regsvr32.done + 1]
         keys == registry \union KeysOf(entry.key)
     IN CallSucceeds(keys \union {entry}) \/ CallFails(registry) \/ CallFails(keys)

\* RegDeleteKey refuses a key that has keys below it.
DllUnregisterServer ==
  /\ regsvr32.function = "unregister" /\ ~Returned
  /\ LET key == Deleted[regsvr32.done + 1]
         refused == key = "CLSID" /\ Key("InProcServer32") \in registry
     IN \/ CallSucceeds(IF refused THEN registry ELSE {e \in registry : e.key # key})
        \/ CallFails(registry)

Next ==
  \/ \E function \in {"register", "unregister"} : Run(function)
  \/ DllRegisterServer
  \/ DllUnregisterServer

-----------------------------------------------------------------------------
(* Properties *)

\* Whatever earlier registrations have left that failed or were ended halfway, one in
\* which no call fails leaves every entry, and such an unregistration leaves none.
RegistrationIsWhole ==
  Returned /\ regsvr32.failures = 0 =>
    CASE regsvr32.function = "register" -> registry = Complete
      [] regsvr32.function = "unregister" -> registry = {}
      [] OTHER -> TRUE
=============================================================================
