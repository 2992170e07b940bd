------------------------- MODULE ConfigEntriesProofs -------------------------
(***************************************************************************)
(* Proofs of ConfigEntries' invariants for any entries, devices, addresses *)
(* and any results of account searches, and the safety half of discovery's *)
(* recovery: it is never stuck, and each of its corrections is progress.   *)
(***************************************************************************)
EXTENDS ConfigEntries, FiniteSetTheorems, TLAPS

USE DEF controllers, HistoryEnds

\* What a setup in progress or completed was built from.
BuiltFromEntry ==
  \A e \in Entries :
    /\ state[e] \in {"setting_up", "loaded"} /\ e \notin reloads \cup missed =>
         runtime[e] = data[e]
    /\ state[e] \in {"setting_up", "loaded"} /\ e \notin reloads => e \notin outdated

\* Only entries that exist are set up.
SetUpExists == \A e \in Entries : state[e] # "unloaded" => Exists(e)

IInv == TypeOK /\ AddressesUnique /\ BuiltFromEntry /\ SetUpExists

-----------------------------------------------------------------------------
(* Device lists.                                                           *)

\* A function on some devices is a device list.
LEMMA ListType ==
  ASSUME NEW s \in SUBSET Devices, NEW list \in [s -> Addresses]
  PROVE  list \in DeviceLists
  BY DEF DeviceLists

\* A device list is a function on its domain.
LEMMA ListDomain ==
  ASSUME NEW list \in DeviceLists
  PROVE  /\ DOMAIN list \in SUBSET Devices
         /\ list \in [DOMAIN list -> Addresses]
  BY DEF DeviceLists

\* The empty list.
LEMMA NoDevicesType == NoDevices \in DeviceLists
<1>1. NoDevices \in [{} -> Addresses]
  BY DEF NoDevices
<1> QED
  BY <1>1, ListType

-----------------------------------------------------------------------------
(* The steps that change a list.                                           *)

\* Storing a list that _conflicts accepts keeps all addresses unique.
LEMMA StoreUnique ==
  ASSUME data \in [Entries -> DeviceLists], AddressesUnique,
         NEW e \in Entries, NEW list \in DeviceLists, ~Conflicts(e, list),
         data' = [data EXCEPT ![e] = list]
  PROVE  AddressesUnique'
<1>1. data'[e] = list /\ \A f \in Entries \ {e} : data'[f] = data[f]
  OBVIOUS
<1> SUFFICES ASSUME NEW f \in Entries, NEW g \in Entries,
                    NEW c \in DOMAIN data'[f], NEW d \in DOMAIN data'[g],
                    <<f, c>> # <<g, d>>
             PROVE  c # d /\ data'[f][c] # data'[g][d]
  BY DEF AddressesUnique
<1>2. CASE f = e /\ g = e
  BY <1>1, <1>2 DEF Conflicts
<1>3. CASE f = e /\ g # e
  BY <1>1, <1>3 DEF Conflicts, Listed
<1>4. CASE f # e /\ g = e
  BY <1>1, <1>4 DEF Conflicts, Listed
<1>5. CASE f # e /\ g # e
  BY <1>1, <1>5 DEF AddressesUnique
<1> QED
  BY <1>2, <1>3, <1>4, <1>5

\* _save_devices of an existing entry preserves the invariant.
LEMMA SaveStep ==
  ASSUME IInv, NEW e \in Entries, NEW list \in DeviceLists, Save(e, list),
         DOMAIN list # {},
         form' \in Forms \cup {NoForm}
  PROVE  IInv'
<1> USE DEF IInv, TypeOK
<1>1. data' = [data EXCEPT ![e] = list] /\ ~Conflicts(e, list)
  BY DEF Save
<1>2. AddressesUnique'
  BY <1>1, StoreUnique
<1>3. TypeOK'
  BY DEF Save
<1>4. BuiltFromEntry'
  BY DEF Save, BuiltFromEntry, HasListener
<1>5. SetUpExists'
  BY DEF Save, SetUpExists, Exists, NoDevices
<1> QED
  BY <1>2, <1>3, <1>4, <1>5

\* Creating an entry does too.
LEMMA CreateStep ==
  ASSUME IInv, NEW e \in Entries, NEW list \in DeviceLists, Create(e, list),
         DOMAIN list # {},
         form' \in Forms \cup {NoForm}
  PROVE  IInv'
<1> USE DEF IInv, TypeOK
<1>1. data' = [data EXCEPT ![e] = list] /\ ~Conflicts(e, list)
  BY DEF Create
<1>2. AddressesUnique'
  BY <1>1, StoreUnique
<1>3. TypeOK'
  BY DEF Create
<1>4. BuiltFromEntry'
  BY DEF Create, BuiltFromEntry, SetUpExists
<1>5. SetUpExists'
  BY DEF Create, SetUpExists, Exists, NoDevices
<1> QED
  BY <1>2, <1>3, <1>4, <1>5

\* async_step_manual.
LEMMA AddDeviceStep ==
  ASSUME IInv, NEW e \in Entries, NEW r \in Reach, AddDevice(e, r[1], r[2])
  PROVE  IInv'
<1> DEFINE list == [x \in DOMAIN data[e] \cup {r[1]} |-> IF x = r[1] THEN r[2] ELSE data[e][x]]
<1>1. r[1] \in Devices /\ r[2] \in Addresses
  BY ReachAssumption
<1>2. /\ DOMAIN data[e] \in SUBSET Devices
      /\ data[e] \in [DOMAIN data[e] -> Addresses]
  BY ListDomain DEF IInv, TypeOK
<1>3. list \in [DOMAIN data[e] \cup {r[1]} -> Addresses]
  BY <1>1, <1>2
<1>4. list \in DeviceLists /\ DOMAIN list # {}
  BY <1>1, <1>2, <1>3, ListType
<1>5. form' \in Forms \cup {NoForm} /\ (Save(e, list) \/ Create(e, list))
  BY DEF IInv, TypeOK, AddDevice
<1> HIDE DEF list
<1> QED
  BY <1>4, <1>5, SaveStep, CreateStep

\* async_step_edit_ip.
LEMMA EditAddressStep ==
  ASSUME IInv, NEW e \in Entries, NEW r \in Reach, EditAddress(e, r[1], r[2])
  PROVE  IInv'
<1> DEFINE list == [data[e] EXCEPT ![r[1]] = r[2]]
<1>1. r[1] \in DOMAIN data[e] /\ r[2] \in Addresses
  BY ReachAssumption DEF EditAddress, Listed
<1>2. /\ DOMAIN data[e] \in SUBSET Devices
      /\ data[e] \in [DOMAIN data[e] -> Addresses]
  BY ListDomain DEF IInv, TypeOK
<1>3. list \in [DOMAIN data[e] -> Addresses]
  BY <1>1, <1>2
<1>4. list \in DeviceLists /\ DOMAIN list # {}
  BY <1>1, <1>2, <1>3, ListType
<1>5. form' \in Forms \cup {NoForm} /\ Save(e, list)
  BY DEF IInv, TypeOK, EditAddress
<1> HIDE DEF list
<1> QED
  BY <1>4, <1>5, SaveStep

\* async_step_select_devices.
LEMMA SubmitFormStep ==
  ASSUME IInv, NEW selected \in SUBSET Devices, SubmitForm(selected)
  PROVE  IInv'
<1> DEFINE list == [d \in selected |-> form.devices[d]]
<1>1. form.entry \in Entries /\ form.devices \in DeviceLists
  BY DEF IInv, TypeOK, SubmitForm, Forms
<1>2. form.devices \in [DOMAIN form.devices -> Addresses]
  BY <1>1, ListDomain
<1>3. selected # {} /\ selected \subseteq DOMAIN form.devices
  BY DEF SubmitForm
<1>4. list \in [selected -> Addresses]
  BY <1>2, <1>3
<1>5. list \in DeviceLists /\ DOMAIN list # {}
  BY <1>3, <1>4, ListType
<1>6. form' \in Forms \cup {NoForm} /\ (Save(form.entry, list) \/ Create(form.entry, list))
  BY DEF SubmitForm
<1> HIDE DEF list
<1> QED
  BY <1>1, <1>5, <1>6, SaveStep, CreateStep

\* async_step_manage_devices and async_step_cloud only open the form.
LEMMA OpenFormStep ==
  ASSUME IInv, NEW e \in Entries, NEW found \in Found, OpenForm(e, found)
  PROVE  IInv'
<1> DEFINE s == DOMAIN data[e] \cup DOMAIN found
           list == [d \in s |-> IF d \in DOMAIN found THEN found[d] ELSE data[e][d]]
<1>1. /\ DOMAIN data[e] \in SUBSET Devices /\ DOMAIN found \in SUBSET Devices
      /\ data[e] \in [DOMAIN data[e] -> Addresses] /\ found \in [DOMAIN found -> Addresses]
  BY ListDomain, FoundAssumption DEF IInv, TypeOK
<1>2. s \in SUBSET Devices /\ list \in [s -> Addresses]
  BY <1>1
<1>3. form' = [entry |-> e, devices |-> list] /\ list \in DeviceLists
  BY <1>2, ListType DEF OpenForm
<1>4. UNCHANGED <<data, disabled, controllers, reloads, unit, missed>>
  BY DEF OpenForm
<1> HIDE DEF list
<1>5. form' \in Forms
  BY <1>3 DEF Forms
<1> QED
  BY <1>4, <1>5 DEF IInv, TypeOK, AddressesUnique, BuiltFromEntry, SetUpExists, Exists

\* async_step_dhcp: the reload is scheduled in any case.
LEMMA DhcpStep ==
  ASSUME IInv, NEW d \in Devices, Dhcp(d)
  PROVE  IInv'
<1> USE DEF IInv, TypeOK
<1>1. PICK e \in Entries :
        /\ d \in DOMAIN data[e]
        /\ ~Conflicts(e, [data[e] EXCEPT ![d] = unit[d]])
        /\ data' = [data EXCEPT ![e][d] = unit[d]]
        /\ reloads' = reloads \cup {e}
        /\ UNCHANGED <<disabled, controllers, form, unit, missed>>
  BY DEF Dhcp, Corrects, Listed
<1> DEFINE list == [data[e] EXCEPT ![d] = unit[d]]
<1>2. /\ DOMAIN data[e] \in SUBSET Devices
      /\ data[e] \in [DOMAIN data[e] -> Addresses]
  BY ListDomain
<1>3. list \in [DOMAIN data[e] -> Addresses]
  BY <1>2
<1>4. list \in DeviceLists /\ DOMAIN list # {}
  BY <1>1, <1>2, <1>3, ListType
<1>5. data' = [data EXCEPT ![e] = list] /\ ~Conflicts(e, list)
  BY <1>1
<1> HIDE DEF list
<1>6. AddressesUnique'
  BY <1>4, <1>5, StoreUnique
<1>7. TypeOK'
  BY <1>1, <1>4, <1>5
<1>8. BuiltFromEntry'
  BY <1>1, <1>5 DEF BuiltFromEntry
<1>9. SetUpExists'
  BY <1>1, <1>4, <1>5 DEF SetUpExists, Exists, NoDevices
<1> QED
  BY <1>6, <1>7, <1>8, <1>9

-----------------------------------------------------------------------------
(* The steps of Home Assistant and the controllers.                        *)

\* Setting up, unloading and reloading an entry.
LEMMA HousekeepingStep ==
  ASSUME IInv, Housekeeping
  PROVE  IInv'
<1> USE NoDevicesType DEF IInv, TypeOK
<1>1. PICK e \in Entries :
        \/ StartSetup(e) \/ SetupDone(e) \/ SetupFails(e)
        \/ Reload(e) \/ Unloaded(e) \/ UnloadRefused(e)
  BY DEF Housekeeping
<1>2. data' = data /\ AddressesUnique'
  BY <1>1 DEF StartSetup, SetupDone, SetupFails, Reload, Unloaded, UnloadRefused,
              AddressesUnique
<1>3. CASE StartSetup(e)
  BY <1>2, <1>3 DEF StartSetup, BuiltFromEntry, SetUpExists, Exists
<1>4. CASE SetupDone(e)
  BY <1>2, <1>4 DEF SetupDone, BuiltFromEntry, SetUpExists, Exists
<1>5. CASE SetupFails(e)
  BY <1>2, <1>5 DEF SetupFails, BuiltFromEntry, SetUpExists, Exists
<1>6. CASE Reload(e)
  BY <1>2, <1>6 DEF Reload, BuiltFromEntry, SetUpExists, Exists
<1>7. CASE Unloaded(e)
  BY <1>2, <1>7 DEF Unloaded, BuiltFromEntry, SetUpExists, Exists
<1>8. CASE UnloadRefused(e)
  BY <1>2, <1>8 DEF UnloadRefused, BuiltFromEntry, SetUpExists, Exists
<1> QED
  BY <1>1, <1>3, <1>4, <1>5, <1>6, <1>7, <1>8

\* Deleting an entry.
LEMMA RemoveStep ==
  ASSUME IInv, NEW e \in Entries, Remove(e)
  PROVE  IInv'
<1> USE NoDevicesType DEF IInv, TypeOK
<1>1. TypeOK'
  BY DEF Remove
<1>2. /\ data'[e] = NoDevices /\ state'[e] = "unloaded"
      /\ \A f \in Entries \ {e} : /\ data'[f] = data[f] /\ state'[f] = state[f]
                                  /\ runtime'[f] = runtime[f]
      /\ reloads' = reloads \ {e} /\ missed' = missed \ {e} /\ outdated' = outdated \ {e}
  BY DEF Remove
<1>3. AddressesUnique'
  BY <1>2 DEF AddressesUnique, NoDevices
<1>4. BuiltFromEntry'
  BY <1>2 DEF BuiltFromEntry
<1>5. SetUpExists'
  BY <1>2 DEF SetUpExists, Exists
<1> QED
  BY <1>1, <1>3, <1>4, <1>5

\* Changed options schedule a reload in any case.
LEMMA SaveOptionsStep ==
  ASSUME IInv, NEW e \in Entries, SaveOptions(e)
  PROVE  IInv'
<1> USE DEF IInv, TypeOK
<1>1. TypeOK' /\ AddressesUnique'
  BY DEF SaveOptions, AddressesUnique
<1>2. BuiltFromEntry'
  BY DEF SaveOptions, BuiltFromEntry
<1>3. SetUpExists'
  BY DEF SaveOptions, SetUpExists, Exists
<1> QED
  BY <1>1, <1>2, <1>3

\* Disabling and enabling an entry.
LEMMA SetDisabledStep ==
  ASSUME IInv, NEW e \in Entries, SetDisabled(e)
  PROVE  IInv'
<1> USE DEF IInv, TypeOK
<1>1. TypeOK' /\ AddressesUnique'
  BY DEF SetDisabled, AddressesUnique
<1>2. BuiltFromEntry'
  BY DEF SetDisabled, BuiltFromEntry
<1>3. SetUpExists'
  BY DEF SetDisabled, SetUpExists, Exists
<1> QED
  BY <1>1, <1>2, <1>3

-----------------------------------------------------------------------------
\* Every reachable state satisfies the invariant.
LEMMA Invariant == Spec => []IInv
<1>1. Init => IInv
  BY NoDevicesType
  DEF Init, IInv, TypeOK, AddressesUnique, BuiltFromEntry, SetUpExists, NoDevices
<1>2. IInv /\ [Next]_vars => IInv'
  <2> SUFFICES ASSUME IInv, [Next]_vars PROVE IInv'
    OBVIOUS
  <2>1. ASSUME NEW e \in Entries, NEW r \in Reach,
               AddDevice(e, r[1], r[2]) \/ EditAddress(e, r[1], r[2])
        PROVE  IInv'
    BY <2>1, AddDeviceStep, EditAddressStep
  <2>2. ASSUME NEW e \in Entries, NEW found \in Found, OpenForm(e, found)
        PROVE  IInv'
    BY <2>2, OpenFormStep
  <2>3. ASSUME NEW selected \in SUBSET Devices, SubmitForm(selected)
        PROVE  IInv'
    BY <2>3, SubmitFormStep
  <2>4. ASSUME NEW e \in Entries, Remove(e)
        PROVE  IInv'
    BY <2>4, RemoveStep
  <2>5. CASE CloseForm
    BY <2>5
    DEF CloseForm, IInv, TypeOK, AddressesUnique, BuiltFromEntry, SetUpExists, Exists
  <2>6. ASSUME NEW r \in Reach, Move(r[1], r[2])
        PROVE  IInv'
    BY <2>6, ReachAssumption
    DEF Move, IInv, TypeOK, AddressesUnique, BuiltFromEntry, SetUpExists, Exists
  <2>7. CASE Discovery
    BY <2>7, DhcpStep DEF Discovery
  <2>8. CASE Housekeeping
    BY <2>8, HousekeepingStep
  <2>9. ASSUME NEW e \in Tuned, SaveOptions(e) \/ SetDisabled(e)
        PROVE  IInv'
    BY <2>9, TunedAssumption, SaveOptionsStep, SetDisabledStep
  <2>10. CASE UNCHANGED vars
    BY <2>10 DEF vars, IInv, TypeOK, AddressesUnique, BuiltFromEntry, SetUpExists, Exists
  <2> QED
    BY <2>1, <2>2, <2>3, <2>4, <2>5, <2>6, <2>7, <2>8, <2>9, <2>10 DEF Next, Forget
<1> QED
  BY <1>1, <1>2, PTL DEF Spec

\* Types of the lists, the controllers and the form.
THEOREM TypeCorrect == Spec => []TypeOK
<1>1. IInv => TypeOK
  BY DEF IInv
<1> QED
  BY <1>1, Invariant, PTL

\* No MAC or IP address is ever listed twice, however stale the forms are.
THEOREM EntriesShareNothing == Spec => []AddressesUnique
<1>1. IInv => AddressesUnique
  BY DEF IInv
<1> QED
  BY <1>1, Invariant, PTL

\* A loaded entry runs on its present list and options, unless a reload is
\* scheduled, a form saved the list during its setup or an unload was refused.
THEOREM ControllersFollowEntries == Spec => []ControllerFollowsEntry
<1>1. IInv => ControllerFollowsEntry
  BY DEF IInv, BuiltFromEntry, ControllerFollowsEntry
<1> QED
  BY <1>1, Invariant, PTL

\* No step is a form that changes the list of an entry that is being set up.
FormsWait ==
  \A e \in Entries : Save(e, data'[e]) /\ data'[e] # data[e] => state[e] # "setting_up"

\* The only way to a controller that goes on with an old list (the run
\* missed_reload) is a form that changes the list during the entry's set-up:
\* without one, _save_devices' "the existing update listener performs one reload"
\* is true of entries that unload when asked to, whatever discovery, options and
\* other forms do.
THEOREM OnlyFormsInSetupMissed == Spec /\ [][FormsWait]_vars => []ReloadsAfterSave
<1>1. Init => missed = {}
  BY DEF Init
<1>2. IInv /\ missed = {} /\ [Next]_vars /\ [FormsWait]_vars => (missed = {})'
  <2>1. CASE UNCHANGED vars
    BY <2>1 DEF vars
  <2> SUFFICES ASSUME IInv, missed = {}, Next, FormsWait PROVE missed' = {}
    BY <2>1
  <2>2. ASSUME NEW e \in Entries, NEW list, Save(e, list) PROVE missed' = {}
    <3>1. data' = [data EXCEPT ![e] = list] /\ data'[e] = list
      BY <2>2 DEF Save, IInv, TypeOK
    <3>2. list # data[e] => state[e] # "setting_up"
      BY <2>2, <3>1 DEF FormsWait
    <3> QED BY <2>2, <3>2 DEF Save
  <2>3. ASSUME NEW e \in Entries, NEW r \in Reach,
               AddDevice(e, r[1], r[2]) \/ EditAddress(e, r[1], r[2])
        PROVE  missed' = {}
    BY <2>2, <2>3 DEF AddDevice, EditAddress, Create
  <2>4. ASSUME NEW selected \in SUBSET Devices, SubmitForm(selected)
        PROVE  missed' = {}
    BY <2>2, <2>4 DEF SubmitForm, Create, IInv, TypeOK, Forms
  <2>5. ASSUME NEW e \in Entries, NEW found \in Found, OpenForm(e, found)
        PROVE  missed' = {}
    BY <2>5 DEF OpenForm
  <2>6. ASSUME NEW e \in Entries, Forget(e) PROVE missed' = {}
    BY <2>6 DEF Forget, Remove, CloseForm
  <2>7. ASSUME NEW e \in Tuned, SaveOptions(e) \/ SetDisabled(e) PROVE missed' = {}
    BY <2>7 DEF SaveOptions, SetDisabled
  <2>8. ASSUME NEW r \in Reach, Move(r[1], r[2]) PROVE missed' = {}
    BY <2>8 DEF Move
  <2>9. CASE Discovery \/ Housekeeping
    BY <2>9 DEF Discovery, Dhcp, Housekeeping, StartSetup, SetupDone, SetupFails, Reload, Unloaded,
        UnloadRefused
  <2> QED BY <2>3, <2>4, <2>5, <2>6, <2>7, <2>8, <2>9 DEF Next
<1>3. IInv /\ missed = {} => ReloadsAfterSave
  BY DEF IInv, BuiltFromEntry, ReloadsAfterSave
<1> QED
  BY <1>1, <1>2, <1>3, Invariant, PTL DEF Spec
-----------------------------------------------------------------------------
(* Discovery.                                                              *)

\* No two appliances have an address in common.
UnitsDiffer == \A c, d \in Devices : c # d => unit[c] # unit[d]

\* The network only gives out addresses that are free.
LEMMA UnitsInvariant == Spec => []UnitsDiffer
<1>1. Init => UnitsDiffer
  BY DEF Init, UnitsDiffer
<1>2. TypeOK /\ UnitsDiffer /\ [Next]_vars => UnitsDiffer'
  <2> SUFFICES ASSUME TypeOK, UnitsDiffer, [Next]_vars PROVE UnitsDiffer'
    OBVIOUS
  <2>1. CASE unit' = unit
    BY <2>1 DEF UnitsDiffer
  <2>2. ASSUME NEW r \in Reach, Move(r[1], r[2])
        PROVE  UnitsDiffer'
    <3>1. r[1] \in Devices /\ r[2] \notin {unit[x] : x \in Devices}
      BY <2>2, ReachAssumption DEF Move
    <3>2. /\ unit'[r[1]] = r[2]
          /\ \A d \in Devices \ {r[1]} : unit'[d] = unit[d]
      BY <2>2, <3>1 DEF Move, TypeOK
    <3> QED
      BY <3>1, <3>2 DEF UnitsDiffer
  <2>3. unit' = unit \/ \E r \in Reach : Move(r[1], r[2])
    BY DEF Next, vars, AddDevice, EditAddress, OpenForm, SubmitForm, Forget, Remove, CloseForm,
           SaveOptions, SetDisabled, Discovery, Dhcp, Housekeeping, StartSetup, SetupDone,
           SetupFails, Reload, Unloaded, UnloadRefused, Save, Create
  <2> QED
    BY <2>1, <2>2, <2>3
<1> QED
  BY <1>1, <1>2, TypeCorrect, PTL DEF Spec

\* A device has one saved address.
LEMMA SavedAddress ==
  ASSUME AddressesUnique, NEW e \in Entries, NEW d, Listed(e, d)
  PROVE  Saved(d) = data[e][d]
<1>1. PICK f : f = CHOOSE g \in Entries : Listed(g, d)
  OBVIOUS
<1>2. f \in Entries /\ Listed(f, d)
  BY <1>1
<1>3. f = e
  BY <1>2 DEF AddressesUnique, Listed
<1> QED
  BY <1>1, <1>3 DEF Saved

\* No list has the device's new address.
Unlisted(d) == \A f \in Entries : \A g \in DOMAIN data[f] : data[f][g] # unit[d]

\* A device's address can be corrected exactly when no list has the new one.
LEMMA FreeAddress ==
  ASSUME IInv, NEW e \in Entries, NEW d \in Devices, e \notin disabled,
         Listed(e, d), unit[d] # data[e][d]
  PROVE  Corrects(e, d) <=> Unlisted(d)
<1> USE DEF IInv, TypeOK
<1>1. PICK list : list = [data[e] EXCEPT ![d] = unit[d]]
  OBVIOUS
<1>2. /\ data[e] \in [DOMAIN data[e] -> Addresses] /\ d \in DOMAIN data[e]
      /\ DOMAIN list = DOMAIN data[e]
      /\ list[d] = unit[d] /\ \A c \in DOMAIN list \ {d} : list[c] = data[e][c]
  BY <1>1, ListDomain DEF Listed
<1>3. ASSUME ~Conflicts(e, list), NEW f \in Entries, NEW g \in DOMAIN data[f]
      PROVE  data[f][g] # unit[d]
  <2>1. CASE f = e
    BY <1>2, <1>3, <2>1 DEF Conflicts
  <2>2. CASE f # e
    BY <1>2, <1>3, <2>2 DEF Conflicts
  <2> QED
    BY <2>1, <2>2
<1>4. ASSUME Unlisted(d)
      PROVE  ~Conflicts(e, list)
  <2>1. ASSUME NEW c1 \in DOMAIN list, NEW c2 \in DOMAIN list, c1 # c2
        PROVE  list[c1] # list[c2]
    BY <1>2, <1>4, <2>1 DEF AddressesUnique, Unlisted
  <2>2. ASSUME NEW f \in Entries \ {e}, NEW c \in DOMAIN list
        PROVE  ~Listed(f, c) /\ \A g \in DOMAIN data[f] : data[f][g] # list[c]
    BY <1>2, <1>4 DEF AddressesUnique, Listed, Unlisted
  <2> QED
    BY <2>1, <2>2 DEF Conflicts
<1>5. Corrects(e, d) <=> ~Conflicts(e, list)
  BY <1>1 DEF Corrects
<1> QED
  BY <1>3, <1>4, <1>5 DEF Unlisted

\* What stands in the way of a correction is another strayed device, whose
\* saved address is the new one.
LEMMA InTheWay ==
  ASSUME IInv, UnitsDiffer, disabled = {},
         NEW d \in Strayed, \A e \in Entries : ~Corrects(e, d)
  PROVE  \E g \in Strayed : Saved(g) = unit[d]
<1> USE DEF IInv
<1>1. PICK e \in Entries : d \in Devices /\ Listed(e, d) /\ data[e][d] # unit[d]
  BY DEF Strayed
<1>2. PICK f \in Entries : \E g \in DOMAIN data[f] : data[f][g] = unit[d]
  BY <1>1, FreeAddress DEF Unlisted
<1>3. PICK g \in DOMAIN data[f] : data[f][g] = unit[d]
  BY <1>2
<1>4. g # d
  BY <1>1, <1>3 DEF AddressesUnique, Listed
<1>5. g \in Devices
  BY ListDomain DEF TypeOK
<1>6. g \in Strayed /\ Saved(g) = unit[d]
  BY <1>1, <1>3, <1>4, <1>5, SavedAddress DEF UnitsDiffer, Strayed, Listed
<1> QED
  BY <1>6

\* If every correction is in the way of another, the strayed devices, finitely
\* many, have exchanged their addresses.
LEMMA StuckIsRotated ==
  ASSUME IInv, UnitsDiffer, IsFiniteSet(Devices)
  PROVE  SomeAddressCorrectable
<1> SUFFICES ASSUME Strayed # {}, disabled = {},
                    \A d \in Strayed, e \in Entries : ~Corrects(e, d)
             PROVE  Rotated
  BY DEF SomeAddressCorrectable
<1>1. PICK h : h = [d \in Strayed |-> CHOOSE g \in Strayed : Saved(g) = unit[d]]
  OBVIOUS
<1>2. ASSUME NEW d \in Strayed
      PROVE  h[d] \in Strayed /\ Saved(h[d]) = unit[d]
  <2>1. \E g \in Strayed : Saved(g) = unit[d]
    BY InTheWay
  <2> QED
    BY <1>1, <2>1
<1>3. Strayed \in SUBSET Devices /\ IsFiniteSet(Strayed)
  <2>1. Strayed \in SUBSET Devices
    BY DEF Strayed
  <2> QED
    BY <2>1, FS_Subset
<1>4. h \in Injection(Strayed, Strayed)
  <2>1. h \in [Strayed -> Strayed]
    BY <1>1, <1>2
  <2>2. \A c, d \in Strayed : h[c] = h[d] => c = d
    BY <1>2, <1>3 DEF UnitsDiffer
  <2> QED
    BY <2>1, <2>2 DEF Injection, IsInjective
<1>5. \A g \in Strayed : \E d \in Strayed : h[d] = g
  <2>1. h \in Surjection(Strayed, Strayed)
    BY <1>3, <1>4, FS_Injection
  <2> QED
    BY <2>1 DEF Surjection
<1>6. {Saved(g) : g \in Strayed} = {unit[d] : d \in Strayed}
  BY <1>2, <1>5
<1> QED
  BY <1>6 DEF Rotated

\* With finitely many devices discovery is never stuck, however their addresses
\* moved along chains, unless some were exchanged.
THEOREM DiscoveryNeverStuck ==
  ASSUME IsFiniteSet(Devices)
  PROVE  Spec => []SomeAddressCorrectable
<1>1. IInv /\ UnitsDiffer => SomeAddressCorrectable
  BY StuckIsRotated
<1> QED
  BY <1>1, Invariant, UnitsInvariant, PTL

\* A device that keeps its saved address and its own is strayed as before.
LEMMA SameAddresses ==
  ASSUME IInv, IInv', NEW c \in Strayed', NEW e \in Entries, Listed(e, c), Listed(e, c)',
         data'[e][c] = data[e][c], unit' = unit
  PROVE  c \in Strayed /\ Saved(c)' = Saved(c)
<1> USE DEF IInv
<1>1. Saved(c) = data[e][c]
  BY SavedAddress
<1>2. Saved(c)' = data'[e][c]
  <2>1. PICK f : f = CHOOSE g \in Entries : Listed(g, c)'
    OBVIOUS
  <2>2. f = e
    BY <2>1 DEF AddressesUnique, Listed
  <2> QED
    BY <2>1, <2>2 DEF Saved
<1>3. PICK f \in Entries : Listed(f, c)' /\ data'[f][c] # unit'[c]
  BY DEF Strayed
<1>4. f = e /\ c \in Devices
  BY <1>3 DEF AddressesUnique, Listed, Strayed
<1> QED
  BY <1>1, <1>2, <1>3, <1>4 DEF Strayed

\* async_step_dhcp corrects one device and leaves the others as they were.
LEMMA DhcpProgress ==
  ASSUME IInv, IInv', UnitsDiffer, NEW d \in Devices, Dhcp(d)
  PROVE  /\ d \in Strayed /\ Strayed' = Strayed \ {d}
         /\ Rotated' => Rotated
         /\ \A c \in Strayed', f \in Entries : Corrects(f, c) => Corrects(f, c)'
<1> USE DEF IInv, TypeOK
<1>1. PICK e \in Entries :
        /\ d \in DOMAIN data[e] /\ unit[d] # data[e][d]
        /\ data' = [data EXCEPT ![e][d] = unit[d]]
        /\ unit' = unit /\ disabled' = disabled
  BY DEF Dhcp, Corrects, Listed
<1>2. data[e] \in [DOMAIN data[e] -> Addresses]
  BY ListDomain
<1>3. /\ \A f \in Entries : DOMAIN data'[f] = DOMAIN data[f]
      /\ data'[e][d] = unit[d]
      /\ \A f \in Entries, c \in Devices :
           c \in DOMAIN data[f] /\ c # d => data'[f][c] = data[f][c]
      /\ \A f \in Entries : d \in DOMAIN data[f] => f = e
  BY <1>1, <1>2 DEF AddressesUnique
<1>4. d \in Strayed
  BY <1>1 DEF Strayed, Listed
<1>5. Strayed' = Strayed \ {d}
  BY <1>1, <1>3 DEF Strayed, Listed
<1>6. ASSUME NEW c \in Strayed' PROVE Saved(c)' = Saved(c)
  <2>1. PICK f \in Entries : c \in DOMAIN data'[f] /\ c \in Devices /\ c # d
    BY <1>5 DEF Strayed, Listed
  <2>2. Listed(f, c) /\ Listed(f, c)' /\ data'[f][c] = data[f][c]
    BY <1>3, <2>1 DEF Listed
  <2> QED
    BY <1>1, <2>2, SameAddresses
<1>7. ASSUME Rotated' PROVE Rotated
  <2>1. PICK s \in SUBSET Strayed' :
          s # {} /\ {Saved(c)' : c \in s} = {unit'[c] : c \in s}
    BY <1>7 DEF Rotated
  <2>2. {Saved(c) : c \in s} = {unit[c] : c \in s}
    <3>1. \A c \in s : Saved(c)' = Saved(c)
      BY <1>6
    <3>2. {Saved(c)' : c \in s} = {Saved(c) : c \in s}
      BY <3>1
    <3>3. {unit'[c] : c \in s} = {unit[c] : c \in s}
      BY <1>1
    <3> QED
      BY <2>1, <3>2, <3>3
  <2> QED
    BY <1>5, <2>1, <2>2 DEF Rotated
<1>8. ASSUME NEW c \in Strayed', NEW f \in Entries, Corrects(f, c)
      PROVE  Corrects(f, c)'
  <2>1. c \in Devices /\ c # d
    BY <1>5 DEF Strayed
  <2>2. f \notin disabled /\ Listed(f, c) /\ unit[c] # data[f][c]
    BY <1>8 DEF Corrects
  <2>3. Unlisted(c)
    BY <1>8, <2>1, <2>2, FreeAddress
  <2>4. f \notin disabled' /\ Listed(f, c)' /\ unit'[c] # data'[f][c]
    BY <1>1, <1>3, <2>1, <2>2 DEF Listed
  <2>5. ASSUME NEW g \in Entries, NEW x \in DOMAIN data'[g] PROVE data'[g][x] # unit'[c]
    <3>1. x \in DOMAIN data[g] /\ x \in Devices
      BY <1>3, ListDomain
    <3>2. CASE x = d
      BY <1>1, <1>3, <2>1, <3>1, <3>2 DEF UnitsDiffer
    <3>3. CASE x # d
      BY <1>1, <1>3, <2>3, <3>1, <3>3 DEF Unlisted
    <3> QED
      BY <3>2, <3>3
  <2>6. PICK list : list = [data'[f] EXCEPT ![c] = unit'[c]]
    OBVIOUS
  <2>7. /\ DOMAIN list = DOMAIN data'[f] /\ list[c] = unit'[c]
        /\ \A x \in DOMAIN list \ {c} : list[x] = data'[f][x]
    BY <2>4, <2>6, ListDomain DEF Listed
  <2>8. ASSUME NEW c1 \in DOMAIN list, NEW c2 \in DOMAIN list, c1 # c2
        PROVE  list[c1] # list[c2]
    BY <2>5, <2>7, <2>8 DEF AddressesUnique
  <2>9. ASSUME NEW g \in Entries \ {f}, NEW x \in DOMAIN list
        PROVE  ~Listed(g, x)' /\ \A y \in DOMAIN data'[g] : data'[g][y] # list[x]
    BY <2>5, <2>7 DEF AddressesUnique, Listed
  <2> QED
    BY <2>4, <2>6, <2>8, <2>9 DEF Corrects, Conflicts
<1> QED
  BY <1>4, <1>5, <1>7, <1>8

\* Each correction is progress, for any entries, devices and addresses.
THEOREM CorrectionsProgress == Spec => DiscoveryProgresses
<1>1. IInv /\ IInv' /\ UnitsDiffer =>
        \A d \in Devices : Dhcp(d) =>
          /\ d \in Strayed /\ Strayed' = Strayed \ {d}
          /\ Rotated' => Rotated
          /\ \A c \in Strayed', e \in Entries : Corrects(e, c) => Corrects(e, c)'
  BY DhcpProgress
<1> QED
  BY <1>1, Invariant, UnitsInvariant, PTL DEF Spec, DiscoveryProgresses
=============================================================================
