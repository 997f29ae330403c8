--------------------------- MODULE BranchSettings ---------------------------
(***************************************************************************)
(* The settings of a branch (branch/branch.controller.ts) and the platform's *)
(* list of payment providers (admin/admin.service.ts): one JSON value per    *)
(* row, read, merged with what a page posts and saved whole.  Secrets are    *)
(* encrypted in the row and masked on every page; a mask that a page posts   *)
(* back means "unchanged" (payment/provider-secrets.ts).                     *)
(*                                                                           *)
(* What a provider is verified with is one value, the `key`: a secret that   *)
(* is masked, or, for the providers that sign with RSA, a public key that is *)
(* shown as it is.  Which of the two is asked for, and whether one is asked  *)
(* for at all, is up to the type and the verification method stored with it. *)
(* A restart may come with another encryption key.  Removal of a branch is   *)
(* left out: its staff and subscription hold it in place.                    *)
(***************************************************************************)
EXTENDS Naturals, FiniteSets

CONSTANTS
  Providers,          \* names of the providers with a webhook of their own
  Rsa,                \* those whose webhook is verified by a public key, of the others by a secret
  TerminalProvider,   \* the provider of the card terminals (POS_TERMINAL_PROVIDER)
  PostedLists,        \* bound: the lists of providers a page may post, and may enable
  Descriptions,       \* bound: the types and methods a page may post
  Keys,               \* secrets and public keys somebody may enter
  SettingsCalls,      \* requests in flight at the same time
  MaxSettingsCalls,   \* bound: requests begun in a behaviour
  MaxEpoch,           \* bound: restarts with another encryption key
  NoKey, Mask, NotSet

(* How an entry of payment_providers describes its provider; a page may leave both out. *)
Entry == [type: {"webhook", "other"}, method: {"hmac-sha512", "rsa", "none"}]
Bare == [type |-> "other", method |-> "none"]

ASSUME SettingsAssumption ==
  /\ Rsa \subseteq Providers /\ TerminalProvider \in Providers /\ PostedLists \subseteq SUBSET Providers
  /\ Descriptions \subseteq Entry
  /\ {NoKey, Mask, NotSet} \cap (Keys \cup Providers) = {} /\ NoKey # Mask
  /\ MaxSettingsCalls \in Nat /\ MaxEpoch \in Nat

VARIABLES
  branchRow,      \* settings of the branch
  platformRows,   \* rows of platform_payment_providers
  epoch,          \* the encryption key of the running server
  settingsCalls,  \* the requests in flight, with the row each will save
  settingsBegun,
  page,           \* what a page in somebody's browser was shown of each provider of the branch
  entered,        \* history: what was last entered for a provider, in either row
  overtaken       \* history: the keys an older copy of the row, or an old page's public key, was saved over

settingsVars == <<branchRow, platformRows, epoch, settingsCalls, settingsBegun, page, entered, overtaken>>

Row == {"branch", "platform"}

(* A stored config: the key, the encryption key it is under, if the value is secret and not empty. *)
Config == [key: Keys \cup {NoKey, Mask}, under: 0 .. MaxEpoch]
Blank == [key |-> NoKey, under |-> 0]
PlatformRow == [exists: BOOLEAN, active: BOOLEAN, config: Config]
SettingsRow ==
  [config: [Providers -> Config], entry: [Providers -> Entry], provider: Providers \cup {NotSet},
   listed: SUBSET Providers, enabled: (SUBSET Providers) \cup {NotSet}]

FirstSettings ==
  [config |-> [p \in Providers |-> Blank], entry |-> [p \in Providers |-> Bare], listed |-> {},
   provider |-> NotSet, enabled |-> NotSet]
NoPlatformRow == [exists |-> FALSE, active |-> FALSE, config |-> Blank]
IdleSettingsCall ==
  [at |-> "idle", row |-> FirstSettings, of |-> NotSet, platform |-> NoPlatformRow,
   typed |-> NotSet, value |-> NoKey, older |-> {}, stale |-> FALSE]

SettingsInit ==
  /\ branchRow = FirstSettings
  /\ platformRows = [p \in Providers |-> NoPlatformRow]
  /\ epoch = 0
  /\ settingsCalls = [c \in SettingsCalls |-> IdleSettingsCall]
  /\ settingsBegun = 0
  /\ page = [p \in Providers |-> NoKey]
  /\ entered = [w \in Row |-> [p \in Providers |-> NoKey]]
  /\ overtaken = {}

---------------------------------------------------------------------------
(* What is stored and shown *)

Secret(p) == p \notin Rsa

(* maskSensitiveConfig: what a page gets to see of a config. *)
Shown(p, config) == IF Secret(p) /\ config.key # NoKey THEN Mask ELSE config.key

(* encryptSensitiveConfig encrypts what is not encrypted yet; stripMaskedSecrets drops a mask, so that the *)
(* merge keeps the stored value.  A page leaves out a provider, or sends what it shows, or something else. *)
(* Mutant: a mask is a value like any other. *)
MergedMask(p, config, value) ==
  IF value = NotSet THEN config ELSE [key |-> value, under |-> IF Secret(p) THEN epoch ELSE 0]
Merged(p, config, value) ==
  IF value = NotSet \/ (Secret(p) /\ value = Mask) THEN config
  ELSE [key |-> value, under |-> IF Secret(p) /\ value # NoKey THEN epoch ELSE 0]

(* What the webhook of a provider is verified by; stored with another method, every call of it is refused. *)
OwnMethod(p) == IF p \in Rsa THEN "rsa" ELSE "hmac-sha512"

(* findProviderConfig decrypts; under another key it hands out the cipher text. *)
VerifiesWith(p) ==
  LET config == branchRow.config[p]
  IN IF branchRow.entry[p].method # OwnMethod(p) \/ (Secret(p) /\ config.under # epoch) THEN NotSet ELSE config.key

(* enabled_providers, or else the older single provider. *)
Enabled ==
  IF branchRow.enabled # NotSet THEN branchRow.enabled
  ELSE IF branchRow.provider # NotSet THEN {branchRow.provider} ELSE {}

(* isProviderConfigured: a webhook provider is asked for the key of its stored method, any other for none. *)
Configured(p) ==
  LET entry == branchRow.entry[p]
  IN entry.type = "webhook" => branchRow.config[p].key # NoKey /\ (entry.method = "rsa" <=> p \in Rsa)

(* buildPaymentMethods: the terminals, and the transfers of webhook providers, a guest is told confirm themselves. *)
AutoConfirmed ==
  { p \in Enabled \cap branchRow.listed :
      Configured(p) /\ (p = TerminalProvider \/ branchRow.entry[p].type = "webhook") }

---------------------------------------------------------------------------
(* Requests read the row, *)

Begins(c, call) ==
  /\ settingsCalls[c].at = "idle"
  /\ settingsBegun < MaxSettingsCalls
  /\ settingsBegun' = settingsBegun + 1
  /\ settingsCalls' = [settingsCalls EXCEPT ![c] = call]
  /\ UNCHANGED <<branchRow, platformRows, epoch, page, entered, overtaken>>

Reads(row) == [IdleSettingsCall EXCEPT !.at = "branch", !.row = row]

(* A page is opened, and may stay open for days. *)
OpenPage ==
  /\ page' = [p \in Providers |-> Shown(p, branchRow.config[p])]
  /\ UNCHANGED <<branchRow, platformRows, epoch, settingsCalls, settingsBegun, entered, overtaken>>

(* updateSettings: the page posts some of its providers back as it showed them, and at most one with a key *)
(* somebody typed and a type and method of its own; mergeBranchSettings keeps what the page leaves out.   *)
UpdateSettings(c) ==
  \E sent \in PostedLists \cup {{}}, p \in Providers \cup {NotSet}, k \in Keys,
     e \in Descriptions, enabled \in PostedLists \cup {NotSet} :
    LET value(x) == IF x = p THEN k ELSE IF x \in sent /\ page[x] # NoKey THEN page[x] ELSE NotSet
    IN Begins(c, [Reads([branchRow EXCEPT
                            !.config = [x \in Providers |-> Merged(x, branchRow.config[x], value(x))],
                            !.entry = [x \in Providers |-> IF x = p THEN e ELSE branchRow.entry[x]],
                            !.listed = branchRow.listed \cup ((sent \cup {p}) \cap Providers),
                            !.enabled = IF enabled = NotSet THEN branchRow.enabled ELSE enabled])
                    EXCEPT !.typed = p, !.value = IF p = NotSet THEN NoKey ELSE k,
                           !.older = { x \in (sent \cap Rsa) \ {p} : page[x] # NoKey }])

(* A page of before enabled_providers posts the single provider. *)
ChooseProvider(c) ==
  \E p \in Providers : Begins(c, Reads([branchRow EXCEPT !.provider = p]))

(* updateFeatureFlags, or another change of the branch, saves the providers it read. *)
UpdateFeatureFlags(c) == Begins(c, Reads(branchRow))

(* createPaymentProvider: the name is looked for, and unique in the database. *)
CreatePaymentProvider(c) ==
  \E p \in Providers, k \in Keys \cup {NoKey} :
    /\ ~platformRows[p].exists
    /\ Begins(c, [IdleSettingsCall EXCEPT !.at = "insert", !.of = p, !.typed = p, !.value = k,
                    !.platform = [exists |-> TRUE, active |-> TRUE, config |-> Merged(p, Blank, k)]])

UpdatePaymentProvider(c) ==
  \E p \in Providers, value \in Keys \cup {NotSet, Mask}, active \in BOOLEAN :
    /\ platformRows[p].exists
    /\ LET shown == IF value = Mask THEN Shown(p, platformRows[p].config) ELSE value
       IN Begins(c, [IdleSettingsCall EXCEPT !.at = "platform", !.of = p,
                       !.typed = IF value \in Keys THEN p ELSE NotSet, !.value = IF value \in Keys THEN value ELSE NoKey,
                       !.platform = [exists |-> TRUE, active |-> active,
                                     config |-> Merged(p, platformRows[p].config, shown)]])

---------------------------------------------------------------------------
(* and save it whole. *)

Saved(c) ==
  settingsCalls' = [d \in SettingsCalls |->
    IF d = c THEN IdleSettingsCall
    ELSE [settingsCalls[d] EXCEPT !.stale = settingsCalls[d].at \in {"branch", "platform"}]]

(* Who typed a key, and what an old copy brought back. *)
Entered(w, c) ==
  LET me == settingsCalls[c]
  IN entered' = IF me.typed = NotSet THEN entered ELSE [entered EXCEPT ![w][me.typed] = me.value]
Overtakes(w, c, written) ==
  LET me == settingsCalls[c]
      kept == { <<w, p>> : p \in written \ {me.typed} }
  IN overtaken' = (overtaken \cup (IF me.stale THEN kept ELSE { <<w, p>> : p \in me.older })) \ {<<w, me.typed>>}

SaveSettings(c) ==
  /\ settingsCalls[c].at = "branch"
  /\ branchRow' = settingsCalls[c].row
  /\ Entered("branch", c) /\ Overtakes("branch", c, Providers)
  /\ Saved(c)
  /\ UNCHANGED <<platformRows, epoch, settingsBegun, page>>

InsertProvider(c) ==
  LET me == settingsCalls[c]
  IN /\ me.at = "insert"
     /\ IF platformRows[me.of].exists
        THEN UNCHANGED <<platformRows, entered, overtaken>>
        ELSE /\ platformRows' = [platformRows EXCEPT ![me.of] = me.platform]
             /\ Entered("platform", c) /\ Overtakes("platform", c, {me.of})
     /\ Saved(c)
     /\ UNCHANGED <<branchRow, epoch, settingsBegun, page>>

SaveProvider(c) ==
  LET me == settingsCalls[c]
  IN /\ me.at = "platform"
     /\ platformRows' = [platformRows EXCEPT ![me.of] = me.platform]
     /\ Entered("platform", c) /\ Overtakes("platform", c, {me.of})
     /\ Saved(c)
     /\ UNCHANGED <<branchRow, epoch, settingsBegun, page>>

RemovePaymentProvider(c) ==
  \E p \in Providers :
    /\ settingsCalls[c].at = "idle"
    /\ settingsBegun < MaxSettingsCalls /\ settingsBegun' = settingsBegun + 1
    /\ platformRows[p].exists
    /\ platformRows' = [platformRows EXCEPT ![p] = NoPlatformRow]
    /\ entered' = [entered EXCEPT !["platform"][p] = NoKey]
    /\ overtaken' = overtaken \ {<<"platform", p>>}
    /\ Saved(c)
    /\ UNCHANGED <<branchRow, epoch, page>>

(* The server stops, and may come back with another ENCRYPTION_KEY or JWT_SECRET. *)
RestartWithKey ==
  /\ epoch < MaxEpoch
  /\ epoch' = epoch + 1
  /\ settingsCalls' = [c \in SettingsCalls |-> IdleSettingsCall]
  /\ UNCHANGED <<branchRow, platformRows, settingsBegun, page, entered, overtaken>>

SettingsNext ==
  \/ \E c \in SettingsCalls :
       \/ UpdateSettings(c) \/ ChooseProvider(c) \/ UpdateFeatureFlags(c)
       \/ CreatePaymentProvider(c) \/ UpdatePaymentProvider(c) \/ RemovePaymentProvider(c)
       \/ SaveSettings(c) \/ InsertProvider(c) \/ SaveProvider(c)
  \/ OpenPage \/ RestartWithKey

SettingsSpec == SettingsInit /\ [][SettingsNext]_settingsVars

---------------------------------------------------------------------------
(* Rows, requests and histories have their types. *)
SettingsTypeOK ==
  /\ branchRow \in SettingsRow
  /\ platformRows \in [Providers -> PlatformRow]
  /\ epoch \in 0 .. MaxEpoch
  /\ settingsCalls \in [SettingsCalls ->
       [at: {"idle", "branch", "insert", "platform"}, row: SettingsRow, of: Providers \cup {NotSet},
        platform: PlatformRow, typed: Providers \cup {NotSet}, value: Keys \cup {NoKey}, older: SUBSET Rsa, stale: BOOLEAN]]
  /\ page \in [Providers -> Keys \cup {NoKey, Mask}]
  /\ settingsBegun \in 0 .. MaxSettingsCalls
  /\ entered \in [Row -> [Providers -> Keys \cup {NoKey}]]
  /\ overtaken \subseteq Row \X Providers

(* The key a provider is stored with is the last one somebody typed for it, whatever the pages post back: *)
(* only a request that saves a row it read before another save brings an older one back, and a public key, *)
(* which is shown unmasked, an old page.                                                                   *)
StoredKeyIsEntered ==
  \A p \in Providers :
    /\ branchRow.config[p].key = entered["branch"][p] \/ <<"branch", p>> \in overtaken
    /\ platformRows[p].config.key = entered["platform"][p] \/ <<"platform", p>> \in overtaken

(* Where the stored type is "webhook" and the method the one its webhook asks for, a guest is told that a   *)
(* payment confirms itself only if the webhook is verified with a key, the last one somebody typed, unless *)
(* an older copy was saved or the server came back with another encryption key.  Of another type, or with  *)
(* no method, the code promises the confirmation with no key, or without ever using it                      *)
(* (payment-provider.util.ts:62, payment.controller.ts:557): nothing is claimed of those.                   *)
AutoConfirmedIsVerified ==
  \A p \in AutoConfirmed :
    branchRow.entry[p] = [type |-> "webhook", method |-> OwnMethod(p)]
      => \/ VerifiesWith(p) \in Keys /\ VerifiesWith(p) = entered["branch"][p]
         \/ <<"branch", p>> \in overtaken \/ branchRow.config[p].under < epoch

(* Both: what is stored, and what is promised of it. *)
KeysAreEntered == StoredKeyIsEntered /\ AutoConfirmedIsVerified

=============================================================================
