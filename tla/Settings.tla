------------------------------- MODULE Settings -------------------------------
(***************************************************************************)
(* The settings of a process (config/settings.py) and the choice of its    *)
(* providers (providers/factory.py).  A setting is a record: its mode,     *)
(* whether the broker-write flag is set, the fields that are not blank and *)
(* the provider named for each kind of data.                               *)
(***************************************************************************)
EXTENDS FiniteSets

CONSTANTS
  Registered,  \* kind of data -> the names of its registry, "sample" included
  Blank        \* the name of a provider that is not set

Kinds == {"market_data", "news", "filings"}
ASSUME SettingsAssumption == \A k \in Kinds : "sample" \in Registered[k] /\ Blank \notin Registered[k]

RequiredInReal ==
  {"database_url", "market_data_provider", "market_data_base_url", "market_data_api_key",
   "freellm_api_base", "freellm_api_key"}
Watched ==
  RequiredInReal \cup
    {"redis_url", "object_store_endpoint", "news_provider", "web_search_provider",
     "exchange_filings_provider"}

NamedBy == [market_data |-> "market_data_provider", news |-> "news_provider",
            filings |-> "exchange_filings_provider"]
Settings(mode, brokerWrite, present, named) ==
  [mode |-> mode, brokerWrite |-> brokerWrite,
   present |-> present \cup {NamedBy[k] : k \in {j \in Kinds : named[j] # Blank}},
   named |-> named]

MissingRealConfig(s) == RequiredInReal \ s.present

\* _enforce_mode: the settings a process does not start with (ConfigError).
Refused(s) == s.brokerWrite \/ (s.mode = "real" /\ MissingRealConfig(s) # {})

DataMode(s) == IF s.mode = "real" THEN "REAL" ELSE "DEMO"

\* startup_report: which fields are set, never what they are set to.
StartupReport(s) == [f \in Watched |-> IF f \in s.present THEN "SET" ELSE "MISSING"]

NotConfigured(s, k) == s.mode = "real" /\ s.named[k] \notin Registered[k]

\* _select: the provider a kind of data comes from.
Select(s, k) == IF s.mode # "real" THEN "sample" ELSE s.named[k]

ProviderReport(s) ==
  [k \in Kinds |->
     LET name == IF s.mode # "real" THEN "sample" ELSE s.named[k]
     IN [configured |-> name, available |-> name \in Registered[k]]]
===============================================================================
