------------------------------- MODULE NetUart -------------------------------
(***************************************************************************)
(* Net-UART (net-uart.c): what is typed on the node's console is sent to a *)
(* remote address, or, if it is an address, changes it. The destination    *)
(* stands twice: remote_addr is what is sent to, the configuration holds   *)
(* what is shown and saved. Forms, the console, the defaults and the flash *)
(* change the one or both, partly through events that Contiki delivers     *)
(* later, in order, from a queue that may be full.                         *)
(***************************************************************************)
EXTENDS Naturals, SequencesExt

CONSTANTS
    Addresses,  \* the IPv6 addresses that are looked at
    Default,    \* the hard-coded one, of set_dest_addr
    Ports,      \* the port numbers that are looked at
    REMOTE_PORT,
    QUEUE_SIZE  \* events that Contiki's queue holds

ASSUME AddressesAssumption ==
    Default \in Addresses /\ Addresses \cap {"loaded", "new_config", "other"} = {}
ASSUME PortsAssumption == REMOTE_PORT \in Ports
ASSUME QueueAssumption == QUEUE_SIZE \in Nat \ {0}

(* cc26xx_web_demo_config.net_uart                                         *)
Configs == [remote_address : Addresses, remote_port : Ports, enable : BOOLEAN]
DefaultConfig ==
    [remote_address |-> Default, remote_port |-> REMOTE_PORT, enable |-> TRUE]

(* "loaded" and "new_config" are the demo's events; a line that was typed  *)
(* is the address it spells; "other" stands for other lines, which are sent*)
(* and change nothing, and for the events of other processes.              *)
Events == {"loaded", "new_config", "other"} \cup Addresses

VARIABLES
    remote_addr,
    config,     \* cc26xx_web_demo_config.net_uart
    input,      \* the UART's input is on
    form,       \* config_ok: a form has set something and is not finished
    queue,      \* Contiki's events
    saved,      \* the configuration in the flash, if there is a valid one
    typed,      \* history: an address was typed after it was last configured
    unheard,    \* history: the defaults enabled the UART since it was last set
    spoilt      \* history: a save, a load or an event failed since a good save

uartVars == <<remote_addr, config, input, form, queue, saved, typed, unheard,
              spoilt>>

UartTypeOK ==
    /\ remote_addr \in Addresses
    /\ config \in Configs
    /\ input \in BOOLEAN
    /\ form \in BOOLEAN
    /\ queue \in Seq(Events) /\ Len(queue) <= QUEUE_SIZE
    /\ saved = {} \/ \E c \in Configs : saved = {c}
    /\ typed \in BOOLEAN
    /\ unheard \in BOOLEAN
    /\ spoilt \in BOOLEAN

Pending(e) == e \in Range(queue)

(* process_post, of whose result nobody takes notice.                      *)
Post(e) == queue' = IF Len(queue) < QUEUE_SIZE THEN Append(queue, e) ELSE queue

(* A node whose flash is empty runs with the defaults; the main process    *)
(* announces that it has loaded a configuration in any case. The UART's    *)
(* driver starts without an input.                                         *)
UartInit ==
    /\ remote_addr = Default
    /\ config = DefaultConfig
    /\ input = FALSE
    /\ form = FALSE
    /\ queue = <<"loaded">>
    /\ saved = {}
    /\ typed = FALSE
    /\ unheard = FALSE
    /\ spoilt = FALSE

(* The node restarts: the process sets its defaults; then load_config finds*)
(* a valid configuration, or there is none, or the flash fails.            *)
Reset ==
    /\ remote_addr' = Default
    /\ \/ config' \in saved /\ spoilt' = FALSE
       \/ config' = DefaultConfig /\ spoilt' = (saved # {})
    /\ input' = FALSE
    /\ form' = FALSE
    /\ queue' = <<"loaded">>
    /\ typed' = FALSE
    /\ unheard' = FALSE
    /\ UNCHANGED saved

(* save_config of what the configuration is after the step: the flash does *)
(* not open or erase, or is erased and not written, or all goes well.      *)
SaveConfig ==
    \/ saved' = {config'} /\ spoilt' = FALSE
    \/ saved' \in {saved, {}} /\ spoilt' = TRUE
-------------------------------------------------------------------------------
(* The console.                                                            *)

(* A line is typed while the input is on: serial_line announces it.        *)
TypeLine ==
    /\ input
    /\ \E e \in {"other"} \cup Addresses : Post(e)
    /\ UNCHANGED <<remote_addr, config, input, form, saved, typed, unheard, spoilt>>

(* Any other process posts.                                                *)
OtherPosts ==
    /\ Post("other")
    /\ UNCHANGED <<remote_addr, config, input, form, saved, typed, unheard, spoilt>>

(* set_new_ip_address of a line.                                           *)
GetAddress ==
    /\ remote_addr' = Head(queue)
    /\ typed' = TRUE
    /\ UNCHANGED <<config, input, saved, unheard, spoilt>>

(* Mutant: the address is taken over only if the UART is on.               *)
GetLoadedIfOn ==
    /\ remote_addr' = IF config.enable THEN config.remote_address ELSE remote_addr
    /\ input' = (input \/ config.enable)
    /\ typed' = FALSE
    /\ unheard' = FALSE
    /\ UNCHANGED <<config, saved, spoilt>>

(* cc26xx_web_demo_config_loaded_event                                     *)
GetLoaded ==
    /\ remote_addr' = config.remote_address
    /\ input' = (input \/ config.enable)
    /\ typed' = FALSE
    /\ unheard' = FALSE
    /\ UNCHANGED <<config, saved, spoilt>>

(* httpd_simple_event_new_config: the main process saves.                  *)
GetNewConfig ==
    /\ UNCHANGED <<remote_addr, config, input, typed, unheard>>
    /\ SaveConfig

GetOther == UNCHANGED <<remote_addr, config, input, saved, typed, unheard, spoilt>>

(* Contiki delivers the first event to the processes.                      *)
Deliver ==
    /\ queue # <<>>
    /\ queue' = Tail(queue)
    /\ \/ Head(queue) = "loaded" /\ GetLoaded
       \/ Head(queue) = "new_config" /\ GetNewConfig
       \/ Head(queue) = "other" /\ GetOther
       \/ Head(queue) \in Addresses /\ GetAddress
    /\ UNCHANGED form
-------------------------------------------------------------------------------
(* Forms.                                                                  *)

(* remote_port_post_handler                                                *)
PostPort ==
    /\ \E p \in Ports : config' = [config EXCEPT !.remote_port = p]
    /\ form' = TRUE
    /\ UNCHANGED <<remote_addr, input, queue, saved, typed, unheard, spoilt>>

(* remote_ipv6_post_handler of an address; anything else changes nothing.  *)
PostAddress ==
    /\ \E a \in Addresses :
          /\ remote_addr' = a
          /\ config' = [config EXCEPT !.remote_address = a]
    /\ typed' = FALSE
    /\ form' = TRUE
    /\ UNCHANGED <<input, queue, saved, unheard, spoilt>>

(* Mutant: the input stays on until the next start.                        *)
PostOnOffLater ==
    /\ \E on \in BOOLEAN :
          /\ config' = [config EXCEPT !.enable = on]
          /\ input' = (input \/ on)
    /\ unheard' = FALSE
    /\ form' = TRUE
    /\ UNCHANGED <<remote_addr, queue, saved, typed, spoilt>>

(* on_off_post_handler, with release_uart or keep_uart_on.                 *)
PostOnOff ==
    /\ \E on \in BOOLEAN :
          /\ config' = [config EXCEPT !.enable = on]
          /\ input' = on
    /\ unheard' = FALSE
    /\ form' = TRUE
    /\ UNCHANGED <<remote_addr, queue, saved, typed, spoilt>>

(* A handler of another process takes a setting.                           *)
PostOther ==
    /\ form' = TRUE
    /\ UNCHANGED <<remote_addr, config, input, queue, saved, typed, unheard, spoilt>>

(* Mutant: a form that sets the defaults leaves the saving to its end.     *)
RestoreDefaultsLater ==
    /\ remote_addr' = Default
    /\ config' = DefaultConfig
    /\ typed' = FALSE
    /\ unheard' = ~input
    /\ form' \in {form, TRUE}
    /\ UNCHANGED <<input, queue, saved, spoilt>>

(* cc26xx_web_demo_restore_defaults, by a long press or by a form's field: *)
(* set_config_defaults at once, which leaves the input alone, and a save.  *)
RestoreDefaults ==
    /\ remote_addr' = Default
    /\ config' = DefaultConfig
    /\ typed' = FALSE
    /\ unheard' = ~input
    /\ SaveConfig
    /\ form' \in {form, TRUE}
    /\ UNCHANGED <<input, queue>>

(* The request ends and the server posts httpd_simple_event_new_config.    *)
FormEnds ==
    /\ form
    /\ form' = FALSE
    /\ Post("new_config")
    /\ spoilt' = (spoilt \/ Len(queue) = QUEUE_SIZE)
    /\ UNCHANGED <<remote_addr, config, input, saved, typed, unheard>>

UartNext ==
    \/ Reset
    \/ TypeLine \/ OtherPosts \/ Deliver
    \/ PostPort \/ PostAddress \/ PostOnOff \/ PostOther
    \/ RestoreDefaults \/ FormEnds

UartSpec == UartInit /\ [][UartNext]_uartVars
-------------------------------------------------------------------------------
(* What is typed goes where the configuration says, unless an address was  *)
(* typed after the configuration was last set, or the event that announces *)
(* the loaded one is still in the queue. In particular an address that was *)
(* typed does not outlive the restart, the defaults or a form.             *)
SendsWhereConfigured ==
    remote_addr = config.remote_address \/ typed \/ Pending("loaded")

(* The console is heard exactly when the configuration enables it, but for *)
(* the time until the loaded configuration is announced, and after the     *)
(* defaults: they enable a UART that was off, and it stays deaf until a    *)
(* form or a restart.                                                      *)
HeardIfEnabled ==
    input = config.enable \/ (config.enable /\ (unheard \/ Pending("loaded")))

(* The settings in use are those in the flash, unless a form is under way, *)
(* its event is in the queue, nothing was ever saved, or the flash failed  *)
(* or the queue was full.                                                  *)
RunsAsSaved ==
    saved # {config} =>
       form \/ Pending("new_config") \/ spoilt
       \/ (saved = {} /\ config = DefaultConfig)
===============================================================================
