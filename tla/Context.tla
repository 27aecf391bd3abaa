------------------------------ MODULE Context ------------------------------
(***************************************************************************)
(* UEFI::Context and IO::IoContext: the image attaches itself to the       *)
(* firmware's system table once, and leaves the boot services once.  An    *)
(* output pipeline lives through all of it: text may be written before the *)
(* console is attached, while it is, and after the boot services have      *)
(* gone.  Calls of the context come between the calls of the pipeline.     *)
(***************************************************************************)
EXTENDS OutputPipeline

CONSTANTS
  Tables,       \* system tables a caller may pass
  Usable,       \* those with boot services and runtime services
  WithConsole,  \* those with a ConsoleOut
  Handles,      \* image handles
  None

ASSUME ContextAssumption ==
  /\ WithConsole \subseteq Usable /\ Usable \subseteq Tables
  /\ None \notin Tables \cup Handles

VARIABLES
  systemTable,   \* SystemTable_, with RuntimeServices_
  bootServices,  \* BootServices_ is set
  imageHandle,   \* ImageHandle_
  answer,        \* what the last call of the context returned
  preparing,     \* PrepareExitBootServices runs
  prepared       \* for the properties: it has succeeded, and nothing has been
                 \* written since

context == <<systemTable, bootServices, imageHandle, answer, preparing, prepared>>
context_vars == <<pipeline_vars, context>>

IsInitialized == systemTable # None

ContextInit ==
  /\ PipelineInit
  /\ systemTable = None /\ bootServices = FALSE /\ imageHandle = None
  /\ answer = FALSE
  /\ preparing = FALSE /\ prepared = FALSE
-----------------------------------------------------------------------------
Answer(value) == answer' = value

\* ConsoleSink::Reset: what waits in the wide buffer is dropped.
ResetConsole(valid) ==
  /\ attached' = valid
  /\ wide' = IF device = "Console" THEN <<>> ELSE wide

\* IoContext::Attach, as far as the pipelines go.
AttachIO(table) == ResetConsole(table \in WithConsole)

\* Attach, which does something the first time only, and says whether the
\* context is attached to the table.
Attaches(table) == IF IsInitialized THEN systemTable = table ELSE table \in Usable

DoAttach(table) ==
  IF ~IsInitialized /\ table \in Usable
  THEN /\ systemTable' = table
       /\ bootServices' = TRUE
       /\ AttachIO(table)
  ELSE UNCHANGED <<systemTable, bootServices, attached, wide>>

Attach ==
  /\ op = "None"
  /\ \E table \in Tables \cup {None} : DoAttach(table) /\ Answer(Attaches(table))
  /\ UNCHANGED <<imageHandle, preparing, prepared, buffered_vars, newline_vars,
                 screen, failures, device, text>>

\* Normalize is for one image: a second handle is refused.
Normalize ==
  /\ op = "None"
  /\ \E table \in Tables \cup {None}, handle \in Handles \cup {None} :
       IF handle = None
       THEN /\ Answer(FALSE)
            /\ UNCHANGED <<systemTable, bootServices, imageHandle, attached, wide>>
       ELSE LET mine == Attaches(table) /\ imageHandle \in {None, handle}
            IN /\ DoAttach(table)
               /\ Answer(mine)
               /\ imageHandle' = IF mine THEN handle ELSE imageHandle
  /\ UNCHANGED <<preparing, prepared, buffered_vars, newline_vars,
                 screen, failures, device, text>>

\* PrepareExitBootServices flushes the pipelines while there are boot services.
PrepareExitBootServices ==
  /\ op = "None"
  /\ \/ /\ bootServices
        /\ Flush
        /\ preparing' = TRUE
        /\ UNCHANGED answer
     \/ /\ ~bootServices
        /\ Answer(FALSE)
        /\ UNCHANGED <<buffered_vars, preparing>>
  /\ UNCHANGED <<systemTable, bootServices, imageHandle, prepared,
                 newline_vars, device_vars, device, attached, text>>

\* Deliberate error: the console keeps what it has not shown.
ExitKeepingWide ==
  /\ op = "None" /\ bootServices
  /\ bootServices' = FALSE
  /\ attached' = FALSE
  /\ UNCHANGED <<systemTable, imageHandle, answer, preparing, prepared, wide,
                 buffered_vars, newline_vars, screen, failures,
                 device, text>>

\* Deliberate error: the input and output are not told.
ExitWithoutIO ==
  /\ op = "None" /\ bootServices
  /\ bootServices' = FALSE
  /\ UNCHANGED <<systemTable, imageHandle, answer, preparing, prepared,
                 pipeline_vars>>

\* The firmware has ended the boot services, and the image tells the context.
ExitBootServicesSucceeded ==
  /\ op = "None" /\ bootServices
  /\ bootServices' = FALSE
  /\ ResetConsole(FALSE)
  /\ UNCHANGED <<systemTable, imageHandle, answer, preparing, prepared,
                 buffered_vars, newline_vars, screen, failures,
                 device, text>>

\* Deliberate error: a flush that failed prepares the exit too.
FlushAnswered == TRUE

\* The result of the flush as a Bool.
FlushAnswer == result' = "Ok"

\* A step of the pipeline, and what PrepareExitBootServices makes of its end.
RunPipeline ==
  /\ PipelineNext
  /\ IF preparing /\ op' = "None"
     THEN /\ Answer(FlushAnswer)
          /\ preparing' = FALSE
          /\ prepared' = FlushAnswer
     ELSE /\ prepared' = (prepared /\ op' # "Write")
          /\ UNCHANGED <<answer, preparing>>
  /\ UNCHANGED <<systemTable, bootServices, imageHandle>>

ContextNext ==
  \/ Attach
  \/ Normalize
  \/ PrepareExitBootServices
  \/ ExitBootServicesSucceeded
  \/ RunPipeline

ContextSpec == ContextInit /\ [][ContextNext]_context_vars
-----------------------------------------------------------------------------
\* UEFI::Context and IO::IoContext never disagree: the console can be used
\* exactly as long as the boot services of a table that has one can be.  When
\* it cannot, it has nothing that a flush would show: FlushWide does not look
\* whether it is attached before it calls the firmware.
ContextsAgree ==
  /\ attached = (bootServices /\ systemTable \in WithConsole)
  /\ device = "Console" /\ ~attached => wide = <<>>

\* An image that leaves after a successful PrepareExitBootServices, and has
\* written nothing in between, has shown every character it ever wrote.
PreparedExitShowsAll ==
  [][bootServices /\ ~bootServices' /\ prepared
       => \A n \in 1..acknowledged : \E i \in 1..Len(screen) : screen[i] = n]_context_vars
=============================================================================
