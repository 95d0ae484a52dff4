------------------------------ MODULE IoError ------------------------------
(***************************************************************************)
(* The conversions of src/io_error.rs between IoError and std::io::Error.  *)
(* An io::Error is a record of its ErrorKind and of the IoError it boxes.  *)
(***************************************************************************)

IoErrors ==
  {"Unknown", "InternalFailure", "TemporarilyOffline", "InvalidState", "PeerFailure",
   "BrokenPipe", "NotFound", "Unsupported", "PermissionDenied", "AuthenticationRequired",
   "AuthenticationFailed", "ConnectionRefused", "Unreachable", "AbortRequested",
   "AllocationConflict", "OperationConflict", "OptimisticConcurrencyFailure", "Deadlock",
   "AlreadyExists", "MalformedInput", "InvalidData", "InvalidReference", "TimedOut",
   "TooBig", "Busy", "RateLimited", "QuotaLimited", "Interrupted", "UnexpectedEof",
   "OutOfMemory", "OutOfStorage"}

\* From<IoError> for ErrorKind: the kinds that stand for several errors, the
\* kinds with another name, and those with the name of the error.
ToKind(err) ==
  CASE err \in {"Unknown", "InternalFailure", "TemporarilyOffline", "InvalidState",
                "PeerFailure", "OperationConflict"} -> "Other"
    [] err \in {"AuthenticationRequired", "AuthenticationFailed"} -> "PermissionDenied"
    [] err = "InvalidReference" -> "InvalidData"
    [] err = "OptimisticConcurrencyFailure" -> "Deadlock"
    [] err \in {"RateLimited", "QuotaLimited"} -> "QuotaExceeded"
    [] err = "Unreachable" -> "HostUnreachable"
    [] err = "AbortRequested" -> "ConnectionAborted"
    [] err = "AllocationConflict" -> "AddrInUse"
    [] err = "MalformedInput" -> "InvalidInput"
    [] err = "TooBig" -> "ArgumentListTooLong"
    [] err = "Busy" -> "ResourceBusy"
    [] err = "OutOfStorage" -> "StorageFull"
    [] OTHER -> err

\* From<ErrorKind> for IoError: for every error, the kinds that become it; any
\* other kind is Unknown.
KindsOf ==
  [NotFound           |-> {"NotFound"},
   PermissionDenied   |-> {"PermissionDenied"},
   ConnectionRefused  |-> {"ConnectionRefused"},
   BrokenPipe         |-> {"ConnectionReset", "NotConnected", "BrokenPipe", "WriteZero"},
   Unreachable        |-> {"HostUnreachable", "NetworkUnreachable"},
   AbortRequested     |-> {"ConnectionAborted"},
   AllocationConflict |-> {"AddrInUse", "AddrNotAvailable"},
   TemporarilyOffline |-> {"NetworkDown"},
   AlreadyExists      |-> {"AlreadyExists"},
   Busy               |-> {"WouldBlock", "ResourceBusy", "ExecutableFileBusy"},
   InvalidReference   |-> {"NotADirectory", "IsADirectory", "StaleNetworkFileHandle"},
   OperationConflict  |-> {"DirectoryNotEmpty"},
   Unsupported        |-> {"ReadOnlyFilesystem", "NotSeekable", "CrossesDevices", "Unsupported"},
   MalformedInput     |-> {"InvalidInput", "InvalidFilename"},
   InvalidData        |-> {"InvalidData"},
   TimedOut           |-> {"TimedOut"},
   OutOfStorage       |-> {"StorageFull"},
   QuotaLimited       |-> {"QuotaExceeded"},
   TooBig             |-> {"FileTooLarge", "ArgumentListTooLong"},
   Deadlock           |-> {"Deadlock"},
   Interrupted        |-> {"Interrupted"},
   UnexpectedEof      |-> {"UnexpectedEof"},
   OutOfMemory        |-> {"OutOfMemory"},
   Unknown            |-> {"TooManyLinks", "Other"}]

Kinds == UNION {KindsOf[err] : err \in DOMAIN KindsOf}

FromKind(kind) ==
  IF kind \in Kinds
  THEN CHOOSE err \in DOMAIN KindsOf : kind \in KindsOf[err]
  ELSE "Unknown"

NoBox == "nothing boxed"

\* Seeded fault: the error is passed on by its kind only.
ToErrorByKind(err) == [kind |-> ToKind(err), boxed |-> NoBox]

\* From<IoError> for io::Error.
ToError(err) == [kind |-> ToKind(err), boxed |-> err]

\* From<io::Error> for IoError.
FromError(error) ==
  IF error.boxed # NoBox THEN error.boxed ELSE FromKind(error.kind)
=============================================================================
