\* Two requests at a time, no GPU; workers die, the gateway is restarted with another
\* Whisper size as often as it likes.
CONSTANTS
  Tasks = {t1, t2}
  Gateway = gateway
  Provider = provider
  chat = chat
  asr = asr
  film = film
  wan = wan
  Endpoints = {chat, asr, film, wan}
  KindOf <- MCKinds
  Sizes = {base, small}
  Gpu = FALSE
  Sealed = FALSE
  Faults = {"verify", "run", "pull", "refused", "empty", "cut", "death"}
  None = None
SPECIFICATION FairSpec
INVARIANTS
  TypeOK
  ReportsWhatServed

  
  
