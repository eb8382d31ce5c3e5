\* The gateway's controller alone; what operator, consumers and machine do is bounded.
CONSTANTS
  Gateway = gateway
  Provider = provider
  Controllers = {gateway}
  llama = llama
  qwen = qwen
  sdxl = sdxl
  ollama = ollama
  webui = webui
  Catalog <- MCCatalog
  ImageOf <- MCImageOf
  Size <- MCSize
  Estimate <- MCEstimate
  Price <- MCPrice
  Runnable = {llama, qwen, sdxl}
  Live = {llama, qwen, sdxl}
  Bootstrap = {llama}
  Demands <- MCDemands
  Budgets = {0, 1}
  NoImage = NoImage
  MaxEvents = 2
SPECIFICATION FairSpec
INVARIANTS
  HostedTypeOK
  PlanFillsBudget

  
