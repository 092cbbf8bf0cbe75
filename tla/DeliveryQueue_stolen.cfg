SPECIFICATION Spec
CONSTANTS
    m1 = m1  m2 = m2  a1 = a1  a2 = a2  mb1 = mb1  mb2 = mb2
    Messages = {m1}
    Workers = {w1, w2}
    Mailboxes = {mb1}
    Addresses = {a1}
    MailboxOf <- OneMailbox
    RecipientsOf <- SharedRecipient
    Replies <- TellingReplies
    Hosted = {mb1}
    RaisesAt <- NoneRaises
    MaxAttempts = 2
    BatchSize = 2
    Ceiling = 1
    ClaimsOutliveSends = FALSE
    MaxInterruptions = 0
    MaxOperatorActs = 0
    Nobody = Nobody
    NoMessage = NoMessage
    Instants <- Ends
INVARIANTS
    DuplicatesExplained
