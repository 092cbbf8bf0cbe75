SPECIFICATION FairSpec
CONSTANTS
    m1 = m1  m2 = m2  a1 = a1  a2 = a2  mb1 = mb1  mb2 = mb2
    Messages = {m1, m2, m3}
    Workers = {w1}
    Mailboxes = {mb1, mb2}
    Addresses = {a1}
    MailboxOf <- TwoMailboxes
    RecipientsOf <- SharedRecipient
    Replies <- TellingReplies
    Hosted = {mb1}
    RaisesAt <- SecondRaises
    MaxAttempts = 2
    BatchSize = 3
    Ceiling = 1
    ClaimsOutliveSends = TRUE
    MaxInterruptions = 1
    MaxOperatorActs = 0
    Nobody = Nobody
    NoMessage = NoMessage
    Instants <- Ends
PROPERTIES
    EventuallySettled
